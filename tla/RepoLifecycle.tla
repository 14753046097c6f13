--------------------------- MODULE RepoLifecycle ---------------------------
(***************************************************************************)
(* The life of a repository record and of the data it stands for: web      *)
(* requests that mark users and repositories for deletion, the scheduler   *)
(* jobs those requests start once their transaction is committed, the      *)
(* directory walk that adds and removes records, and a restart of the      *)
(* server.  Every request and every job has a database session of its own: *)
(* what it loads is a snapshot, what it changes is applied by its COMMIT,  *)
(* and anything may happen between the two.                                *)
(*                                                                         *)
(* rdiffweb/core/model/_user.py, _repo.py, _callbacks.py, librdiff.py and  *)
(* the pages and API that call them.                                       *)
(***************************************************************************)
EXTENDS Naturals, Functions

CONSTANTS
    Users,          \* user ids: never reused, a deleted one stays deleted
    Roots,          \* directories an administrator may give a user as root
    Paths,          \* paths of repositories below a root
    Threads,        \* threads serving web requests
    Slots,          \* jobs the scheduler can hold at once
    Operations,     \* bound: the requests made in this instance
    MaxRequests,    \* bound: how many of them
    MaxRow,         \* bound: repository records ever inserted
    MaxCrashes,     \* bound: restarts of the server
    MaxFaults,      \* bound: failing file-system and database operations
    ForeignKeys     \* TRUE when the database enforces foreign keys

ASSUME BoundsAssumption ==
    /\ MaxRequests \in Nat /\ MaxRow \in Nat /\ MaxCrashes \in Nat /\ MaxFaults \in Nat
    /\ Operations \subseteq {"deleteRepo", "deleteUserData", "deleteUser", "setStatus",
                             "refresh", "setRoot"}
ASSUME ForeignKeysAssumption == ForeignKeys \in BOOLEAN

VARIABLES
    userStatus,     \* column users.status, "new" before the INSERT, "gone" after the DELETE
    userRoot,       \* column users.UserRoot
    repo,           \* table repos, by primary key
    lastRow,        \* last primary key given out (sqlite_autoincrement)
    disk,           \* <<root, path>> of the directories with rdiff-backup-data
    audit,          \* table messages: the deletions that were scheduled
    req,            \* what each request thread is doing
    job,            \* what each scheduler job is doing
    requests,       \* how many requests were made
    crashes, faults \* how often the environment failed so far

db   == <<userStatus, userRoot, repo, lastRow, audit>>
env  == <<requests, crashes, faults>>
vars == <<userStatus, userRoot, repo, lastRow, disk, audit, req, job, requests, crashes, faults>>

-----------------------------------------------------------------------------
(***************************************************************************)
(* Types                                                                   *)
(***************************************************************************)
RowIds == 1..MaxRow

UserStatus == {"new", "", "disabled", "deleting", "gone"}

NoRow == [status |-> "absent"]
Row   == [owner : Users, path : Paths, status : {"", "deleting"}]

\* An ORM session's copy of some repository records.
Snapshot == SUBSET (RowIds \X Paths)

\* Arguments of 'scheduler:add_job_now': delete_repo(id) or delete_user_with_data(id).
RepoTask == [kind : {"repo"}, user : Users, row : RowIds]
UserTask == [kind : {"user"}, user : Users]
Task     == RepoTask \cup UserTask

Event == [kind : {"repo"}, user : Users, path : Paths] \cup [kind : {"user"}, user : Users]

Idle    == [op |-> "idle"]
\* A validated form: `fresh` are the records and `changed` whether the user
\* record the COMMIT has to UPDATE.  A walk notes in `since` the last key given out
\* when it began: only its property looks at that.
Form    == [op : {"deleteRepo", "deleteUserData", "deleteUser"}, user : Users,
            seen : Snapshot, fresh : SUBSET RowIds, changed : BOOLEAN]
Edit    == [op : {"setStatus"}, user : Users, status : {"", "disabled"}]
Scan    == [op : {"refresh", "setRoot"}, user : Users, root : Roots, seen : Snapshot,
            prune : BOOLEAN, todo : SUBSET Paths, found : SUBSET Paths,
            since : 0..MaxRow]
Callback == [op : {"publish"}, task : Task]
Request == {Idle} \cup Form \cup Edit \cup Scan \cup Callback

Free    == [pc |-> "free"]
Pending == [pc : {"pending"}, task : Task]
Running == [pc : {"running"}, task : Task, root : Roots, rows : SUBSET RowIds, todo : SUBSET Paths]
Job     == {Free} \cup Pending \cup Running

-----------------------------------------------------------------------------
(***************************************************************************)
(* Helpers                                                                 *)
(***************************************************************************)
Live(u)    == userStatus[u] \notin {"new", "gone"}
RowsOf(u)  == {i \in RowIds : repo[i] # NoRow /\ repo[i].owner = u}
Ids(seen)  == {x[1] : x \in seen}
PathsOf(seen) == {x[2] : x \in seen}
Load(rows) == {<<i, repo[i].path>> : i \in rows}

RepoEvent(u, p) == [kind |-> "repo", user |-> u, path |-> p]
UserEvent(u)    == [kind |-> "user", user |-> u]

\* The audit log says that somebody asked for the data of u at p to go.
Condemned(u, p) == RepoEvent(u, p) \in audit \/ UserEvent(u) \in audit

\* The highest primary key in use before an INSERT: AUTOINCREMENT remembers it.
\* Mutant: without sqlite_autoincrement the highest key of the table counts.
HighestKeyInTable ==
    CHOOSE n \in 0..MaxRow : /\ \A i \in RowIds : repo[i] # NoRow => i <= n
                             /\ n # 0 => repo[n] # NoRow
HighestKey == lastRow

\* An UPDATE of a record that is no longer there fails the transaction.
\* Mutant: the number of rows updated is not checked.
UpdatableUnchecked(r) == TRUE
Updatable(r) == /\ \A i \in r.fresh : repo[i] # NoRow
                /\ r.changed => Live(r.user)

\* A user cannot be deleted while a record of his remains, if the database looks.
\* Mutant: the foreign key is not declared.
DeletableUnchecked(u, ids) == TRUE
Deletable(u, ids) == ~ForeignKeys \/ RowsOf(u) \subseteq ids

Without(rows) == [i \in RowIds |-> IF i \in rows THEN NoRow ELSE repo[i]]
Marked(rows)  == [i \in RowIds |-> IF i \in rows THEN [repo[i] EXCEPT !.status = "deleting"]
                                   ELSE repo[i]]

\* Of the records of one snapshot, one is matched with each path found.
Matches(kept, seen, found) ==
    /\ kept \subseteq seen
    /\ PathsOf(kept) = PathsOf(seen) \cap found
    /\ \A x, y \in kept : x[2] = y[2] => x = y

-----------------------------------------------------------------------------
Init ==
    /\ userStatus = [u \in Users |-> "new"]
    /\ userRoot \in [Users -> Roots]
    /\ repo = [i \in RowIds |-> NoRow]
    /\ lastRow = 0
    /\ disk \in SUBSET (Roots \X Paths)
    /\ audit = {}
    /\ req = [t \in Threads |-> Idle]
    /\ job = [s \in Slots |-> Free]
    /\ requests = 0 /\ crashes = 0 /\ faults = 0

-----------------------------------------------------------------------------
(***************************************************************************)
(* Web requests                                                            *)
(***************************************************************************)
Begin(t, r) ==
    /\ req[t] = Idle
    /\ r.op \in Operations
    /\ requests < MaxRequests
    /\ req' = [req EXCEPT ![t] = r]
    /\ requests' = requests + 1
    /\ UNCHANGED <<db, disk, job, crashes, faults>>

\* The transaction is over and has no callback to run.
Finish(t) == req' = [req EXCEPT ![t] = Idle]

\* The transaction is over; its callback is still to be published.
\* Mutant: the callback is registered after the transaction and never runs.
FinishWithout(t, task) == Finish(t)
FinishWith(t, task) == req' = [req EXCEPT ![t] = [op |-> "publish", task |-> task]]

\* Somebody gets an account, from the administrator or at a first login.
AddUser(u) ==
    /\ userStatus[u] = "new"
    /\ userStatus' = [userStatus EXCEPT ![u] = ""]
    /\ UNCHANGED <<userRoot, repo, lastRow, disk, audit, req, job, env>>

\* The delete page found the record and the form is valid.
BeginDeleteRepo(t, i) ==
    /\ repo[i] # NoRow
    /\ Live(repo[i].owner)
    /\ Begin(t, [op |-> "deleteRepo", user |-> repo[i].owner, seen |-> Load({i}),
                 fresh |-> {k \in {i} : repo[k].status # "deleting"}, changed |-> FALSE])

\* schedule_delete_repo and the commit: event logged, record marked.
CommitDeleteRepo(t) ==
    LET r == req[t] IN
    /\ r.op = "deleteRepo"
    /\ Updatable(r)
    /\ repo' = Marked(r.fresh)
    /\ audit' = audit \cup {RepoEvent(r.user, p) : p \in PathsOf(r.seen)}
    /\ \E i \in Ids(r.seen) : FinishWith(t, [kind |-> "repo", user |-> r.user, row |-> i])
    /\ UNCHANGED <<userStatus, userRoot, lastRow, disk, job, env>>

\* An administrator submits the form that deletes a user, with or without the data.
BeginDeleteUser(t, u, deleteData) ==
    /\ Live(u)
    /\ Begin(t, [op |-> IF deleteData THEN "deleteUserData" ELSE "deleteUser", user |-> u,
                 seen |-> Load(RowsOf(u)),
                 fresh |-> {i \in RowsOf(u) : deleteData /\ repo[i].status # "deleting"},
                 changed |-> deleteData /\ userStatus[u] # "deleting"])

\* schedule_delete(delete_data=True) and the commit: user and records marked.
CommitDeleteUserData(t) ==
    LET r == req[t] IN
    /\ r.op = "deleteUserData"
    /\ Updatable(r)
    /\ userStatus' = IF r.changed THEN [userStatus EXCEPT ![r.user] = "deleting"] ELSE userStatus
    /\ repo' = Marked(r.fresh)
    /\ audit' = IF r.changed THEN audit \cup {UserEvent(r.user)} ELSE audit
    /\ FinishWith(t, [kind |-> "user", user |-> r.user])
    /\ UNCHANGED <<userRoot, lastRow, disk, job, env>>

\* schedule_delete() and the commit: the user goes with the records loaded.
CommitDeleteUser(t) ==
    LET r == req[t] IN
    /\ r.op = "deleteUser"
    /\ Deletable(r.user, Ids(r.seen))
    /\ userStatus' = [userStatus EXCEPT ![r.user] = "gone"]
    /\ repo' = Without(Ids(r.seen))
    /\ Finish(t)
    /\ UNCHANGED <<userRoot, lastRow, disk, audit, job, env>>

\* "Disabled" ticked, or cleared on a disabled user.
BeginSetStatus(t, u, status) ==
    /\ Live(u)
    /\ status = "" => userStatus[u] = "disabled"
    /\ userStatus[u] # status
    /\ Begin(t, [op |-> "setStatus", user |-> u, status |-> status])

CommitSetStatus(t) ==
    LET r == req[t] IN
    /\ r.op = "setStatus"
    /\ Live(r.user)
    /\ userStatus' = [userStatus EXCEPT ![r.user] = r.status]
    /\ Finish(t)
    /\ UNCHANGED <<userRoot, repo, lastRow, disk, audit, job, env>>

\* The COMMIT finds a record gone that it has to UPDATE, or one that references
\* what it has to DELETE: rollback, and the callbacks are dropped.
AbortCommit(t) ==
    LET r == req[t] IN
    /\ \/ r.op \in {"deleteRepo", "deleteUserData"} /\ ~Updatable(r)
       \/ r.op = "deleteUser" /\ ~Deletable(r.user, Ids(r.seen))
       \/ r.op = "setStatus" /\ ~Live(r.user)
       \/ r.op = "setRoot" /\ r.todo = {} /\ ~Live(r.user)
       \/ /\ r.op = "refresh" /\ r.todo = {} /\ ~Live(r.user)
          /\ ForeignKeys /\ ~(r.found \subseteq PathsOf(r.seen))
    /\ Finish(t)
    /\ UNCHANGED <<db, disk, job, env>>

\* run_tasks, once the transaction has ended.
Publish(t) ==
    LET r == req[t] IN
    /\ r.op = "publish"
    /\ \E s \in Slots : /\ job[s] = Free
                        /\ job' = [job EXCEPT ![s] = [pc |-> "pending", task |-> r.task]]
    /\ Finish(t)
    /\ UNCHANGED <<db, disk, env>>

-----------------------------------------------------------------------------
(***************************************************************************)
(* refresh_repos                                                           *)
(***************************************************************************)
\* Mutant: records on their way out are not loaded.
WalkUnmarked(u, root, op, prune, todo) ==
    [op |-> op, user |-> u, root |-> root,
     seen |-> Load({i \in RowsOf(u) : repo[i].status # "deleting"}),
     prune |-> prune, todo |-> todo, found |-> {}, since |-> lastRow]
Walk(u, root, op, prune, todo) ==
    [op |-> op, user |-> u, root |-> root, seen |-> Load(RowsOf(u)),
     prune |-> prune, todo |-> todo, found |-> {}, since |-> lastRow]

\* A page or the API refreshes; only the refresh buttons also remove records.
BeginRefresh(t, u, prune) ==
    /\ Live(u)
    /\ Begin(t, Walk(u, userRoot[u], "refresh", prune, Paths))

\* An administrator changes the root; the walk is left out if it is no directory.
BeginSetRoot(t, u, root, valid) ==
    /\ Live(u)
    /\ root # userRoot[u]
    /\ Begin(t, Walk(u, root, "setRoot", valid, IF valid THEN Paths ELSE {}))

\* os.walk reaches the directory at p.
VisitPath(t, p) ==
    LET r == req[t] IN
    /\ r.op \in {"refresh", "setRoot"}
    /\ p \in r.todo
    /\ req' = [req EXCEPT ![t].todo = @ \ {p},
                          ![t].found = @ \cup {q \in {p} : <<r.root, q>> \in disk}]
    /\ UNCHANGED <<db, disk, job, env>>

\* os.walk cannot read a directory above p: _onerror logs it and the walk goes on.
SkipUnreadable(t, p) ==
    LET r == req[t] IN
    /\ r.op \in {"refresh", "setRoot"}
    /\ p \in r.todo
    /\ faults < MaxFaults
    /\ req' = [req EXCEPT ![t].todo = @ \ {p}]
    /\ faults' = faults + 1
    /\ UNCHANGED <<db, disk, job, requests, crashes>>

\* The walk is over: records added and removed, the root stored, and a commit.
CommitScan(t) ==
    LET r     == req[t]
        fresh == r.found \ PathsOf(r.seen)
    IN
    /\ r.op \in {"refresh", "setRoot"}
    /\ r.todo = {}
    /\ r.op = "setRoot" => Live(r.user)
    /\ ForeignKeys /\ fresh # {} => Live(r.user)
    /\ \E n \in HighestKey..MaxRow, kept \in SUBSET r.seen :
         \E ids \in Bijection((HighestKey + 1)..n, fresh) :
            LET gone == IF r.prune THEN Ids(r.seen \ kept) ELSE {} IN
            /\ Matches(kept, r.seen, r.found)
            /\ repo' = [i \in RowIds |->
                          IF i \in DOMAIN ids
                          THEN [owner |-> r.user, path |-> ids[i], status |-> ""]
                          ELSE Without(gone)[i]]
            /\ lastRow' = n
    /\ userRoot' = IF r.op = "setRoot" THEN [userRoot EXCEPT ![r.user] = r.root] ELSE userRoot
    /\ Finish(t)
    /\ UNCHANGED <<userStatus, disk, audit, job, env>>

\* refresh_repos returned False: the pages do not commit, and what the walk
\* removed is lost with the session unless the session's owner commits it.
LeaveScan(t) ==
    LET r == req[t] IN
    /\ r.op = "refresh"
    /\ r.todo = {}
    /\ r.found \subseteq PathsOf(r.seen)
    /\ Finish(t)
    /\ UNCHANGED <<db, disk, job, env>>

-----------------------------------------------------------------------------
(***************************************************************************)
(* Scheduler jobs: delete_repo and delete_user_with_data                   *)
(***************************************************************************)
EndJob(s) == job' = [job EXCEPT ![s] = Free]

\* The record, or the user, is no longer there: the job ends with an exception.
TargetGone(task) ==
    \/ task.kind = "repo" /\ (repo[task.row] = NoRow \/ ~Live(task.user))
    \/ task.kind = "user" /\ ~Live(task.user)

\* Mutant: records another job is after are left to it.
JobTargetsUnmarked(task) ==
    {i \in RowIds : /\ repo[i] # NoRow
                   /\ IF task.kind = "repo" THEN i = task.row
                      ELSE repo[i].owner = task.user /\ repo[i].status # "deleting"}
JobTargets(task) == IF task.kind = "repo" THEN {task.row} ELSE RowsOf(task.user)

\* A session is opened and the job loads what it will delete.
StartJob(s) ==
    LET task == job[s].task IN
    /\ job[s].pc = "pending"
    /\ ~TargetGone(task)
    /\ job' = [job EXCEPT ![s] = [pc |-> "running", task |-> task, root |-> userRoot[task.user],
                                  rows |-> JobTargets(task),
                                  todo |-> PathsOf(Load(JobTargets(task)))]]
    /\ UNCHANGED <<db, disk, req, env>>

AbandonJob(s) ==
    /\ job[s].pc = "pending"
    /\ TargetGone(job[s].task)
    /\ EndJob(s)
    /\ UNCHANGED <<db, disk, req, env>>

\* RdiffRepo.delete_repo on the next record.
RemoveTree(s, p) ==
    /\ job[s].pc = "running"
    /\ p \in job[s].todo
    /\ disk' = disk \ {<<job[s].root, p>>}
    /\ job' = [job EXCEPT ![s].todo = @ \ {p}]
    /\ UNCHANGED <<db, req, env>>

\* rmtree fails: a warning is logged and the job goes on.
RemoveTreeFails(s, p) ==
    /\ job[s].pc = "running"
    /\ p \in job[s].todo
    /\ faults < MaxFaults
    /\ job' = [job EXCEPT ![s].todo = @ \ {p}]
    /\ faults' = faults + 1
    /\ UNCHANGED <<db, disk, req, requests, crashes>>

\* Records deleted, for delete_user_with_data the user as well, and a commit.
CommitJob(s) ==
    LET j == job[s] IN
    /\ j.pc = "running"
    /\ j.todo = {}
    /\ j.task.kind = "user" => Deletable(j.task.user, j.rows)
    /\ repo' = Without(j.rows)
    /\ userStatus' = IF j.task.kind = "user" THEN [userStatus EXCEPT ![j.task.user] = "gone"]
                     ELSE userStatus
    /\ EndJob(s)
    /\ UNCHANGED <<userRoot, lastRow, disk, audit, req, env>>

\* A record was added since the job loaded them: the database refuses.
RefusedJob(s) ==
    LET j == job[s] IN
    /\ j.pc = "running"
    /\ j.todo = {}
    /\ j.task.kind = "user" /\ ~Deletable(j.task.user, j.rows)
    /\ EndJob(s)
    /\ UNCHANGED <<db, disk, req, env>>

\* The COMMIT fails for a reason of its own; nothing schedules the job again.
JobCommitFails(s) ==
    /\ job[s].pc = "running"
    /\ job[s].todo = {}
    /\ faults < MaxFaults
    /\ EndJob(s)
    /\ faults' = faults + 1
    /\ UNCHANGED <<db, disk, req, requests, crashes>>

-----------------------------------------------------------------------------
(***************************************************************************)
(* Environment                                                             *)
(***************************************************************************)
\* A backup client creates the repository, or creates it again.
Backup(root, p) ==
    /\ <<root, p>> \notin disk
    /\ disk' = disk \cup {<<root, p>>}
    /\ UNCHANGED <<db, req, job, env>>

SameRepo(i, k) == repo[i].owner = repo[k].owner /\ repo[i].path = repo[k].path

AllRows == {i \in RowIds : repo[i] # NoRow}

\* The server stops and starts: threads, callbacks and jobs live in memory, and
\* update_repo_schema leaves one record per user and path.
Restart ==
    /\ crashes < MaxCrashes
    /\ crashes' = crashes + 1
    /\ req' = [t \in Threads |-> Idle]
    /\ job' = [s \in Slots |-> Free]
    /\ \E kept \in SUBSET AllRows :
         /\ \A i \in AllRows : \E k \in kept : SameRepo(i, k)
         /\ \A i, k \in kept : SameRepo(i, k) => i = k
         /\ repo' = Without(AllRows \ kept)
    /\ UNCHANGED <<userStatus, userRoot, lastRow, disk, audit, requests, faults>>

-----------------------------------------------------------------------------
NewRequest(t) ==
    \/ \E i \in RowIds : BeginDeleteRepo(t, i)
    \/ \E u \in Users :
         \/ \E b \in BOOLEAN : BeginDeleteUser(t, u, b) \/ BeginRefresh(t, u, b)
         \/ \E status \in {"", "disabled"} : BeginSetStatus(t, u, status)
         \/ \E root \in Roots, valid \in BOOLEAN : BeginSetRoot(t, u, root, valid)

RequestStep(t) ==
    \/ CommitDeleteRepo(t) \/ CommitDeleteUserData(t) \/ CommitDeleteUser(t)
    \/ CommitSetStatus(t) \/ AbortCommit(t) \/ Publish(t)
    \/ \E p \in Paths : VisitPath(t, p)
    \/ CommitScan(t) \/ LeaveScan(t)

JobStep(s) ==
    \/ StartJob(s) \/ AbandonJob(s) \/ CommitJob(s) \/ RefusedJob(s)
    \/ \E p \in Paths : RemoveTree(s, p)

Fault ==
    \/ \E t \in Threads, p \in Paths : SkipUnreadable(t, p)
    \/ \E s \in Slots : JobCommitFails(s) \/ \E p \in Paths : RemoveTreeFails(s, p)

Next ==
    \/ \E u \in Users : AddUser(u)
    \/ \E t \in Threads : NewRequest(t) \/ RequestStep(t)
    \/ \E s \in Slots : JobStep(s)
    \/ \E root \in Roots, p \in Paths : Backup(root, p)
    \/ Fault
    \/ Restart

Spec == Init /\ [][Next]_vars

\* The server's threads and the scheduler's keep running; nobody has to make a
\* request, to run a backup or to fail.
Fairness == /\ \A t \in Threads : WF_vars(RequestStep(t))
            /\ \A s \in Slots : WF_vars(JobStep(s))

FairSpec == Spec /\ Fairness

-----------------------------------------------------------------------------
(***************************************************************************)
(* Properties                                                              *)
(***************************************************************************)
\* Every variable holds a value of the type its column, table or object has.
TypeOK ==
    /\ userStatus \in [Users -> UserStatus]
    /\ userRoot \in [Users -> Roots]
    /\ repo \in [RowIds -> Row \cup {NoRow}]
    /\ lastRow \in 0..MaxRow
    /\ disk \in SUBSET (Roots \X Paths)
    /\ audit \in SUBSET Event
    /\ req \in [Threads -> Request]
    /\ job \in [Slots -> Job]
    /\ requests \in 0..MaxRequests
    /\ crashes \in 0..MaxCrashes
    /\ faults \in 0..MaxFaults

\* Backups leave the disk only through a job, and only where the audit log says
\* that a deletion of that user's repository at that path, or of that user, was
\* scheduled.  A job keeps nothing but a primary key (_repo.py:286, _user.py:367)
\* from the request to the moment it removes a directory: whatever happened to
\* the record in between, the key must not have come to mean another repository.
OnlyScheduledDataIsDeleted ==
    [][\A x \in disk \ disk' :
         \E s \in Slots : /\ job[s].pc = "running"
                          /\ job[s].root = x[1]
                          /\ Condemned(job[s].task.user, x[2])]_vars

\* What makes a job's primary key trustworthy, and OnlyScheduledDataIsDeleted
\* inductive: no key in use is above the highest one given out, whatever a task
\* refers to was scheduled, and a record keeps its owner and its path.
RowsNumbered == \A i \in RowIds : repo[i] # NoRow => i <= lastRow

DeletingIsLogged == \A u \in Users : userStatus[u] = "deleting" => UserEvent(u) \in audit

IsRecord(i, u, p) == i <= lastRow /\ (repo[i] # NoRow => repo[i].owner = u /\ repo[i].path = p)

TaskLogged(k) ==
    IF k.kind = "user" THEN UserEvent(k.user) \in audit
    ELSE \E p \in Paths : IsRecord(k.row, k.user, p) /\ RepoEvent(k.user, p) \in audit

RequestLogged(r) ==
    /\ r.op = "deleteRepo" => \A x \in r.seen : IsRecord(x[1], r.user, x[2])
    /\ r.op = "deleteUserData" => r.changed \/ UserEvent(r.user) \in audit
    /\ r.op = "publish" => TaskLogged(r.task)

JobLogged(j) ==
    /\ j.pc = "pending" => TaskLogged(j.task)
    /\ j.pc = "running" => \A p \in j.todo : Condemned(j.task.user, p)

\* Every key on its way to a job stands for what the audit log says of it, in
\* forms, callbacks, pending and running jobs alike.
KeysAreLogged ==
    /\ RowsNumbered /\ DeletingIsLogged
    /\ \A t \in Threads : RequestLogged(req[t])
    /\ \A s \in Slots : JobLogged(job[s])

\* No record outlives its user where the database enforces foreign keys, however
\* refreshes, user deletions and jobs interleave (repos.UserID, _repo.py:124).
NoOrphanRepo ==
    ForeignKeys => \A i \in AllRows : Live(repo[i].owner)

\* Somebody else inserted record i while the walk of request t was under way.
AddedMeanwhile(t, i) == i \in (req[t].since + 1)..lastRow

\* A walk that commits leaves its user one record per path (refresh_repos: "a
\* RepoObject for each sub directories", _user.py:429): no second one beside a record
\* that was there when it began, in whatever state, and only one of several it found
\* there if it removes.  What was inserted during the walk is all it may miss: two
\* walks that overlap do leave two records, until a walk that removes or a restart.
WalkLeavesOneRecord ==
    [][\A t \in Threads : CommitScan(t) =>
         \A i, k \in AllRows' :
            (i # k /\ SameRepo(i, k)' /\ repo'[i].owner = req[t].user) =>
               \/ AddedMeanwhile(t, i) \/ AddedMeanwhile(t, k)
               \/ ~req[t].prune /\ {i, k} \subseteq AllRows]_vars

Targets(task, i) ==
    IF task.kind = "repo" THEN task.row = i ELSE task.user = repo[i].owner

Pursued(i) ==
    \/ \E t \in Threads : req[t].op = "publish" /\ Targets(req[t].task, i)
    \/ \E s \in Slots : \/ job[s].pc = "pending" /\ Targets(job[s].task, i)
                        \/ job[s].pc = "running" /\ i \in job[s].rows

\* A record shown as "Deletion in progress..." (_repo.py:414) is the target of a
\* job, or of a callback about to schedule one; unless its user is gone.
DeletionInProgress ==
    \A i \in AllRows :
        repo[i].status = "deleting" /\ Live(repo[i].owner) => Pursued(i)

\* A record marked for deletion is deleted in the end (delete_repo and
\* delete_user_with_data), or its user is.
DeletionCompletes ==
    \A i \in RowIds :
        (repo[i] # NoRow /\ repo[i].status = "deleting")
            ~> (repo[i] = NoRow \/ ~Live(repo[i].owner))
=============================================================================
