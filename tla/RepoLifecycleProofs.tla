------------------------ MODULE RepoLifecycleProofs -------------------------
(***************************************************************************)
(* Theorems about RepoLifecycle, for every value of its constants: types,  *)
(* keys and the audit log, the deletions that are scheduled, users and the *)
(* records they own, what a walk leaves of the records of its user, and    *)
(* deletions in progress while no job is lost.                             *)
(***************************************************************************)
EXTENDS RepoLifecycle, TLAPS

-----------------------------------------------------------------------------
(***************************************************************************)
(* What a request or a job with a given label is made of                   *)
(***************************************************************************)
LEMMA RequestLabels ==
    ASSUME NEW r
    PROVE  /\ r = Idle => r.op = "idle"
           /\ r \in Form => r.op \in {"deleteRepo", "deleteUserData", "deleteUser"}
           /\ r \in Edit => r.op = "setStatus"
           /\ r \in Scan => r.op \in {"refresh", "setRoot"}
           /\ r \in Callback => r.op = "publish"
<1>1. r = Idle => r.op = "idle" BY DEF Idle
<1>2. r \in Form => r.op \in {"deleteRepo", "deleteUserData", "deleteUser"} BY DEF Form
<1>3. r \in Edit => r.op = "setStatus" BY DEF Edit
<1>4. r \in Scan => r.op \in {"refresh", "setRoot"} BY DEF Scan
<1>5. r \in Callback => r.op = "publish" BY DEF Callback
<1> QED BY <1>1, <1>2, <1>3, <1>4, <1>5

LEMMA RequestOfLabel ==
    ASSUME NEW r \in Request
    PROVE  /\ r.op \in {"deleteRepo", "deleteUserData", "deleteUser"} => r \in Form
           /\ r.op = "setStatus" => r \in Edit
           /\ r.op \in {"refresh", "setRoot"} => r \in Scan
           /\ r.op = "publish" => r \in Callback
BY RequestLabels DEF Request

LEMMA PendingLabel ==
    ASSUME NEW j \in Job, j.pc = "pending" PROVE j \in Pending
BY DEF Job, Free, Pending, Running

LEMMA RunningLabel ==
    ASSUME NEW j \in Job, j.pc = "running" PROVE j \in Running
BY DEF Job, Free, Pending, Running

LEMMA TaskLabel ==
    ASSUME NEW k \in Task
    PROVE  /\ k.user \in Users
           /\ k.kind \in {"repo", "user"}
           /\ k.kind = "repo" => k \in RepoTask /\ k.row \in RowIds
BY DEF Task, RepoTask, UserTask

LEMMA RowFields ==
    ASSUME TypeOK, NEW i \in RowIds, repo[i] # NoRow
    PROVE  /\ repo[i] \in Row
           /\ repo[i].owner \in Users
           /\ repo[i].path \in Paths
           /\ repo[i].status \in {"", "deleting"}
BY DEF TypeOK, Row, NoRow

LEMMA LoadType ==
    ASSUME TypeOK, NEW rows \in SUBSET RowIds, \A i \in rows : repo[i] # NoRow
    PROVE  Load(rows) \in Snapshot
<1> SUFFICES ASSUME NEW i \in rows PROVE <<i, repo[i].path>> \in RowIds \X Paths
  BY DEF Load, Snapshot
<1> QED BY RowFields

LEMMA SnapshotParts ==
    ASSUME NEW seen \in Snapshot
    PROVE  Ids(seen) \in SUBSET RowIds /\ PathsOf(seen) \in SUBSET Paths
BY DEF Snapshot, Ids, PathsOf

LEMMA TablesType ==
    ASSUME TypeOK, NEW rows \in SUBSET RowIds
    PROVE  /\ Without(rows) \in [RowIds -> Row \cup {NoRow}]
           /\ (\A i \in rows : repo[i] # NoRow) => Marked(rows) \in [RowIds -> Row \cup {NoRow}]
<1>1. Without(rows) \in [RowIds -> Row \cup {NoRow}]
  BY DEF TypeOK, Without
<1>2. ASSUME \A i \in rows : repo[i] # NoRow
      PROVE  Marked(rows) \in [RowIds -> Row \cup {NoRow}]
  <2>1. ASSUME NEW i \in rows PROVE [repo[i] EXCEPT !.status = "deleting"] \in Row
    BY <1>2, RowFields DEF Row
  <2> QED BY <2>1 DEF TypeOK, Marked
<1> QED BY <1>1, <1>2
-----------------------------------------------------------------------------
(***************************************************************************)
(* Type correctness                                                        *)
(***************************************************************************)
LEMMA Constants ==
    /\ Idle \in Request /\ Free \in Job
    /\ MaxRequests \in Nat /\ MaxRow \in Nat /\ MaxCrashes \in Nat /\ MaxFaults \in Nat
    /\ NoRow \notin Row
BY BoundsAssumption DEF BoundsAssumption, Request, Job, NoRow, Row

\* A step that begins a request changes nothing else.
LEMMA BeginType ==
    ASSUME TypeOK, NEW t \in Threads, NEW r \in Request, Begin(t, r)
    PROVE  TypeOK'
BY Constants DEF TypeOK, Begin, db

LEMMA WalkType ==
    ASSUME TypeOK, NEW u \in Users, NEW root \in Roots, NEW op \in {"refresh", "setRoot"},
           NEW prune \in BOOLEAN, NEW todo \in SUBSET Paths
    PROVE  Walk(u, root, op, prune, todo) \in Request
<1>1. Load(RowsOf(u)) \in Snapshot
  BY LoadType DEF RowsOf
<1>2. lastRow \in 0..MaxRow
  BY DEF TypeOK
<1> QED BY <1>1, <1>2 DEF Walk, Request, Scan

\* The requests there may be begin with a snapshot of the records they act upon.
LEMMA NewRequestType ==
    ASSUME TypeOK, NEW t \in Threads, NewRequest(t)
    PROVE  TypeOK'
<1>1. ASSUME NEW i \in RowIds, BeginDeleteRepo(t, i) PROVE TypeOK'
  <2>1. repo[i].owner \in Users /\ Load({i}) \in Snapshot
    BY <1>1, RowFields, LoadType DEF BeginDeleteRepo
  <2> DEFINE r == [op |-> "deleteRepo", user |-> repo[i].owner, seen |-> Load({i}),
                   fresh |-> {k \in {i} : repo[k].status # "deleting"}, changed |-> FALSE]
  <2>2. r \in Request
    BY <2>1 DEF Request, Form
  <2> QED BY <1>1, <2>2, BeginType DEF BeginDeleteRepo
<1>2. ASSUME NEW u \in Users, NEW b \in BOOLEAN, BeginDeleteUser(t, u, b) PROVE TypeOK'
  <2> DEFINE r == [op |-> IF b THEN "deleteUserData" ELSE "deleteUser", user |-> u,
                   seen |-> Load(RowsOf(u)),
                   fresh |-> {i \in RowsOf(u) : b /\ repo[i].status # "deleting"},
                   changed |-> b /\ userStatus[u] # "deleting"]
  <2>1. Load(RowsOf(u)) \in Snapshot /\ RowsOf(u) \in SUBSET RowIds
    BY LoadType DEF RowsOf
  <2>2. {i \in RowsOf(u) : b /\ repo[i].status # "deleting"} \in SUBSET RowIds
    BY <2>1
  <2>3. (b /\ userStatus[u] # "deleting") \in BOOLEAN
    BY <1>2
  <2>4. r \in Request
    BY <2>1, <2>2, <2>3 DEF Request, Form
  <2> QED BY <1>2, <2>4, BeginType DEF BeginDeleteUser
<1>3. ASSUME NEW u \in Users, NEW b \in BOOLEAN, BeginRefresh(t, u, b) PROVE TypeOK'
  <2>1. Walk(u, userRoot[u], "refresh", b, Paths) \in Request
    BY WalkType DEF TypeOK
  <2> QED BY <1>3, <2>1, BeginType DEF BeginRefresh
<1>4. ASSUME NEW u \in Users, NEW status \in {"", "disabled"}, BeginSetStatus(t, u, status)
      PROVE  TypeOK'
  <2>1. [op |-> "setStatus", user |-> u, status |-> status] \in Request
    BY DEF Request, Edit
  <2> QED BY <1>4, <2>1, BeginType DEF BeginSetStatus
<1>5. ASSUME NEW u \in Users, NEW root \in Roots, NEW valid \in BOOLEAN,
             BeginSetRoot(t, u, root, valid)
      PROVE  TypeOK'
  <2>1. Walk(u, root, "setRoot", valid, IF valid THEN Paths ELSE {}) \in Request
    BY WalkType
  <2> QED BY <1>5, <2>1, BeginType DEF BeginSetRoot
<1> QED BY <1>1, <1>2, <1>3, <1>4, <1>5 DEF NewRequest

\* What the commit of a walk does to the tables.
ScanEffect(n, gone, ids, u) ==
    /\ lastRow' = n
    /\ repo' = [i \in RowIds |-> IF i \in (lastRow + 1)..n
                                 THEN [owner |-> u, path |-> ids[i], status |-> ""]
                                 ELSE Without(gone)[i]]

LEMMA ScanCommitted ==
    ASSUME TypeOK, NEW t \in Threads, CommitScan(t)
    PROVE  /\ req[t].user \in Users /\ req[t].root \in Roots
           /\ \E n \in lastRow..MaxRow, gone \in SUBSET RowIds :
                \E ids \in [(lastRow + 1)..n -> Paths] : ScanEffect(n, gone, ids, req[t].user)
<1> DEFINE r == req[t]
           fresh == r.found \ PathsOf(r.seen)
           Gone(kept) == IF r.prune THEN Ids(r.seen \ kept) ELSE {}
<1>1. r \in Scan
  BY RequestOfLabel DEF CommitScan, TypeOK
<1>2. r.user \in Users /\ r.root \in Roots /\ r.seen \in Snapshot /\ r.found \in SUBSET Paths
  BY <1>1 DEF Scan
<1>3. PICK n \in lastRow..MaxRow, kept \in SUBSET r.seen :
        \E ids \in Bijection((lastRow + 1)..n, fresh) :
          /\ repo' = [i \in RowIds |-> IF i \in DOMAIN ids
                                        THEN [owner |-> r.user, path |-> ids[i], status |-> ""]
                                        ELSE Without(Gone(kept))[i]]
          /\ lastRow' = n
  BY DEF CommitScan, HighestKey
<1>4. PICK ids \in Bijection((lastRow + 1)..n, fresh) :
          /\ repo' = [i \in RowIds |-> IF i \in DOMAIN ids
                                        THEN [owner |-> r.user, path |-> ids[i], status |-> ""]
                                        ELSE Without(Gone(kept))[i]]
          /\ lastRow' = n
  BY <1>3
<1>5. ids \in [(lastRow + 1)..n -> Paths] /\ DOMAIN ids = (lastRow + 1)..n
  BY <1>2 DEF Bijection, Injection
<1>6. Gone(kept) \in SUBSET RowIds
  BY <1>2, SnapshotParts DEF Snapshot
<1>7. ScanEffect(n, Gone(kept), ids, r.user)
  BY <1>4, <1>5 DEF ScanEffect
<1> QED BY <1>2, <1>5, <1>6, <1>7

LEMMA RequestStepType ==
    ASSUME TypeOK, NEW t \in Threads, RequestStep(t)
    PROVE  TypeOK'
<1> DEFINE r == req[t]
<1>1. r \in Request
  BY DEF TypeOK
<1>2. CASE CommitDeleteRepo(t)
  <2>1. r \in Form
    BY <1>1, <1>2, RequestOfLabel DEF CommitDeleteRepo
  <2>2. /\ r.user \in Users /\ r.fresh \in SUBSET RowIds
        /\ Ids(r.seen) \in SUBSET RowIds /\ PathsOf(r.seen) \in SUBSET Paths
    BY <2>1, SnapshotParts DEF Form
  <2>3. repo' \in [RowIds -> Row \cup {NoRow}]
    BY <1>2, <2>2, TablesType DEF CommitDeleteRepo, Updatable
  <2>4. audit' \in SUBSET Event
    BY <1>2, <2>2 DEF CommitDeleteRepo, RepoEvent, Event, TypeOK
  <2>5. ASSUME NEW i \in Ids(r.seen)
        PROVE  [op |-> "publish", task |-> [kind |-> "repo", user |-> r.user, row |-> i]] \in Request
    BY <2>2 DEF Request, Callback, Task, RepoTask
  <2>6. req' \in [Threads -> Request]
    BY <1>2, <2>5 DEF CommitDeleteRepo, FinishWith, TypeOK
  <2> QED BY <1>2, <2>3, <2>4, <2>6 DEF CommitDeleteRepo, TypeOK, env
<1>3. CASE CommitDeleteUserData(t)
  <2>1. r \in Form
    BY <1>1, <1>3, RequestOfLabel DEF CommitDeleteUserData
  <2>2. r.user \in Users /\ r.fresh \in SUBSET RowIds
    BY <2>1 DEF Form
  <2>3. repo' \in [RowIds -> Row \cup {NoRow}]
    BY <1>3, <2>2, TablesType DEF CommitDeleteUserData, Updatable
  <2>4. audit' \in SUBSET Event
    BY <1>3, <2>2 DEF CommitDeleteUserData, UserEvent, Event, TypeOK
  <2>5. userStatus' \in [Users -> UserStatus]
    BY <1>3, <2>2 DEF CommitDeleteUserData, UserStatus, TypeOK
  <2>6. [op |-> "publish", task |-> [kind |-> "user", user |-> r.user]] \in Request
    BY <2>2 DEF Request, Callback, Task, UserTask
  <2>7. req' \in [Threads -> Request]
    BY <1>3, <2>6 DEF CommitDeleteUserData, FinishWith, TypeOK
  <2> QED BY <1>3, <2>3, <2>4, <2>5, <2>7 DEF CommitDeleteUserData, TypeOK, env
<1>4. CASE CommitDeleteUser(t)
  <2>1. r \in Form
    BY <1>1, <1>4, RequestOfLabel DEF CommitDeleteUser
  <2>2. r.user \in Users /\ Ids(r.seen) \in SUBSET RowIds
    BY <2>1, SnapshotParts DEF Form
  <2>3. repo' \in [RowIds -> Row \cup {NoRow}]
    BY <1>4, <2>2, TablesType DEF CommitDeleteUser
  <2> QED BY <1>4, <2>2, <2>3, Constants DEF CommitDeleteUser, Finish, UserStatus, TypeOK, env
<1>5. CASE CommitSetStatus(t)
  <2>1. r \in Edit
    BY <1>1, <1>5, RequestOfLabel DEF CommitSetStatus
  <2>2. r.user \in Users /\ r.status \in UserStatus
    BY <2>1 DEF Edit, UserStatus
  <2> QED BY <1>5, <2>2, Constants DEF CommitSetStatus, Finish, TypeOK, env
<1>6. CASE AbortCommit(t)
  BY <1>6, Constants DEF AbortCommit, Finish, TypeOK, db, env
<1>7. CASE Publish(t)
  <2>1. r \in Callback
    BY <1>1, <1>7, RequestOfLabel DEF Publish
  <2>2. [pc |-> "pending", task |-> r.task] \in Job
    BY <2>1 DEF Callback, Job, Pending
  <2> QED BY <1>7, <2>2, Constants DEF Publish, Finish, TypeOK, db, env
<1>8. ASSUME NEW p \in Paths, VisitPath(t, p) PROVE TypeOK'
  <2>1. r \in Scan
    BY <1>1, <1>8, RequestOfLabel DEF VisitPath
  <2>2. [r EXCEPT !.todo = @ \ {p}, !.found = @ \cup {q \in {p} : <<r.root, q>> \in disk}] \in Scan
    BY <2>1 DEF Scan
  <2>3. req' \in [Threads -> Request]
    BY <1>8, <2>2 DEF VisitPath, Request, TypeOK
  <2> QED BY <1>8, <2>3 DEF VisitPath, TypeOK, db, env
<1>9. CASE CommitScan(t)
  <2>1. r.user \in Users /\ r.root \in Roots
    BY <1>9, ScanCommitted
  <2>2. PICK n \in lastRow..MaxRow, gone \in SUBSET RowIds :
          \E ids \in [(lastRow + 1)..n -> Paths] : ScanEffect(n, gone, ids, r.user)
    BY <1>9, ScanCommitted
  <2>3. PICK ids \in [(lastRow + 1)..n -> Paths] : ScanEffect(n, gone, ids, r.user)
    BY <2>2
  <2>4. ASSUME NEW i \in (lastRow + 1)..n
        PROVE  [owner |-> r.user, path |-> ids[i], status |-> ""] \in Row
    BY <2>1 DEF Row
  <2>5. Without(gone) \in [RowIds -> Row \cup {NoRow}]
    BY TablesType
  <2>6. repo' \in [RowIds -> Row \cup {NoRow}]
    BY <2>3, <2>4, <2>5 DEF ScanEffect
  <2>7. lastRow' \in 0..MaxRow
    <3>1. lastRow' = n /\ lastRow \in 0..MaxRow
      BY <2>3 DEF ScanEffect, TypeOK
    <3> QED BY <3>1, Constants
  <2>8. req' \in [Threads -> Request] /\ userRoot' \in [Users -> Roots]
    BY <1>9, <2>1, Constants DEF CommitScan, Finish, TypeOK
  <2> QED BY <1>9, <2>6, <2>7, <2>8 DEF CommitScan, TypeOK, env
<1>10. CASE LeaveScan(t)
  BY <1>10, Constants DEF LeaveScan, Finish, TypeOK, db, env
<1> QED BY <1>2, <1>3, <1>4, <1>5, <1>6, <1>7, <1>8, <1>9, <1>10 DEF RequestStep

LEMMA JobStepType ==
    ASSUME TypeOK, NEW s \in Slots, JobStep(s)
    PROVE  TypeOK'
<1> DEFINE j == job[s]
<1>1. j \in Job
  BY DEF TypeOK
<1>2. CASE StartJob(s)
  <2>1. j \in Pending
    BY <1>1, <1>2, PendingLabel DEF StartJob
  <2>2. j.task \in Task /\ j.task.user \in Users
    BY <2>1, TaskLabel DEF Pending
  <2>3. JobTargets(j.task) \in SUBSET RowIds
    BY <2>2, TaskLabel DEF JobTargets, RowsOf
  <2>4. \A i \in JobTargets(j.task) : repo[i] # NoRow
    BY <1>2, <2>2, TaskLabel DEF StartJob, TargetGone, JobTargets, RowsOf
  <2>5. PathsOf(Load(JobTargets(j.task))) \in SUBSET Paths
    BY <2>3, <2>4, LoadType, SnapshotParts
  <2>6. [pc |-> "running", task |-> j.task, root |-> userRoot[j.task.user],
         rows |-> JobTargets(j.task), todo |-> PathsOf(Load(JobTargets(j.task)))] \in Running
    BY <2>2, <2>3, <2>5 DEF Running, TypeOK
  <2> QED BY <1>2, <2>6 DEF StartJob, Job, TypeOK, db, env
<1>3. CASE AbandonJob(s)
  BY <1>3, Constants DEF AbandonJob, EndJob, TypeOK, db, env
<1>4. CASE CommitJob(s)
  <2>1. j \in Running
    BY <1>1, <1>4, RunningLabel DEF CommitJob
  <2>2. j.rows \in SUBSET RowIds /\ j.task.user \in Users
    BY <2>1, TaskLabel DEF Running
  <2>3. repo' \in [RowIds -> Row \cup {NoRow}]
    BY <1>4, <2>2, TablesType DEF CommitJob
  <2> QED BY <1>4, <2>2, <2>3, Constants DEF CommitJob, EndJob, UserStatus, TypeOK, env
<1>5. CASE RefusedJob(s)
  BY <1>5, Constants DEF RefusedJob, EndJob, TypeOK, db, env
<1>6. ASSUME NEW p \in Paths, RemoveTree(s, p) PROVE TypeOK'
  <2>1. j \in Running
    BY <1>1, <1>6, RunningLabel DEF RemoveTree
  <2>2. [j EXCEPT !.todo = @ \ {p}] \in Running
    BY <2>1 DEF Running
  <2> QED BY <1>6, <2>2 DEF RemoveTree, Job, TypeOK, db, env
<1> QED BY <1>2, <1>3, <1>4, <1>5, <1>6 DEF JobStep

LEMMA FaultType ==
    ASSUME TypeOK, Fault
    PROVE  TypeOK'
<1>1. ASSUME NEW t \in Threads, NEW p \in Paths, SkipUnreadable(t, p) PROVE TypeOK'
  <2>1. req[t] \in Scan
    BY <1>1, RequestOfLabel DEF SkipUnreadable, TypeOK
  <2>2. [req[t] EXCEPT !.todo = @ \ {p}] \in Scan
    BY <2>1 DEF Scan
  <2>3. req' \in [Threads -> Request]
    BY <1>1, <2>2 DEF SkipUnreadable, Request, TypeOK
  <2> QED BY <1>1, <2>3, Constants DEF SkipUnreadable, TypeOK, db
<1>2. ASSUME NEW s \in Slots, JobCommitFails(s) PROVE TypeOK'
  BY <1>2, Constants DEF JobCommitFails, EndJob, TypeOK, db
<1>3. ASSUME NEW s \in Slots, NEW p \in Paths, RemoveTreeFails(s, p) PROVE TypeOK'
  <2>1. job[s] \in Running
    BY <1>3, RunningLabel DEF RemoveTreeFails, TypeOK
  <2>2. [job[s] EXCEPT !.todo = @ \ {p}] \in Running
    BY <2>1 DEF Running
  <2> QED BY <1>3, <2>2, Constants DEF RemoveTreeFails, Job, TypeOK, db
<1> QED BY <1>1, <1>2, <1>3 DEF Fault

LEMMA TypeStep == TypeOK /\ [Next]_vars => TypeOK'
<1> SUFFICES ASSUME TypeOK, [Next]_vars PROVE TypeOK'
  OBVIOUS
<1>1. ASSUME NEW u \in Users, AddUser(u) PROVE TypeOK'
  BY <1>1 DEF AddUser, UserStatus, TypeOK, env
<1>2. ASSUME NEW t \in Threads, NewRequest(t) PROVE TypeOK'
  BY <1>2, NewRequestType
<1>3. ASSUME NEW t \in Threads, RequestStep(t) PROVE TypeOK'
  BY <1>3, RequestStepType
<1>4. ASSUME NEW s \in Slots, JobStep(s) PROVE TypeOK'
  BY <1>4, JobStepType
<1>5. ASSUME NEW root \in Roots, NEW p \in Paths, Backup(root, p) PROVE TypeOK'
  BY <1>5 DEF Backup, TypeOK, db, env
<1>6. CASE Fault
  BY <1>6, FaultType
<1>7. CASE Restart
  <2>1. PICK kept \in SUBSET AllRows : repo' = Without(AllRows \ kept)
    BY <1>7 DEF Restart
  <2>2. repo' \in [RowIds -> Row \cup {NoRow}]
    BY <2>1, TablesType DEF AllRows
  <2>3. req' \in [Threads -> Request] /\ job' \in [Slots -> Job]
    BY <1>7, Constants DEF Restart
  <2>4. crashes' \in 0..MaxCrashes
    BY <1>7, Constants DEF Restart, TypeOK
  <2> QED BY <1>7, <2>2, <2>3, <2>4 DEF Restart, TypeOK
<1>8. CASE UNCHANGED vars
  BY <1>8 DEF vars, TypeOK
<1> QED BY <1>1, <1>2, <1>3, <1>4, <1>5, <1>6, <1>7, <1>8 DEF Next

\* Every variable keeps the type of its column, table or object, in every
\* interleaving of requests, jobs, failures and restarts.
THEOREM TypeInvariant == Spec => []TypeOK
<1>1. Init => TypeOK
  BY Constants DEF Init, TypeOK, UserStatus
<1> QED BY <1>1, TypeStep, PTL DEF Spec

-----------------------------------------------------------------------------
(***************************************************************************)
(* What no step undoes: the audit log and the keys given out only grow,    *)
(* and a record that is still there has the owner and the path it had.     *)
(***************************************************************************)
Persistent ==
    /\ lastRow <= lastRow'
    /\ audit \subseteq audit'
    /\ \A i \in RowIds :
         repo'[i] # NoRow => IF repo[i] # NoRow
                             THEN repo'[i].owner = repo[i].owner /\ repo'[i].path = repo[i].path
                             ELSE lastRow < i /\ i <= lastRow'

LEMMA RowOfUpdate ==
    ASSUME TypeOK, NEW rows \in SUBSET RowIds, NEW i \in RowIds
    PROVE  /\ Without(rows)[i] # NoRow => Without(rows)[i] = repo[i]
           /\ repo[i] # NoRow /\ i \in rows =>
                /\ Marked(rows)[i].owner = repo[i].owner
                /\ Marked(rows)[i].path = repo[i].path
           /\ i \notin rows => Marked(rows)[i] = repo[i]
<1>1. Without(rows)[i] # NoRow => Without(rows)[i] = repo[i]
  BY DEF Without
<1>2. ASSUME repo[i] # NoRow, i \in rows
      PROVE  Marked(rows)[i].owner = repo[i].owner /\ Marked(rows)[i].path = repo[i].path
  <2>1. repo[i] \in Row
    BY <1>2, RowFields
  <2>2. Marked(rows)[i] = [repo[i] EXCEPT !.status = "deleting"]
    BY <1>2 DEF Marked
  <2> QED BY <2>1, <2>2 DEF Row
<1>3. i \notin rows => Marked(rows)[i] = repo[i]
  BY DEF Marked
<1> QED BY <1>1, <1>2, <1>3

LEMMA UnchangedTables ==
    ASSUME TypeOK, UNCHANGED <<repo, lastRow, audit>>
    PROVE  Persistent
BY Constants DEF Persistent, TypeOK

\* Records are only removed.
LEMMA RemovedRows ==
    ASSUME TypeOK, UNCHANGED <<lastRow, audit>>, NEW rows \in SUBSET RowIds, repo' = Without(rows)
    PROVE  Persistent
<1>1. lastRow <= lastRow'
  BY Constants DEF TypeOK
<1> QED BY <1>1, RowOfUpdate DEF Persistent

\* Records are only marked, and the log grows.
LEMMA MarkedRows ==
    ASSUME TypeOK, UNCHANGED lastRow, audit \subseteq audit',
           NEW rows \in SUBSET RowIds, \A i \in rows : repo[i] # NoRow, repo' = Marked(rows)
    PROVE  Persistent
<1>1. lastRow <= lastRow'
  BY Constants DEF TypeOK
<1>2. ASSUME NEW i \in RowIds, repo'[i] # NoRow
      PROVE  repo[i] # NoRow /\ repo'[i].owner = repo[i].owner /\ repo'[i].path = repo[i].path
  BY <1>2, RowOfUpdate
<1> QED BY <1>1, <1>2 DEF Persistent

LEMMA ScannedRows ==
    ASSUME TypeOK, RowsNumbered, NEW t \in Threads, CommitScan(t)
    PROVE  Persistent
<1>1. PICK n \in lastRow..MaxRow, gone \in SUBSET RowIds :
        \E ids \in [(lastRow + 1)..n -> Paths] : ScanEffect(n, gone, ids, req[t].user)
  BY ScanCommitted
<1>2. PICK ids \in [(lastRow + 1)..n -> Paths] : ScanEffect(n, gone, ids, req[t].user)
  BY <1>1
<1>3. lastRow \in Nat /\ n \in Nat /\ lastRow <= n
  <2>1. lastRow \in 0..MaxRow
    BY DEF TypeOK
  <2> QED BY <2>1, Constants
<1>4. lastRow' = n /\ audit' = audit
  BY <1>2 DEF ScanEffect, CommitScan
<1>5. ASSUME NEW i \in RowIds, i \in (lastRow + 1)..n
      PROVE  repo[i] = NoRow /\ lastRow < i /\ i <= lastRow'
  BY <1>3, <1>4, <1>5 DEF RowsNumbered, RowIds
<1>6. ASSUME NEW i \in RowIds, i \notin (lastRow + 1)..n, repo'[i] # NoRow
      PROVE  repo'[i] = repo[i]
  <2>1. repo'[i] = Without(gone)[i]
    BY <1>2, <1>6 DEF ScanEffect
  <2> QED BY <1>6, <2>1 DEF Without
<1> QED BY <1>3, <1>4, <1>5, <1>6 DEF Persistent

\* Restart removes records, whichever duplicates it keeps.
LEMMA RestartedRows ==
    ASSUME TypeOK, Restart
    PROVE  Persistent
<1>1. PICK kept \in SUBSET AllRows : repo' = Without(AllRows \ kept)
  BY DEF Restart
<1>2. (AllRows \ kept) \in SUBSET RowIds
  BY DEF AllRows
<1> QED BY <1>1, <1>2, RemovedRows DEF Restart

LEMMA PersistentStep ==
    ASSUME TypeOK, RowsNumbered, [Next]_vars
    PROVE  Persistent
<1>1. ASSUME NEW t \in Threads, RequestStep(t) PROVE Persistent
  <2>1. CASE CommitDeleteRepo(t)
    <3>1. req[t] \in Form
      BY <2>1, RequestOfLabel DEF CommitDeleteRepo, TypeOK
    <3> QED BY <2>1, <3>1, MarkedRows DEF CommitDeleteRepo, Updatable, Form
  <2>2. CASE CommitDeleteUserData(t)
    <3>1. req[t] \in Form
      BY <2>2, RequestOfLabel DEF CommitDeleteUserData, TypeOK
    <3> QED BY <2>2, <3>1, MarkedRows DEF CommitDeleteUserData, Updatable, Form
  <2>3. CASE CommitDeleteUser(t)
    <3>1. req[t] \in Form
      BY <2>3, RequestOfLabel DEF CommitDeleteUser, TypeOK
    <3>2. Ids(req[t].seen) \in SUBSET RowIds
      BY <3>1, SnapshotParts DEF Form
    <3> QED BY <2>3, <3>2, RemovedRows DEF CommitDeleteUser
  <2>4. CASE CommitScan(t)
    BY <2>4, ScannedRows
  <2>5. CASE CommitSetStatus(t) \/ AbortCommit(t) \/ Publish(t) \/ LeaveScan(t)
    BY <2>5, UnchangedTables DEF CommitSetStatus, AbortCommit, Publish, LeaveScan, db
  <2>6. ASSUME NEW p \in Paths, VisitPath(t, p) PROVE Persistent
    BY <2>6, UnchangedTables DEF VisitPath, db
  <2> QED BY <1>1, <2>1, <2>2, <2>3, <2>4, <2>5, <2>6 DEF RequestStep
<1>2. ASSUME NEW s \in Slots, JobStep(s) PROVE Persistent
  <2>1. CASE CommitJob(s)
    <3>1. job[s] \in Running
      BY <2>1, RunningLabel DEF CommitJob, TypeOK
    <3> QED BY <2>1, <3>1, RemovedRows DEF CommitJob, Running
  <2>2. CASE StartJob(s) \/ AbandonJob(s) \/ RefusedJob(s)
    BY <2>2, UnchangedTables DEF StartJob, AbandonJob, RefusedJob, db
  <2>3. ASSUME NEW p \in Paths, RemoveTree(s, p) PROVE Persistent
    BY <2>3, UnchangedTables DEF RemoveTree, db
  <2> QED BY <1>2, <2>1, <2>2, <2>3 DEF JobStep
<1>3. ASSUME NEW t \in Threads, NewRequest(t) PROVE Persistent
  BY <1>3, UnchangedTables DEF NewRequest, BeginDeleteRepo, BeginDeleteUser, BeginRefresh,
                               BeginSetStatus, BeginSetRoot, Begin, db
<1>4. CASE Fault
  BY <1>4, UnchangedTables DEF Fault, SkipUnreadable, JobCommitFails, RemoveTreeFails, db
<1>5. CASE Restart
  BY <1>5, RestartedRows
<1>6. ASSUME NEW u \in Users, AddUser(u) PROVE Persistent
  BY <1>6, UnchangedTables DEF AddUser
<1>7. ASSUME NEW root \in Roots, NEW p \in Paths, Backup(root, p) PROVE Persistent
  BY <1>7, UnchangedTables DEF Backup, db
<1>8. CASE UNCHANGED vars
  BY <1>8, UnchangedTables DEF vars
<1> QED BY <1>1, <1>2, <1>3, <1>4, <1>5, <1>6, <1>7, <1>8 DEF Next

-----------------------------------------------------------------------------
(***************************************************************************)
(* KeysAreLogged is inductive: what was logged stays logged, and what a    *)
(* step writes down comes from the records and from the log.               *)
(***************************************************************************)
RequestsLogged == \A t \in Threads : RequestLogged(req[t])
JobsLogged     == \A s \in Slots : JobLogged(job[s])

\* The hypotheses of every step.
Before == TypeOK /\ KeysAreLogged /\ TypeOK' /\ Persistent

LEMMA StableRecord ==
    ASSUME Before, NEW i \in RowIds, NEW u, NEW p, IsRecord(i, u, p)
    PROVE  IsRecord(i, u, p)'
<1>1. lastRow \in Nat /\ lastRow' \in Nat /\ lastRow <= lastRow' /\ i \in Nat
  BY Constants DEF Before, TypeOK, Persistent, RowIds
<1>2. i <= lastRow'
  BY <1>1 DEF IsRecord
<1>3. ASSUME repo'[i] # NoRow
      PROVE  repo'[i].owner = u /\ repo'[i].path = p
  BY <1>1, <1>3 DEF Before, Persistent, IsRecord
<1> QED BY <1>2, <1>3 DEF IsRecord

LEMMA StableTask ==
    ASSUME Before, NEW k \in Task, TaskLogged(k)
    PROVE  TaskLogged(k)'
<1>1. CASE k.kind = "user"
  BY <1>1 DEF TaskLogged, UserEvent, Before, Persistent
<1>2. CASE k.kind # "user"
  <2>1. PICK p \in Paths : IsRecord(k.row, k.user, p) /\ RepoEvent(k.user, p) \in audit
    BY <1>2 DEF TaskLogged
  <2>2. k.row \in RowIds
    BY <1>2, TaskLabel
  <2>3. IsRecord(k.row, k.user, p)'
    BY <2>1, <2>2, StableRecord
  <2>4. RepoEvent(k.user, p) \in audit'
    BY <2>1 DEF Before, Persistent
  <2> QED BY <1>2, <2>3, <2>4 DEF TaskLogged, RepoEvent
<1> QED BY <1>1, <1>2

LEMMA StableRequest ==
    ASSUME Before, NEW r \in Request, RequestLogged(r)
    PROVE  RequestLogged(r)'
<1>1. ASSUME r.op = "deleteRepo", NEW x \in r.seen
      PROVE  IsRecord(x[1], r.user, x[2])'
  <2>1. r.seen \in Snapshot
    BY <1>1, RequestOfLabel DEF Form
  <2>2. x[1] \in RowIds
    BY <1>1, <2>1 DEF Snapshot
  <2> QED BY <1>1, <2>2, StableRecord DEF RequestLogged
<1>2. ASSUME r.op = "deleteUserData" PROVE r.changed \/ UserEvent(r.user) \in audit'
  BY <1>2 DEF RequestLogged, Before, Persistent
<1>3. ASSUME r.op = "publish" PROVE TaskLogged(r.task)'
  BY <1>3, RequestOfLabel, StableTask DEF RequestLogged, Callback
<1> QED BY <1>1, <1>2, <1>3 DEF RequestLogged, UserEvent

LEMMA StableJob ==
    ASSUME Before, NEW j \in Job, JobLogged(j)
    PROVE  JobLogged(j)'
<1>1. ASSUME j.pc = "pending" PROVE TaskLogged(j.task)'
  BY <1>1, PendingLabel, StableTask DEF JobLogged, Pending
<1>2. ASSUME j.pc = "running", NEW p \in j.todo PROVE Condemned(j.task.user, p)'
  BY <1>2 DEF JobLogged, Condemned, RepoEvent, UserEvent, Before, Persistent
<1> QED BY <1>1, <1>2 DEF JobLogged

\* What a step has to show of the one request and the one job it changes.
LEMMA OtherRequests ==
    ASSUME Before, \A t \in Threads : req'[t] = req[t] \/ RequestLogged(req[t])'
    PROVE  RequestsLogged'
<1> SUFFICES ASSUME NEW t \in Threads, req'[t] = req[t] PROVE RequestLogged(req[t])'
  BY DEF RequestsLogged
<1>1. req[t] \in Request /\ RequestLogged(req[t])
  BY DEF Before, TypeOK, KeysAreLogged
<1>2. \A r \in Request : RequestLogged(r) => RequestLogged(r)'
  BY StableRequest
<1> QED BY <1>1, <1>2

LEMMA OtherJobs ==
    ASSUME Before, \A s \in Slots : job'[s] = job[s] \/ JobLogged(job[s])'
    PROVE  JobsLogged'
<1> SUFFICES ASSUME NEW s \in Slots, job'[s] = job[s] PROVE JobLogged(job[s])'
  BY DEF JobsLogged
<1>1. job[s] \in Job /\ JobLogged(job[s])
  BY DEF Before, TypeOK, KeysAreLogged
<1>2. \A j \in Job : JobLogged(j) => JobLogged(j)'
  BY StableJob
<1> QED BY <1>1, <1>2

LEMMA StableTables ==
    ASSUME Before, \A u \in Users : userStatus'[u] = "deleting" =>
                     userStatus[u] = "deleting" \/ UserEvent(u) \in audit'
    PROVE  RowsNumbered' /\ DeletingIsLogged'
<1>1. ASSUME NEW i \in RowIds, repo'[i] # NoRow PROVE i <= lastRow'
  <2>1. lastRow \in Nat /\ lastRow' \in Nat /\ lastRow <= lastRow' /\ i \in Nat
    BY Constants DEF Before, TypeOK, Persistent, RowIds
  <2>2. repo[i] # NoRow => i <= lastRow
    BY DEF Before, KeysAreLogged, RowsNumbered
  <2>3. repo[i] = NoRow => i <= lastRow'
    BY <1>1 DEF Before, Persistent
  <2> QED BY <2>1, <2>2, <2>3
<1>2. ASSUME NEW u \in Users, userStatus'[u] = "deleting" PROVE UserEvent(u) \in audit'
  BY <1>2 DEF Before, KeysAreLogged, DeletingIsLogged, Persistent
<1> QED BY <1>1, <1>2 DEF RowsNumbered, DeletingIsLogged, UserEvent

\* A step that changes neither a job nor the status of a user.
LEMMA OneRequest ==
    ASSUME Before, NEW t \in Threads, \A x \in Threads \ {t} : req'[x] = req[x],
           RequestLogged(req[t])', UNCHANGED <<userStatus, job>>
    PROVE  KeysAreLogged'
<1>1. RowsNumbered' /\ DeletingIsLogged'
  BY StableTables
<1>2. RequestsLogged'
  BY OtherRequests
<1>3. JobsLogged'
  BY OtherJobs
<1> QED BY <1>1, <1>2, <1>3 DEF KeysAreLogged, RequestsLogged, JobsLogged

\* A step that changes neither a request nor the status of a user.
LEMMA OneJob ==
    ASSUME Before, NEW s \in Slots, \A x \in Slots \ {s} : job'[x] = job[x],
           JobLogged(job[s])', UNCHANGED <<userStatus, req>>
    PROVE  KeysAreLogged'
<1>1. RowsNumbered' /\ DeletingIsLogged'
  BY StableTables
<1>2. RequestsLogged'
  BY OtherRequests
<1>3. JobsLogged'
  BY OtherJobs
<1> QED BY <1>1, <1>2, <1>3 DEF KeysAreLogged, RequestsLogged, JobsLogged

LEMMA BeginLogged ==
    ASSUME Before, NEW t \in Threads, NEW r, Begin(t, r), RequestLogged(r)
    PROVE  KeysAreLogged'
<1>1. /\ req'[t] = r /\ \A x \in Threads \ {t} : req'[x] = req[x]
      /\ UNCHANGED <<userStatus, job, repo, lastRow, audit>>
  BY DEF Begin, Before, TypeOK, db
<1>2. RequestLogged(req[t])'
  BY <1>1 DEF RequestLogged, TaskLogged, IsRecord, UserEvent, RepoEvent
<1> QED BY <1>1, <1>2, OneRequest

LEMMA NewRequestLogged ==
    ASSUME Before, NEW t \in Threads, NewRequest(t)
    PROVE  KeysAreLogged'
<1>1. ASSUME NEW i \in RowIds, BeginDeleteRepo(t, i) PROVE KeysAreLogged'
  <2> DEFINE r == [op |-> "deleteRepo", user |-> repo[i].owner, seen |-> Load({i}),
                   fresh |-> {k \in {i} : repo[k].status # "deleting"}, changed |-> FALSE]
  <2>1. i <= lastRow
    BY <1>1 DEF BeginDeleteRepo, Before, KeysAreLogged, RowsNumbered
  <2>2. \A x \in r.seen : IsRecord(x[1], r.user, x[2])
    BY <2>1 DEF Load, IsRecord
  <2>3. RequestLogged(r)
    BY <2>2 DEF RequestLogged
  <2> QED BY <1>1, <2>3, BeginLogged DEF BeginDeleteRepo
<1>2. ASSUME NEW u \in Users, NEW b \in BOOLEAN, BeginDeleteUser(t, u, b) PROVE KeysAreLogged'
  <2> DEFINE r == [op |-> IF b THEN "deleteUserData" ELSE "deleteUser", user |-> u,
                   seen |-> Load(RowsOf(u)),
                   fresh |-> {i \in RowsOf(u) : b /\ repo[i].status # "deleting"},
                   changed |-> b /\ userStatus[u] # "deleting"]
  <2>1. b /\ ~r.changed => UserEvent(u) \in audit
    BY DEF Before, KeysAreLogged, DeletingIsLogged
  <2>2. RequestLogged(r)
    BY <2>1 DEF RequestLogged
  <2> QED BY <1>2, <2>2, BeginLogged DEF BeginDeleteUser
<1>3. ASSUME NEW u \in Users, NEW b \in BOOLEAN, BeginRefresh(t, u, b) PROVE KeysAreLogged'
  <2>1. RequestLogged(Walk(u, userRoot[u], "refresh", b, Paths))
    BY DEF RequestLogged, Walk
  <2> QED BY <1>3, <2>1, BeginLogged DEF BeginRefresh
<1>4. ASSUME NEW u \in Users, NEW status \in {"", "disabled"}, BeginSetStatus(t, u, status)
      PROVE  KeysAreLogged'
  <2>1. RequestLogged([op |-> "setStatus", user |-> u, status |-> status])
    BY DEF RequestLogged
  <2> QED BY <1>4, <2>1, BeginLogged DEF BeginSetStatus
<1>5. ASSUME NEW u \in Users, NEW root \in Roots, NEW valid \in BOOLEAN,
             BeginSetRoot(t, u, root, valid)
      PROVE  KeysAreLogged'
  <2>1. RequestLogged(Walk(u, root, "setRoot", valid, IF valid THEN Paths ELSE {}))
    BY DEF RequestLogged, Walk
  <2> QED BY <1>5, <2>1, BeginLogged DEF BeginSetRoot
<1> QED BY <1>1, <1>2, <1>3, <1>4, <1>5 DEF NewRequest

LEMMA IdleLogged ==
    ASSUME NEW r, r.op \in {"idle", "refresh", "setRoot", "setStatus", "deleteUser"}
    PROVE  RequestLogged(r)
BY DEF RequestLogged

LEMMA RequestStepLogged ==
    ASSUME Before, NEW t \in Threads, RequestStep(t)
    PROVE  KeysAreLogged'
<1> DEFINE r == req[t]
<1>0. r \in Request /\ RequestLogged(r) /\ req'[t] \in Request
  BY DEF Before, TypeOK, KeysAreLogged
<1>1. ASSUME Finish(t)
      PROVE  RequestLogged(req[t])' /\ \A x \in Threads \ {t} : req'[x] = req[x]
  BY <1>1 DEF Finish, Idle, RequestLogged, Before, TypeOK
<1>2. CASE CommitDeleteRepo(t)
  <2>1. r \in Form
    BY <1>0, <1>2, RequestOfLabel DEF CommitDeleteRepo
  <2>2. PICK i \in Ids(r.seen) : FinishWith(t, [kind |-> "repo", user |-> r.user, row |-> i])
    BY <1>2 DEF CommitDeleteRepo
  <2>3. PICK x \in r.seen : x[1] = i
    BY <2>2 DEF Ids
  <2>4. PICK u \in Users : u = r.user
    BY <2>1 DEF Form
  <2>5. x[1] \in RowIds /\ x[2] \in Paths
    BY <2>1 DEF Form, Snapshot
  <2>6. IsRecord(i, u, x[2])
    BY <1>0, <1>2, <2>3, <2>4 DEF CommitDeleteRepo, RequestLogged
  <2>7. IsRecord(i, u, x[2])'
    BY <2>3, <2>5, <2>6, StableRecord
  <2>8. RepoEvent(u, x[2]) \in audit'
    BY <1>2, <2>4 DEF CommitDeleteRepo, PathsOf
  <2>9. /\ req'[t] = [op |-> "publish", task |-> [kind |-> "repo", user |-> u, row |-> i]]
        /\ \A y \in Threads \ {t} : req'[y] = req[y]
    BY <2>2, <2>4 DEF FinishWith, Before, TypeOK
  <2>10. TaskLogged(req[t].task)'
    BY <2>5, <2>7, <2>8, <2>9 DEF TaskLogged, RepoEvent
  <2>11. RequestLogged(req[t])'
    BY <2>9, <2>10 DEF RequestLogged
  <2> QED BY <1>2, <2>9, <2>11, OneRequest DEF CommitDeleteRepo
<1>3. CASE CommitDeleteUserData(t)
  <2>1. PICK v \in Users : v = r.user
    BY <1>0, <1>3, RequestOfLabel DEF CommitDeleteUserData, Form
  <2>2. UserEvent(v) \in audit'
    BY <1>0, <1>3, <2>1 DEF CommitDeleteUserData, RequestLogged
  <2>3. \A u \in Users : userStatus'[u] = "deleting" =>
           userStatus[u] = "deleting" \/ UserEvent(u) \in audit'
    BY <1>3, <2>1, <2>2 DEF CommitDeleteUserData, Before, TypeOK
  <2>4. /\ req'[t] = [op |-> "publish", task |-> [kind |-> "user", user |-> v]]
        /\ \A y \in Threads \ {t} : req'[y] = req[y]
    BY <1>3, <2>1 DEF CommitDeleteUserData, FinishWith, Before, TypeOK
  <2>5. RequestLogged(req[t])'
    BY <2>2, <2>4 DEF RequestLogged, TaskLogged, UserEvent
  <2>6. RowsNumbered' /\ DeletingIsLogged'
    BY <2>3, StableTables
  <2>7. RequestsLogged' /\ JobsLogged'
    BY <1>3, <2>4, <2>5, OtherRequests, OtherJobs DEF CommitDeleteUserData
  <2> QED BY <2>6, <2>7 DEF KeysAreLogged, RequestsLogged, JobsLogged
<1>4. CASE CommitDeleteUser(t) \/ CommitSetStatus(t)
  <2>1. r \in Form \/ r \in Edit
    BY <1>0, <1>4, RequestOfLabel DEF CommitDeleteUser, CommitSetStatus
  <2>2. ASSUME NEW u \in Users, userStatus'[u] = "deleting" PROVE userStatus[u] = "deleting"
    <3>1. CASE CommitDeleteUser(t)
      BY <3>1, <2>2 DEF CommitDeleteUser, Before, TypeOK
    <3>2. CASE CommitSetStatus(t)
      <4>1. r \in Edit
        BY <1>0, <3>2, RequestOfLabel DEF CommitSetStatus
      <4>2. r.status # "deleting"
        BY <4>1 DEF Edit
      <4> QED BY <3>2, <4>2, <2>2 DEF CommitSetStatus, Before, TypeOK
    <3> QED BY <1>4, <3>1, <3>2
  <2>3. Finish(t) /\ UNCHANGED job
    BY <1>4 DEF CommitDeleteUser, CommitSetStatus
  <2>4. RowsNumbered' /\ DeletingIsLogged'
    BY <2>2, StableTables
  <2>5. RequestsLogged' /\ JobsLogged'
    BY <1>1, <2>3, OtherRequests, OtherJobs
  <2> QED BY <2>4, <2>5 DEF KeysAreLogged, RequestsLogged, JobsLogged
<1>5. CASE AbortCommit(t) \/ LeaveScan(t) \/ CommitScan(t)
  BY <1>1, <1>5, OneRequest DEF AbortCommit, LeaveScan, CommitScan, db
<1>6. CASE Publish(t)
  <2>1. PICK k \in Task : k = r.task /\ TaskLogged(k)
    BY <1>0, <1>6, RequestOfLabel DEF Publish, RequestLogged, Callback
  <2>2. TaskLogged(k)'
    BY <2>1, StableTask
  <2>3. ASSUME NEW s \in Slots, job'[s] # job[s] PROVE JobLogged(job[s])'
    <3>1. job'[s] = [pc |-> "pending", task |-> k]
      BY <1>6, <2>1, <2>3 DEF Publish, Before, TypeOK
    <3> QED BY <2>2, <3>1 DEF JobLogged
  <2>4. Finish(t) /\ UNCHANGED userStatus
    BY <1>6 DEF Publish, db
  <2>5. RowsNumbered' /\ DeletingIsLogged'
    BY <2>4, StableTables
  <2>6. RequestsLogged' /\ JobsLogged'
    BY <1>1, <2>3, <2>4, OtherRequests, OtherJobs
  <2> QED BY <2>5, <2>6 DEF KeysAreLogged, RequestsLogged, JobsLogged
<1>7. ASSUME NEW p \in Paths, VisitPath(t, p) PROVE KeysAreLogged'
  <2>1. r \in Scan
    BY <1>0, <1>7, RequestOfLabel DEF VisitPath
  <2>2. /\ req'[t].op = r.op
        /\ \A x \in Threads \ {t} : req'[x] = req[x]
    BY <1>7, <2>1 DEF VisitPath, Scan, Before, TypeOK
  <2>3. RequestLogged(req[t])'
    BY <1>7, <2>2 DEF VisitPath, RequestLogged
  <2> QED BY <1>7, <2>2, <2>3, OneRequest DEF VisitPath, db
<1> QED BY <1>2, <1>3, <1>4, <1>5, <1>6, <1>7 DEF RequestStep

\* A job that has less to do is still logged.
LEMMA LessToDo ==
    ASSUME Before, NEW s \in Slots, job[s].pc = "running", UNCHANGED audit,
           NEW p, job' = [job EXCEPT ![s].todo = @ \ {p}]
    PROVE  JobLogged(job[s])' /\ \A x \in Slots \ {s} : job'[x] = job[x]
<1>1. job[s] \in Running /\ JobLogged(job[s])
  BY RunningLabel DEF Before, TypeOK, KeysAreLogged
<1>2. job'[s] = [job[s] EXCEPT !.todo = @ \ {p}] /\ \A x \in Slots \ {s} : job'[x] = job[x]
  BY DEF Before, TypeOK
<1>3. job'[s].pc = "running" /\ job'[s].task = job[s].task /\ job'[s].todo \subseteq job[s].todo
  BY <1>1, <1>2 DEF Running
<1>4. JobLogged(job[s])'
  BY <1>1, <1>3 DEF JobLogged, Condemned, RepoEvent, UserEvent
<1> QED BY <1>2, <1>4

LEMMA JobStepLogged ==
    ASSUME Before, NEW s \in Slots, JobStep(s)
    PROVE  KeysAreLogged'
<1> DEFINE j == job[s]
<1>0. j \in Job /\ JobLogged(j)
  BY DEF Before, TypeOK, KeysAreLogged
<1>1. ASSUME EndJob(s)
      PROVE  JobLogged(job[s])' /\ \A x \in Slots \ {s} : job'[x] = job[x]
  BY <1>1 DEF EndJob, Free, JobLogged, Before, TypeOK
<1>2. CASE StartJob(s)
  <2>1. PICK k \in Task : k = j.task /\ TaskLogged(k)
    BY <1>0, <1>2, PendingLabel DEF StartJob, JobLogged, Pending
  <2>2. /\ job'[s] = [pc |-> "running", task |-> k, root |-> userRoot[k.user],
                      rows |-> JobTargets(k), todo |-> PathsOf(Load(JobTargets(k)))]
        /\ \A x \in Slots \ {s} : job'[x] = job[x]
        /\ UNCHANGED <<userStatus, repo, lastRow, audit, req>>
    BY <1>2, <2>1 DEF StartJob, Before, TypeOK, db
  <2>3. ASSUME NEW p \in PathsOf(Load(JobTargets(k))) PROVE Condemned(k.user, p)
    <3>1. CASE k.kind = "user"
      BY <2>1, <3>1 DEF TaskLogged, Condemned
    <3>2. CASE k.kind # "user"
      <4>1. k.kind = "repo" /\ repo[k.row] # NoRow
        BY <1>2, <2>1, <3>2, TaskLabel DEF StartJob, TargetGone
      <4>2. PICK q \in Paths : IsRecord(k.row, k.user, q) /\ RepoEvent(k.user, q) \in audit
        BY <2>1, <3>2 DEF TaskLogged
      <4>3. p = repo[k.row].path
        BY <4>1 DEF PathsOf, Load, JobTargets
      <4> QED BY <4>1, <4>2, <4>3 DEF IsRecord, Condemned
    <3> QED BY <3>1, <3>2
  <2>4. JobLogged(job[s])'
    BY <2>2, <2>3 DEF JobLogged, Condemned, RepoEvent, UserEvent
  <2> QED BY <2>2, <2>4, OneJob
<1>3. CASE CommitJob(s)
  <2>1. j \in Running
    BY <1>0, <1>3, RunningLabel DEF CommitJob
  <2>2. \A u \in Users : userStatus'[u] = "deleting" => userStatus[u] = "deleting"
    BY <1>3 DEF CommitJob, Before, TypeOK
  <2>3. EndJob(s) /\ UNCHANGED req
    BY <1>3 DEF CommitJob
  <2>4. RowsNumbered' /\ DeletingIsLogged'
    BY <2>2, StableTables
  <2>5. RequestsLogged' /\ JobsLogged'
    BY <1>1, <2>3, OtherRequests, OtherJobs
  <2> QED BY <2>4, <2>5 DEF KeysAreLogged, RequestsLogged, JobsLogged
<1>4. CASE AbandonJob(s) \/ RefusedJob(s)
  BY <1>1, <1>4, OneJob DEF AbandonJob, RefusedJob, db
<1>5. ASSUME NEW p \in Paths, RemoveTree(s, p) PROVE KeysAreLogged'
  BY <1>5, LessToDo, OneJob DEF RemoveTree, db
<1> QED BY <1>2, <1>3, <1>4, <1>5 DEF JobStep

LEMMA FaultLogged ==
    ASSUME Before, Fault
    PROVE  KeysAreLogged'
<1>1. ASSUME NEW t \in Threads, NEW p \in Paths, SkipUnreadable(t, p) PROVE KeysAreLogged'
  <2>1. req[t] \in Scan
    BY <1>1, RequestOfLabel DEF SkipUnreadable, Before, TypeOK
  <2>2. /\ req'[t].op \in {"refresh", "setRoot"}
        /\ \A x \in Threads \ {t} : req'[x] = req[x]
    BY <1>1, <2>1 DEF SkipUnreadable, Scan, Before, TypeOK
  <2>3. RequestLogged(req[t])'
    BY <2>2 DEF RequestLogged
  <2> QED BY <1>1, <2>2, <2>3, OneRequest DEF SkipUnreadable, db
<1>2. ASSUME NEW s \in Slots, JobCommitFails(s) PROVE KeysAreLogged'
  <2>1. JobLogged(job[s])' /\ \A x \in Slots \ {s} : job'[x] = job[x]
    BY <1>2 DEF JobCommitFails, EndJob, Free, JobLogged, Before, TypeOK
  <2> QED BY <1>2, <2>1, OneJob DEF JobCommitFails, db
<1>3. ASSUME NEW s \in Slots, NEW p \in Paths, RemoveTreeFails(s, p) PROVE KeysAreLogged'
  BY <1>3, LessToDo, OneJob DEF RemoveTreeFails, db
<1> QED BY <1>1, <1>2, <1>3 DEF Fault

\* Steps of others, which touch no request and no job or reset them all.
LEMMA EnvironmentLogged ==
    ASSUME Before,
           \A u \in Users : userStatus'[u] = "deleting" => userStatus[u] = "deleting",
           \A t \in Threads : req'[t] \in {req[t], Idle},
           \A s \in Slots : job'[s] \in {job[s], Free}
    PROVE  KeysAreLogged'
<1>1. RowsNumbered' /\ DeletingIsLogged'
  BY StableTables
<1>2. ASSUME NEW t \in Threads, req'[t] = Idle PROVE RequestLogged(req[t])'
  BY <1>2 DEF Idle, RequestLogged
<1>3. ASSUME NEW s \in Slots, job'[s] = Free PROVE JobLogged(job[s])'
  BY <1>3 DEF Free, JobLogged
<1>4. RequestsLogged' /\ JobsLogged'
  BY <1>2, <1>3, OtherRequests, OtherJobs
<1> QED BY <1>1, <1>4 DEF KeysAreLogged, RequestsLogged, JobsLogged

LEMMA KeysStep == TypeOK /\ KeysAreLogged /\ [Next]_vars => KeysAreLogged'
<1> SUFFICES ASSUME TypeOK, KeysAreLogged, [Next]_vars PROVE KeysAreLogged'
  OBVIOUS
<1>1. Before
  BY TypeStep, PersistentStep DEF Before, KeysAreLogged
<1>2. ASSUME NEW t \in Threads, NewRequest(t) PROVE KeysAreLogged'
  BY <1>1, <1>2, NewRequestLogged
<1>3. ASSUME NEW t \in Threads, RequestStep(t) PROVE KeysAreLogged'
  BY <1>1, <1>3, RequestStepLogged
<1>4. ASSUME NEW s \in Slots, JobStep(s) PROVE KeysAreLogged'
  BY <1>1, <1>4, JobStepLogged
<1>5. CASE Fault
  BY <1>1, <1>5, FaultLogged
<1>6. CASE Restart
  BY <1>1, <1>6, EnvironmentLogged DEF Restart
<1>7. ASSUME NEW u \in Users, AddUser(u) PROVE KeysAreLogged'
  <2>1. \A v \in Users : userStatus'[v] = "deleting" => userStatus[v] = "deleting"
    BY <1>7 DEF AddUser, TypeOK
  <2> QED BY <1>1, <1>7, <2>1, EnvironmentLogged DEF AddUser
<1>8. ASSUME NEW root \in Roots, NEW p \in Paths, Backup(root, p) PROVE KeysAreLogged'
  BY <1>1, <1>8, EnvironmentLogged DEF Backup, db
<1>9. CASE UNCHANGED vars
  BY <1>1, <1>9, EnvironmentLogged DEF vars
<1> QED BY <1>2, <1>3, <1>4, <1>5, <1>6, <1>7, <1>8, <1>9 DEF Next

\* Whatever refreshes, deletions, failures and restarts happen between a request
\* and its job, the primary key the job was given stands for what was logged.
THEOREM LoggedKeys == Spec => []KeysAreLogged
<1>1. Init => KeysAreLogged
  <2> SUFFICES ASSUME Init PROVE KeysAreLogged
    OBVIOUS
  <2>1. RowsNumbered /\ DeletingIsLogged
    BY DEF Init, RowsNumbered, DeletingIsLogged
  <2>2. \A t \in Threads : RequestLogged(req[t])
    BY DEF Init, Idle, RequestLogged
  <2>3. \A s \in Slots : JobLogged(job[s])
    BY DEF Init, Free, JobLogged
  <2> QED BY <2>1, <2>2, <2>3 DEF KeysAreLogged
<1> QED BY <1>1, KeysStep, TypeInvariant, PTL DEF Spec

LEMMA OnlyJobsRemove ==
    ASSUME TypeOK, [Next]_vars, NEW x \in disk \ disk'
    PROVE  \E s \in Slots, p \in Paths : RemoveTree(s, p) /\ x = <<job[s].root, p>>
<1>1. ASSUME NEW s \in Slots, JobStep(s)
      PROVE  \E p \in Paths : RemoveTree(s, p) /\ x = <<job[s].root, p>>
  <2>1. PICK p \in Paths : RemoveTree(s, p)
    BY <1>1 DEF JobStep, StartJob, AbandonJob, CommitJob, RefusedJob
  <2> QED BY <2>1 DEF RemoveTree
<1>2. ASSUME NEW t \in Threads, NewRequest(t) PROVE FALSE
  BY <1>2 DEF NewRequest, BeginDeleteRepo, BeginDeleteUser, BeginRefresh,
              BeginSetStatus, BeginSetRoot, Begin
<1>3. ASSUME NEW t \in Threads, RequestStep(t) PROVE FALSE
  BY <1>3 DEF RequestStep, CommitDeleteRepo, CommitDeleteUserData, CommitDeleteUser,
              CommitSetStatus, AbortCommit, Publish, VisitPath, CommitScan, LeaveScan
<1>4. ~Fault
  BY DEF Fault, SkipUnreadable, JobCommitFails, RemoveTreeFails
<1>5. ~Restart
  BY DEF Restart
<1>6. ASSUME NEW u \in Users, AddUser(u) PROVE FALSE
  BY <1>6 DEF AddUser
<1>7. ASSUME NEW root \in Roots, NEW p \in Paths, Backup(root, p) PROVE FALSE
  BY <1>7 DEF Backup
<1>8. ~UNCHANGED vars
  BY DEF vars
<1> QED BY <1>1, <1>2, <1>3, <1>4, <1>5, <1>6, <1>7, <1>8 DEF Next

\* Data only leaves the disk where the audit log says that its deletion, or that
\* of its user, was scheduled.
THEOREM ScheduledDeletions == Spec => OnlyScheduledDataIsDeleted
<1> DEFINE Justified ==
        \A x \in disk \ disk' :
          \E s \in Slots : /\ job[s].pc = "running"
                           /\ job[s].root = x[1]
                           /\ Condemned(job[s].task.user, x[2])
<1>1. TypeOK /\ KeysAreLogged /\ [Next]_vars => Justified
  <2> SUFFICES ASSUME TypeOK, KeysAreLogged, [Next]_vars, NEW x \in disk \ disk'
               PROVE  \E s \in Slots : /\ job[s].pc = "running"
                                       /\ job[s].root = x[1]
                                       /\ Condemned(job[s].task.user, x[2])
    OBVIOUS
  <2>1. PICK s \in Slots, p \in Paths : RemoveTree(s, p) /\ x = <<job[s].root, p>>
    BY OnlyJobsRemove
  <2>2. job[s].pc = "running" /\ Condemned(job[s].task.user, p)
    BY <2>1 DEF RemoveTree, KeysAreLogged, JobLogged
  <2> QED BY <2>1, <2>2
<1>2. Justified => [Justified]_vars
  OBVIOUS
<1> QED BY <1>1, TypeInvariant, LoggedKeys, PTL DEF Spec, OnlyScheduledDataIsDeleted

-----------------------------------------------------------------------------
(***************************************************************************)
(* No record outlives its user where the database enforces foreign keys    *)
(***************************************************************************)
\* A step that adds no record keeps every owner, or takes his records with him.
LEMMA OwnersKept ==
    ASSUME TypeOK, TypeOK', Persistent, NoOrphanRepo, lastRow' = lastRow,
           ForeignKeys => \A u \in Users :
             Live(u) => Live(u)' \/ \A i \in RowsOf(u) : repo'[i] = NoRow
    PROVE  NoOrphanRepo'
<1> SUFFICES ASSUME ForeignKeys, NEW i \in RowIds, repo'[i] # NoRow PROVE Live(repo[i].owner)'
  BY DEF NoOrphanRepo, AllRows
<1>1. repo[i] # NoRow /\ repo'[i].owner = repo[i].owner
  BY Constants DEF Persistent, TypeOK, RowIds
<1>2. repo[i].owner \in Users /\ Live(repo[i].owner) /\ i \in RowsOf(repo[i].owner)
  BY <1>1, RowFields DEF NoOrphanRepo, AllRows, RowsOf
<1>3. userStatus'[repo[i].owner] \notin {"new", "gone"}
  BY <1>2 DEF Live
<1> QED BY <1>1, <1>3 DEF Live

LEMMA DeletableRows ==
    ASSUME TypeOK, NEW u \in Users, NEW rows \in SUBSET RowIds, Deletable(u, rows),
           repo' = Without(rows), ForeignKeys
    PROVE  \A i \in RowsOf(u) : repo'[i] = NoRow
BY DEF Deletable, RowsOf, Without

LEMMA OrphanStep == TypeOK /\ KeysAreLogged /\ NoOrphanRepo /\ [Next]_vars => NoOrphanRepo'
<1> SUFFICES ASSUME TypeOK, KeysAreLogged, NoOrphanRepo, [Next]_vars PROVE NoOrphanRepo'
  OBVIOUS
<1>1. TypeOK' /\ Persistent
  BY TypeStep, PersistentStep DEF KeysAreLogged
<1>2. ASSUME UNCHANGED <<userStatus, lastRow>> PROVE NoOrphanRepo'
  BY <1>1, <1>2, OwnersKept DEF Live
<1>3. ASSUME NEW t \in Threads, RequestStep(t) PROVE NoOrphanRepo'
  <2> DEFINE r == req[t]
  <2>1. r \in Request
    BY DEF TypeOK
  <2>2. CASE CommitDeleteUserData(t)
    <3>1. \A u \in Users : Live(u) => Live(u)'
      BY <2>2 DEF CommitDeleteUserData, Live, TypeOK
    <3> QED BY <1>1, <2>2, <3>1, OwnersKept DEF CommitDeleteUserData
  <2>3. CASE CommitDeleteUser(t)
    <3>1. r \in Form
      BY <2>1, <2>3, RequestOfLabel DEF CommitDeleteUser
    <3>2. r.user \in Users /\ Ids(r.seen) \in SUBSET RowIds
      BY <3>1, SnapshotParts DEF Form
    <3>3. ForeignKeys => \A i \in RowsOf(r.user) : repo'[i] = NoRow
      BY <2>3, <3>2, DeletableRows DEF CommitDeleteUser
    <3>4. \A u \in Users : u # r.user /\ Live(u) => Live(u)'
      BY <2>3 DEF CommitDeleteUser, Live, TypeOK
    <3> QED BY <1>1, <2>3, <3>3, <3>4, OwnersKept DEF CommitDeleteUser
  <2>4. CASE CommitSetStatus(t)
    <3>1. r \in Edit
      BY <2>1, <2>4, RequestOfLabel DEF CommitSetStatus
    <3>2. r.status \in {"", "disabled"}
      BY <3>1 DEF Edit
    <3>3. \A u \in Users : Live(u) => Live(u)'
      BY <2>4, <3>2 DEF CommitSetStatus, Live, TypeOK
    <3> QED BY <1>1, <2>4, <3>3, OwnersKept DEF CommitSetStatus
  <2>5. CASE CommitScan(t)
    <3> SUFFICES ASSUME ForeignKeys, NEW i \in RowIds, repo'[i] # NoRow PROVE Live(repo[i].owner)'
      BY DEF NoOrphanRepo, AllRows
    <3> HIDE DEF r
    <3>1. PICK n \in lastRow..MaxRow, gone \in SUBSET RowIds :
            \E ids \in [(lastRow + 1)..n -> Paths] : ScanEffect(n, gone, ids, req[t].user)
      BY <2>5, ScanCommitted
    <3>2. PICK ids \in [(lastRow + 1)..n -> Paths] : ScanEffect(n, gone, ids, req[t].user)
      BY <3>1
    <3>3. userStatus' = userStatus
      BY <2>5 DEF CommitScan
    <3>4. CASE i \in (lastRow + 1)..n
      <4>1. repo'[i].owner = req[t].user
        BY <3>2, <3>4 DEF ScanEffect
      <4>2. Live(req[t].user)
        <5>1. CASE req[t].op = "setRoot"
          BY <2>5, <5>1 DEF CommitScan
        <5>2. req[t].found \ PathsOf(req[t].seen) # {}
          <6>1. PICK m \in HighestKey..MaxRow, kept \in SUBSET req[t].seen :
                  \E f \in Bijection((HighestKey + 1)..m, req[t].found \ PathsOf(req[t].seen)) :
                    lastRow' = m
            BY <2>5 DEF CommitScan
          <6>2. m = n
            BY <3>2, <6>1 DEF ScanEffect
          <6>3. PICK f \in Bijection((lastRow + 1)..n, req[t].found \ PathsOf(req[t].seen)) : TRUE
            BY <6>1, <6>2 DEF HighestKey
          <6>4. f[i] \in req[t].found \ PathsOf(req[t].seen)
            BY <3>4, <6>3 DEF Bijection, Injection
          <6> QED BY <6>4
        <5> QED BY <2>5, <5>2 DEF CommitScan
      <4>3. userStatus'[req[t].user] \notin {"new", "gone"}
        BY <3>3, <4>2 DEF Live
      <4> QED BY <4>1, <4>3 DEF Live
    <3>5. CASE i \notin (lastRow + 1)..n
      <4>1. repo'[i] = repo[i]
        BY <3>2, <3>5 DEF ScanEffect, Without
      <4>2. Live(repo[i].owner)
        BY <4>1 DEF NoOrphanRepo, AllRows
      <4>3. userStatus'[repo[i].owner] \notin {"new", "gone"}
        BY <3>3, <4>2 DEF Live
      <4> QED BY <4>1, <4>3 DEF Live
    <3> QED BY <3>4, <3>5
  <2>6. CASE CommitDeleteRepo(t) \/ AbortCommit(t) \/ Publish(t) \/ LeaveScan(t)
             \/ \E p \in Paths : VisitPath(t, p)
    BY <1>2, <2>6 DEF CommitDeleteRepo, AbortCommit, Publish, LeaveScan, VisitPath, db
  <2> QED BY <1>3, <2>2, <2>3, <2>4, <2>5, <2>6 DEF RequestStep
<1>4. ASSUME NEW s \in Slots, JobStep(s) PROVE NoOrphanRepo'
  <2>1. CASE CommitJob(s)
    <3>1. job[s] \in Running
      BY <2>1, RunningLabel DEF CommitJob, TypeOK
    <3>2. job[s].rows \in SUBSET RowIds /\ job[s].task.user \in Users
      BY <3>1, TaskLabel DEF Running
    <3>3. CASE job[s].task.kind = "user"
      <4>1. ForeignKeys => \A i \in RowsOf(job[s].task.user) : repo'[i] = NoRow
        BY <2>1, <3>2, <3>3, DeletableRows DEF CommitJob
      <4>2. \A u \in Users : u # job[s].task.user /\ Live(u) => Live(u)'
        BY <2>1 DEF CommitJob, Live, TypeOK
      <4> QED BY <1>1, <2>1, <4>1, <4>2, OwnersKept DEF CommitJob
    <3>4. CASE job[s].task.kind # "user"
      BY <1>2, <2>1, <3>4 DEF CommitJob
    <3> QED BY <3>3, <3>4
  <2>2. CASE StartJob(s) \/ AbandonJob(s) \/ RefusedJob(s) \/ \E p \in Paths : RemoveTree(s, p)
    BY <1>2, <2>2 DEF StartJob, AbandonJob, RefusedJob, RemoveTree, db
  <2> QED BY <1>4, <2>1, <2>2 DEF JobStep
<1>5. ASSUME NEW u \in Users, AddUser(u) PROVE NoOrphanRepo'
  <2>1. \A v \in Users : Live(v) => Live(v)'
    BY <1>5 DEF AddUser, Live, TypeOK
  <2> QED BY <1>1, <1>5, <2>1, OwnersKept DEF AddUser
<1>6. ASSUME NEW t \in Threads, NewRequest(t) PROVE NoOrphanRepo'
  BY <1>2, <1>6 DEF NewRequest, BeginDeleteRepo, BeginDeleteUser, BeginRefresh,
                    BeginSetStatus, BeginSetRoot, Begin, db
<1>7. CASE Fault
  BY <1>2, <1>7 DEF Fault, SkipUnreadable, JobCommitFails, RemoveTreeFails, db
<1>8. CASE Restart
  BY <1>2, <1>8 DEF Restart
<1>9. ASSUME NEW root \in Roots, NEW p \in Paths, Backup(root, p) PROVE NoOrphanRepo'
  BY <1>2, <1>9 DEF Backup, db
<1>10. CASE UNCHANGED vars
  BY <1>2, <1>10 DEF vars
<1> QED BY <1>3, <1>4, <1>5, <1>6, <1>7, <1>8, <1>9, <1>10 DEF Next

\* With foreign keys enforced, every record has a user who was not deleted.
THEOREM NoOrphans == Spec => []NoOrphanRepo
<1>1. Init => NoOrphanRepo
  BY DEF Init, NoOrphanRepo, AllRows
<1> QED BY <1>1, OrphanStep, TypeInvariant, LoggedKeys, PTL DEF Spec

-----------------------------------------------------------------------------
(***************************************************************************)
(* What a walk leaves of the records of its user                           *)
(***************************************************************************)
IsScan(r) == r.op \in {"refresh", "setRoot"}

\* A walk has loaded every record of its user that is not younger than itself.
ScansSee ==
    \A t \in Threads :
        IsScan(req[t]) =>
            /\ req[t].since \in 0..lastRow
            /\ \A i \in RowsOf(req[t].user) :
                  i <= req[t].since => <<i, repo[i].path>> \in req[t].seen

SeeingKept(t) ==
    \/ ~IsScan(req'[t])
    \/ /\ IsScan(req[t]) /\ req'[t].user = req[t].user
       /\ req'[t].seen = req[t].seen /\ req'[t].since = req[t].since
    \/ /\ req'[t].seen = Load(RowsOf(req'[t].user)) /\ req'[t].since = lastRow /\ repo' = repo

\* A step that adds no record.
LEMMA SeenKept ==
    ASSUME TypeOK, Persistent, ScansSee, lastRow' = lastRow, \A t \in Threads : SeeingKept(t)
    PROVE  ScansSee'
<1>1. lastRow \in Nat
  BY Constants DEF TypeOK
<1>2. SUFFICES ASSUME NEW t \in Threads, IsScan(req'[t])
               PROVE  /\ req'[t].since \in 0..lastRow
                      /\ \A i \in RowIds :
                            repo'[i] # NoRow /\ repo'[i].owner = req'[t].user /\ i <= req'[t].since
                              => <<i, repo'[i].path>> \in req'[t].seen
  BY DEF ScansSee, IsScan, RowsOf
<1>3. req'[t].since \in 0..lastRow
  BY <1>1, <1>2 DEF SeeingKept, ScansSee
<1>4. ASSUME NEW i \in RowIds, repo'[i] # NoRow, repo'[i].owner = req'[t].user, i <= req'[t].since
      PROVE  <<i, repo'[i].path>> \in req'[t].seen
  <2>1. repo[i] # NoRow /\ repo'[i].owner = repo[i].owner /\ repo'[i].path = repo[i].path
    BY <1>4, Constants DEF Persistent, TypeOK, RowIds
  <2>2. CASE IsScan(req[t]) /\ req'[t].user = req[t].user /\ req'[t].seen = req[t].seen
             /\ req'[t].since = req[t].since
    <3>1. i \in RowsOf(req[t].user)
      BY <1>4, <2>1, <2>2 DEF RowsOf
    <3> QED BY <1>4, <2>1, <2>2, <3>1 DEF ScansSee
  <2>3. CASE req'[t].seen = Load(RowsOf(req'[t].user)) /\ repo' = repo
    <3>1. i \in RowsOf(req'[t].user)
      BY <1>4, <2>1 DEF RowsOf
    <3> QED BY <2>3, <3>1 DEF Load
  <2> QED BY <1>2, <2>2, <2>3 DEF SeeingKept
<1> QED BY <1>3, <1>4

\* What the commit of a walk adds is not among what it loaded, and every other record
\* is as it was.
ScanAdds(t, n, ids, gone) ==
    /\ n \in lastRow..MaxRow /\ lastRow' = n
    /\ \A i \in RowIds : i \in (lastRow + 1)..n =>
          /\ repo'[i] # NoRow /\ repo'[i].owner = req[t].user /\ repo'[i].path = ids[i]
          /\ ids[i] \notin PathsOf(req[t].seen)
    /\ \A i, k \in (lastRow + 1)..n : ids[i] = ids[k] => i = k
    /\ \A i \in RowIds : i \notin (lastRow + 1)..n /\ repo'[i] # NoRow =>
          i \notin gone /\ repo[i] # NoRow /\ repo'[i] = repo[i]

LEMMA ScanAdded ==
    ASSUME TypeOK, NEW t \in Threads, CommitScan(t)
    PROVE  \E n \in lastRow..MaxRow, kept \in SUBSET req[t].seen : \E ids :
             /\ Matches(kept, req[t].seen, req[t].found)
             /\ ScanAdds(t, n, ids, IF req[t].prune THEN Ids(req[t].seen \ kept) ELSE {})
<1> DEFINE r == req[t]
           fresh == r.found \ PathsOf(r.seen)
<1>2. PICK n \in lastRow..MaxRow, kept \in SUBSET r.seen :
        \E ids \in Bijection((lastRow + 1)..n, fresh) :
          /\ Matches(kept, r.seen, r.found)
          /\ repo' = [i \in RowIds |-> IF i \in DOMAIN ids
                                        THEN [owner |-> r.user, path |-> ids[i], status |-> ""]
                                        ELSE Without(IF r.prune THEN Ids(r.seen \ kept) ELSE {})[i]]
          /\ lastRow' = n
  BY DEF CommitScan, HighestKey
<1>3. PICK ids \in Bijection((lastRow + 1)..n, fresh) :
          /\ repo' = [i \in RowIds |-> IF i \in DOMAIN ids
                                        THEN [owner |-> r.user, path |-> ids[i], status |-> ""]
                                        ELSE Without(IF r.prune THEN Ids(r.seen \ kept) ELSE {})[i]]
          /\ lastRow' = n
  BY <1>2
<1>4. /\ DOMAIN ids = (lastRow + 1)..n
      /\ \A i \in (lastRow + 1)..n : ids[i] \in fresh
      /\ \A i, k \in (lastRow + 1)..n : ids[i] = ids[k] => i = k
  BY DEF Bijection, Injection, IsInjective
<1>5. ASSUME NEW i \in RowIds, i \in (lastRow + 1)..n
      PROVE  repo'[i] # NoRow /\ repo'[i].owner = r.user /\ repo'[i].path = ids[i]
  <2>1. PICK u, q : u = r.user /\ q = ids[i]
    OBVIOUS
  <2>2. repo'[i] = [owner |-> u, path |-> q, status |-> ""]
    BY <1>3, <1>4, <1>5, <2>1
  <2>3. PICK row : row = [owner |-> u, path |-> q, status |-> ""]
    OBVIOUS
  <2>4. row.owner = u /\ row.path = q /\ row.status = ""
    BY <2>3
  <2>5. row # NoRow
    BY <2>3 DEF NoRow
  <2> QED BY <2>1, <2>2, <2>3, <2>4, <2>5
<1> DEFINE gone == IF r.prune THEN Ids(r.seen \ kept) ELSE {}
<1>6. ASSUME NEW i \in RowIds, i \notin (lastRow + 1)..n, repo'[i] # NoRow
      PROVE  i \notin gone /\ repo[i] # NoRow /\ repo'[i] = repo[i]
  BY <1>3, <1>4, <1>6 DEF Without
<1>7. Matches(kept, r.seen, r.found)
  BY <1>2
<1>8. ScanAdds(t, n, ids, gone)
  BY <1>3, <1>4, <1>5, <1>6 DEF ScanAdds
<1> QED BY <1>7, <1>8

\* Of two records at one path one was added, or both were there: then the walk did
\* not remove, or it kept one of those it had loaded.
LEMMA ScanLeavesOne ==
    ASSUME TypeOK, RowsNumbered, ScansSee, NEW t \in Threads, CommitScan(t),
           NEW i \in AllRows', NEW k \in AllRows', i # k, SameRepo(i, k)',
           repo'[i].owner = req[t].user
    PROVE  \/ AddedMeanwhile(t, i) \/ AddedMeanwhile(t, k)
           \/ ~req[t].prune /\ {i, k} \subseteq AllRows
<1> DEFINE r == req[t]
<1>0. PICK n \in lastRow..MaxRow, kept \in SUBSET r.seen : \E ids :
             /\ Matches(kept, r.seen, r.found)
             /\ ScanAdds(t, n, ids, IF r.prune THEN Ids(r.seen \ kept) ELSE {})
  BY ScanAdded
<1>1. PICK ids :
             /\ Matches(kept, r.seen, r.found)
             /\ ScanAdds(t, n, ids, IF r.prune THEN Ids(r.seen \ kept) ELSE {})
  BY <1>0
<1>2. /\ i \in RowIds /\ k \in RowIds /\ repo'[i] # NoRow /\ repo'[k] # NoRow
      /\ repo'[i].owner = r.user /\ repo'[k].owner = r.user /\ repo'[i].path = repo'[k].path
  BY DEF AllRows, SameRepo
<1>3. r.since \in 0..lastRow /\ lastRow \in Nat
  <2>1. IsScan(r)
    BY DEF CommitScan, IsScan
  <2>2. lastRow \in Nat
    BY Constants DEF TypeOK
  <2> QED BY <2>1, <2>2 DEF ScansSee
<1>4. SUFFICES ASSUME ~AddedMeanwhile(t, i), ~AddedMeanwhile(t, k)
               PROVE  ~r.prune /\ {i, k} \subseteq AllRows
  OBVIOUS
\* A record that was there when the walk began was loaded.
<1>5. ASSUME NEW j \in {i, k}, j \notin (lastRow + 1)..n
      PROVE  /\ j \in AllRows /\ repo'[j] = repo[j] /\ <<j, repo[j].path>> \in r.seen
             /\ r.prune => j \notin Ids(r.seen \ kept)
  <2>1. /\ repo[j] # NoRow /\ repo'[j] = repo[j] /\ j \in RowIds /\ repo[j].owner = r.user
        /\ r.prune => j \notin Ids(r.seen \ kept)
    BY <1>1, <1>2, <1>5 DEF ScanAdds
  <2>2. j <= lastRow /\ j \in Nat
    BY <2>1 DEF RowsNumbered, RowIds
  <2>3. j <= r.since
    BY <1>3, <1>4, <2>2 DEF AddedMeanwhile
  <2>4. <<j, repo[j].path>> \in r.seen
    BY <2>1, <2>3 DEF ScansSee, RowsOf, CommitScan, IsScan
  <2> QED BY <2>1, <2>4 DEF AllRows
<1>6. ASSUME NEW j \in {i, k}, NEW l \in {i, k}, j \in (lastRow + 1)..n, l \notin (lastRow + 1)..n
      PROVE  FALSE
  <2>1. repo'[j].path = ids[j] /\ ids[j] \notin PathsOf(r.seen)
    BY <1>1, <1>2, <1>6 DEF ScanAdds
  <2>2. repo[l].path = ids[j] /\ <<l, repo[l].path>> \in r.seen
    BY <1>2, <1>5, <1>6, <2>1
  <2> QED BY <2>1, <2>2 DEF PathsOf
<1>7. CASE i \in (lastRow + 1)..n /\ k \in (lastRow + 1)..n
  <2>1. ids[i] = ids[k]
    BY <1>1, <1>2, <1>7 DEF ScanAdds
  <2>2. i = k
    BY <1>1, <1>7, <2>1 DEF ScanAdds
  <2> QED BY <2>2
<1>8. CASE i \notin (lastRow + 1)..n /\ k \notin (lastRow + 1)..n
  <2>1. {i, k} \subseteq AllRows
    BY <1>5, <1>8
  <2>2. ASSUME r.prune PROVE FALSE
    <3> DEFINE x == <<i, repo[i].path>>
               y == <<k, repo[k].path>>
    <3>1. x \in r.seen /\ y \in r.seen /\ i \notin Ids(r.seen \ kept) /\ k \notin Ids(r.seen \ kept)
      BY <1>5, <1>8, <2>2
    <3>2. x \in kept /\ y \in kept
      BY <3>1 DEF Ids
    <3>3. x[2] = y[2]
      BY <1>2, <1>5, <1>8
    <3>4. x = y
      BY <1>1, <3>2, <3>3 DEF Matches
    <3> QED BY <3>4
  <2> QED BY <2>1, <2>2
<1> QED BY <1>6, <1>7, <1>8

\* The records a walk adds are younger than every other walk.
LEMMA ScanSees ==
    ASSUME TypeOK, ScansSee, NEW t \in Threads, CommitScan(t)
    PROVE  ScansSee'
<1>0. PICK n \in lastRow..MaxRow, kept \in SUBSET req[t].seen : \E ids :
             ScanAdds(t, n, ids, IF req[t].prune THEN Ids(req[t].seen \ kept) ELSE {})
  BY ScanAdded
<1>1. PICK ids : ScanAdds(t, n, ids, IF req[t].prune THEN Ids(req[t].seen \ kept) ELSE {})
  BY <1>0
<1>2. lastRow \in Nat /\ n \in Nat /\ lastRow <= n /\ lastRow' = n
  BY <1>1, Constants DEF TypeOK, ScanAdds
<1>3. SUFFICES ASSUME NEW v \in Threads, IsScan(req'[v])
               PROVE  /\ req'[v].since \in 0..lastRow'
                      /\ \A i \in RowIds :
                            repo'[i] # NoRow /\ repo'[i].owner = req'[v].user /\ i <= req'[v].since
                              => <<i, repo'[i].path>> \in req'[v].seen
  BY DEF ScansSee, IsScan, RowsOf
<1>4. req' = [req EXCEPT ![t] = Idle]
  BY DEF CommitScan, Finish
<1>5. req'[v] = req[v] /\ IsScan(req[v])
  BY <1>3, <1>4 DEF TypeOK, IsScan, Idle
<1>6. req[v].since \in 0..lastRow
  BY <1>5 DEF ScansSee
<1>7. ASSUME NEW i \in RowIds, repo'[i] # NoRow, repo'[i].owner = req[v].user, i <= req[v].since
      PROVE  <<i, repo'[i].path>> \in req[v].seen
  <2>1. i \notin (lastRow + 1)..n
    BY <1>2, <1>6, <1>7 DEF RowIds
  <2>2. repo[i] # NoRow /\ repo'[i] = repo[i]
    BY <1>1, <1>7, <2>1 DEF ScanAdds
  <2>3. i \in RowsOf(req[v].user)
    BY <1>7, <2>2 DEF RowsOf
  <2> QED BY <1>5, <1>7, <2>2, <2>3 DEF ScansSee
<1> QED BY <1>2, <1>5, <1>6, <1>7

LEMMA SeeStep ==
    ASSUME TypeOK, RowsNumbered, ScansSee, [Next]_vars
    PROVE  ScansSee'
<1>1. Persistent
  BY PersistentStep
<1>2. ASSUME lastRow' = lastRow, \A t \in Threads : req'[t] = req[t] \/ ~IsScan(req'[t])
      PROVE  ScansSee'
  <2>1. \A t \in Threads : SeeingKept(t)
    BY <1>2 DEF SeeingKept, IsScan
  <2> QED BY <1>1, <1>2, <2>1, SeenKept
<1>3. ASSUME NEW t \in Threads, Finish(t), lastRow' = lastRow
      PROVE  ScansSee'
  <2>1. \A v \in Threads : req'[v] = req[v] \/ req'[v] = Idle
    BY <1>3 DEF Finish, TypeOK
  <2>2. ~IsScan(Idle)
    BY DEF IsScan, Idle
  <2> QED BY <1>2, <1>3, <2>1, <2>2 DEF IsScan
<1>4. ASSUME NEW t \in Threads, NEW r, Begin(t, r),
             ~IsScan(r) \/ (r.seen = Load(RowsOf(r.user)) /\ r.since = lastRow)
      PROVE  ScansSee'
  <2>1. /\ req'[t] = r /\ \A v \in Threads \ {t} : req'[v] = req[v]
        /\ UNCHANGED <<repo, lastRow>>
    BY <1>4 DEF Begin, TypeOK, db
  <2>3. \A v \in Threads : SeeingKept(v)
    BY <1>4, <2>1 DEF SeeingKept, IsScan
  <2> QED BY <1>1, <2>1, <2>3, SeenKept
<1>5. ASSUME NEW t \in Threads, NEW new, NEW p, IsScan(req[t]), lastRow' = lastRow,
             \/ req' = [req EXCEPT ![t].todo = @ \ {p}]
             \/ req' = [req EXCEPT ![t].todo = @ \ {p}, ![t].found = new]
      PROVE  ScansSee'
  <2>1. req[t] \in Scan
    BY <1>5, RequestOfLabel DEF IsScan, TypeOK
  <2>2. /\ req'[t].user = req[t].user /\ req'[t].seen = req[t].seen
        /\ req'[t].since = req[t].since
        /\ \A v \in Threads \ {t} : req'[v] = req[v]
    BY <1>5, <2>1 DEF Scan, TypeOK
  <2>3. \A v \in Threads : SeeingKept(v)
    BY <1>5, <2>2 DEF SeeingKept, IsScan
  <2> QED BY <1>1, <1>5, <2>3, SeenKept
<1>6. ASSUME NEW t \in Threads, NewRequest(t) PROVE ScansSee'
  <2>1. ASSUME NEW u \in Users, NEW root, NEW op, NEW b, NEW todo,
               Begin(t, Walk(u, root, op, b, todo))
        PROVE  ScansSee'
    BY <1>4, <2>1 DEF Walk
  <2>2. ASSUME NEW i \in RowIds, BeginDeleteRepo(t, i) PROVE ScansSee'
    BY <1>4, <2>2 DEF BeginDeleteRepo, IsScan
  <2>3. ASSUME NEW u \in Users, NEW b \in BOOLEAN, BeginDeleteUser(t, u, b)
        PROVE  ScansSee'
    <3>1. PICK f : f = [op |-> IF b THEN "deleteUserData" ELSE "deleteUser", user |-> u,
                 seen |-> Load(RowsOf(u)),
                 fresh |-> {i \in RowsOf(u) : b /\ repo[i].status # "deleting"},
                 changed |-> b /\ userStatus[u] # "deleting"]
      OBVIOUS
    <3>2. Begin(t, f) /\ ~IsScan(f)
      BY <2>3, <3>1 DEF BeginDeleteUser, IsScan
    <3> QED BY <1>4, <3>2
  <2>4. ASSUME NEW u \in Users, NEW b \in BOOLEAN, BeginRefresh(t, u, b)
        PROVE  ScansSee'
    BY <2>1, <2>4 DEF BeginRefresh
  <2>5. ASSUME NEW u \in Users, NEW status, BeginSetStatus(t, u, status)
        PROVE  ScansSee'
    BY <1>4, <2>5 DEF BeginSetStatus, IsScan
  <2>6. ASSUME NEW u \in Users, NEW root, NEW valid, BeginSetRoot(t, u, root, valid)
        PROVE  ScansSee'
    BY <2>1, <2>6 DEF BeginSetRoot
  <2> QED BY <1>6, <2>2, <2>3, <2>4, <2>5, <2>6 DEF NewRequest
<1>7. ASSUME NEW t \in Threads, RequestStep(t) PROVE ScansSee'
  <2>1. CASE CommitDeleteRepo(t) \/ CommitDeleteUserData(t)
    <3>1. PICK task : FinishWith(t, task)
      BY <2>1 DEF CommitDeleteRepo, CommitDeleteUserData
    <3>2. \A v \in Threads : req'[v] = req[v] \/ req'[v].op = "publish"
      BY <3>1 DEF FinishWith, TypeOK
    <3> QED BY <1>2, <2>1, <3>2 DEF CommitDeleteRepo, CommitDeleteUserData, IsScan
  <2>2. CASE CommitDeleteUser(t) \/ CommitSetStatus(t) \/ AbortCommit(t) \/ Publish(t)
             \/ LeaveScan(t)
    BY <1>3, <2>2 DEF CommitDeleteUser, CommitSetStatus, AbortCommit, Publish, LeaveScan, db
  <2>3. CASE CommitScan(t)
    BY <2>3, ScanSees
  <2>4. ASSUME NEW p \in Paths, VisitPath(t, p) PROVE ScansSee'
    <3>1. PICK new : new = req[t].found \cup {q \in {p} : <<req[t].root, q>> \in disk}
      OBVIOUS
    <3>2. req' = [req EXCEPT ![t].todo = @ \ {p}, ![t].found = new]
      BY <2>4, <3>1 DEF VisitPath
    <3>3. IsScan(req[t]) /\ lastRow' = lastRow
      BY <2>4 DEF VisitPath, IsScan, db
    <3> QED BY <1>5, <3>2, <3>3
  <2> QED BY <1>7, <2>1, <2>2, <2>3, <2>4 DEF RequestStep
<1>8. ASSUME NEW s \in Slots, JobStep(s) PROVE ScansSee'
  BY <1>2, <1>8 DEF JobStep, StartJob, AbandonJob, CommitJob, RefusedJob, RemoveTree, db
<1>9. CASE Fault
  <2>1. ASSUME NEW t \in Threads, NEW p \in Paths, SkipUnreadable(t, p)
        PROVE  ScansSee'
    <3>1. IsScan(req[t]) /\ lastRow' = lastRow /\ req' = [req EXCEPT ![t].todo = @ \ {p}]
      BY <2>1 DEF SkipUnreadable, IsScan, db
    <3> QED BY <1>5, <3>1
  <2>2. ASSUME NEW s \in Slots, JobCommitFails(s) \/ \E p \in Paths : RemoveTreeFails(s, p)
        PROVE  ScansSee'
    BY <1>2, <2>2 DEF JobCommitFails, RemoveTreeFails, db
  <2> QED BY <1>9, <2>1, <2>2 DEF Fault
<1>10. CASE Restart
  <2>1. \A t \in Threads : req'[t] = Idle
    BY <1>10 DEF Restart
  <2> QED BY <1>2, <1>10, <2>1 DEF Restart, IsScan, Idle
<1>11. ASSUME NEW u \in Users, AddUser(u) PROVE ScansSee'
  BY <1>2, <1>11 DEF AddUser
<1>12. ASSUME NEW root \in Roots, NEW p \in Paths, Backup(root, p)
       PROVE  ScansSee'
  BY <1>2, <1>12 DEF Backup, db
<1>13. CASE UNCHANGED vars
  BY <1>2, <1>13 DEF vars
<1> QED BY <1>6, <1>7, <1>8, <1>9, <1>10, <1>11, <1>12, <1>13 DEF Next

\* A walk that commits leaves its user one record per path, but for what others
\* inserted while it was under way and, if it does not remove, for what was there
\* before: whatever requests, walks, jobs, faults and restarts there are, because no
\* key is given out twice, so that a walk has loaded every record older than itself.
THEOREM OneRecord == Spec => WalkLeavesOneRecord
<1>1. Init => ScansSee
  <2> SUFFICES ASSUME Init PROVE ScansSee
    OBVIOUS
  <2>1. \A t \in Threads : req[t] = Idle
    BY DEF Init
  <2>2. ~IsScan(Idle)
    BY DEF IsScan, Idle
  <2> QED BY <2>1, <2>2 DEF ScansSee
<1>2. TypeOK /\ KeysAreLogged /\ ScansSee /\ [Next]_vars => ScansSee'
  BY SeeStep DEF KeysAreLogged
<1>3. TypeOK /\ KeysAreLogged /\ ScansSee =>
         \A t \in Threads : CommitScan(t) =>
            \A i, k \in AllRows' :
               (i # k /\ SameRepo(i, k)' /\ repo'[i].owner = req[t].user) =>
                  \/ AddedMeanwhile(t, i) \/ AddedMeanwhile(t, k)
                  \/ ~req[t].prune /\ {i, k} \subseteq AllRows
  BY ScanLeavesOne DEF KeysAreLogged
<1>4. TypeOK /\ KeysAreLogged /\ ScansSee /\ [Next]_vars =>
         [\A t \in Threads : CommitScan(t) =>
            \A i, k \in AllRows' :
               (i # k /\ SameRepo(i, k)' /\ repo'[i].owner = req[t].user) =>
                  \/ AddedMeanwhile(t, i) \/ AddedMeanwhile(t, k)
                  \/ ~req[t].prune /\ {i, k} \subseteq AllRows]_vars
  BY <1>3
<1> QED BY <1>1, <1>2, <1>4, TypeInvariant, LoggedKeys, PTL DEF Spec, WalkLeavesOneRecord

-----------------------------------------------------------------------------
(***************************************************************************)
(* A deletion that was begun is on its way, while no job is lost           *)
(***************************************************************************)
\* No restart, and no job whose transaction fails or is refused: each ends a job
\* whose records then stay as they are.
JobsEnd == ~Restart /\ \A s \in Slots : ~JobCommitFails(s) /\ ~RefusedJob(s)

\* What a request has to keep to so that its commit marks only what its callback is
\* about, and nothing of a user who is still to come.
RequestNoted(r) ==
    /\ IsScan(r) => userStatus[r.user] # "new"
    /\ r.op = "deleteUserData" => \A i \in r.fresh : repo[i] # NoRow => repo[i].owner = r.user
    /\ r.op = "deleteUserData" => \A i \in r.fresh : i <= lastRow
    /\ r.op = "deleteRepo" => \A i \in r.fresh, x \in r.seen : i = x[1]

Noted ==
    /\ \A i \in AllRows : userStatus[repo[i].owner] # "new"
    /\ \A t \in Threads : RequestNoted(req[t])

\* A user is there once, and not again after he was deleted.
LEMMA StatusStep ==
    ASSUME TypeOK, [Next]_vars, NEW u \in Users, userStatus[u] # "new"
    PROVE  userStatus'[u] # "new" /\ (Live(u)' => Live(u))
<1>1. ASSUME userStatus'[u] # userStatus[u]
      PROVE  userStatus'[u] # "new" /\ (userStatus'[u] = "gone" \/ userStatus[u] # "gone")
  <2>1. ASSUME NEW t \in Threads, RequestStep(t)
        PROVE  userStatus'[u] # "new" /\ (userStatus'[u] = "gone" \/ userStatus[u] # "gone")
    <3>1. CASE CommitDeleteUserData(t)
      <4>1. userStatus' = [userStatus EXCEPT ![req[t].user] = "deleting"] /\ Live(req[t].user)
        BY <1>1, <3>1 DEF CommitDeleteUserData, Updatable
      <4> QED BY <1>1, <4>1 DEF TypeOK, Live
    <3>2. CASE CommitDeleteUser(t)
      BY <1>1, <3>2 DEF CommitDeleteUser, TypeOK
    <3>3. CASE CommitSetStatus(t)
      <4>1. req[t] \in Edit
        BY <3>3, RequestOfLabel DEF CommitSetStatus, TypeOK
      <4>2. req[t].status # "new"
        BY <4>1 DEF Edit
      <4> QED BY <1>1, <3>3, <4>2 DEF CommitSetStatus, TypeOK, Live
    <3>4. CASE \/ CommitDeleteRepo(t) \/ AbortCommit(t) \/ Publish(t) \/ CommitScan(t) \/ LeaveScan(t)
               \/ \E p \in Paths : VisitPath(t, p)
      BY <1>1, <3>4 DEF CommitDeleteRepo, AbortCommit, Publish, CommitScan, LeaveScan, VisitPath, db
    <3> QED BY <2>1, <3>1, <3>2, <3>3, <3>4 DEF RequestStep
  <2>2. ASSUME NEW s \in Slots, JobStep(s)
        PROVE  userStatus'[u] # "new" /\ (userStatus'[u] = "gone" \/ userStatus[u] # "gone")
    <3>1. CASE CommitJob(s)
      BY <1>1, <3>1 DEF CommitJob, TypeOK
    <3>2. CASE StartJob(s) \/ AbandonJob(s) \/ RefusedJob(s) \/ \E p \in Paths : RemoveTree(s, p)
      BY <1>1, <3>2 DEF StartJob, AbandonJob, RefusedJob, RemoveTree, db
    <3> QED BY <2>2, <3>1, <3>2 DEF JobStep
  <2>3. ASSUME NEW v \in Users, AddUser(v)
        PROVE  FALSE
    BY <1>1, <2>3 DEF AddUser, TypeOK
  <2>4. ASSUME NEW t \in Threads, NewRequest(t) PROVE FALSE
    BY <1>1, <2>4 DEF NewRequest, BeginDeleteRepo, BeginDeleteUser, BeginRefresh,
                      BeginSetStatus, BeginSetRoot, Begin, db
  <2>5. ~Fault
    BY <1>1 DEF Fault, SkipUnreadable, JobCommitFails, RemoveTreeFails, db
  <2>6. ~Restart
    BY <1>1 DEF Restart
  <2>7. ASSUME NEW root \in Roots, NEW p \in Paths, Backup(root, p) PROVE FALSE
    BY <1>1, <2>7 DEF Backup, db
  <2>8. ~UNCHANGED vars
    BY <1>1 DEF vars
  <2> QED BY <2>1, <2>2, <2>3, <2>4, <2>5, <2>6, <2>7, <2>8 DEF Next
<1> QED BY <1>1 DEF Live

\* The hypotheses of every step.
Earlier == Before /\ Noted /\ \A u \in Users :
              userStatus[u] # "new" => userStatus'[u] # "new" /\ (Live(u)' => Live(u))

LEMMA StableNoted ==
    ASSUME Earlier, NEW r \in Request, RequestNoted(r)
    PROVE  RequestNoted(r)'
<1>1. CASE IsScan(r)
  <2>1. r \in Scan
    BY <1>1, RequestOfLabel DEF IsScan
  <2>2. r.user \in Users /\ r.op \notin {"deleteUserData", "deleteRepo"}
    BY <1>1, <2>1 DEF Scan, IsScan
  <2> QED BY <1>1, <2>2 DEF Earlier, RequestNoted
<1>2. CASE r.op = "deleteUserData"
  <2>1. r.fresh \in SUBSET RowIds
    BY <1>2, RequestOfLabel DEF Form
  <2>2. lastRow \in Nat /\ lastRow' \in Nat /\ lastRow <= lastRow' /\ RowIds \subseteq Nat
    BY Constants DEF Earlier, Before, TypeOK, Persistent, RowIds
  <2>3. ASSUME NEW i \in r.fresh PROVE i <= lastRow /\ i <= lastRow' /\ i \in Nat
    <3>1. i \in Nat BY <2>1, <2>2
    <3>2. i <= lastRow BY <1>2 DEF RequestNoted
    <3> QED BY <2>2, <3>1, <3>2
  <2>4. \A i \in r.fresh : repo'[i] # NoRow => repo'[i].owner = r.user
    BY <1>2, <2>1, <2>2, <2>3 DEF RequestNoted, Earlier, Before, Persistent
  <2> QED BY <1>2, <2>3, <2>4 DEF RequestNoted, IsScan
<1>3. CASE r.op \notin {"deleteUserData", "refresh", "setRoot"}
  BY <1>3 DEF RequestNoted, IsScan
<1> QED BY <1>1, <1>2, <1>3 DEF IsScan

\* What a step has to show of the request it changes and of the records it adds.
LEMMA NotedKept ==
    ASSUME Earlier, \A t \in Threads : req'[t] = req[t] \/ RequestNoted(req[t])',
           \A i \in RowIds : repo'[i] # NoRow /\ repo[i] = NoRow => userStatus'[repo'[i].owner] # "new"
    PROVE  Noted'
<1>1. ASSUME NEW i \in RowIds, repo'[i] # NoRow PROVE userStatus'[repo'[i].owner] # "new"
  <2>1. CASE repo[i] # NoRow
    <3>1. repo'[i].owner = repo[i].owner /\ repo[i].owner \in Users
      BY <1>1, <2>1, RowFields DEF Earlier, Before, Persistent
    <3>2. userStatus[repo[i].owner] # "new"
      BY <2>1 DEF Earlier, Noted, AllRows
    <3> QED BY <3>1, <3>2 DEF Earlier
  <2> QED BY <1>1, <2>1
<1>2. ASSUME NEW t \in Threads PROVE RequestNoted(req[t])'
  <2>1. CASE req'[t] = req[t]
    <3>1. req[t] \in Request /\ RequestNoted(req[t])
      BY DEF Earlier, Before, TypeOK, Noted
    <3>2. \A r \in Request : RequestNoted(r) => RequestNoted(r)'
      BY StableNoted
    <3> QED BY <2>1, <3>1, <3>2
  <2> QED BY <1>2, <2>1
<1> QED BY <1>1, <1>2 DEF Noted, AllRows

LEMMA NotedStep ==
    ASSUME Earlier, [Next]_vars
    PROVE  Noted'
<1>1. ASSUME NEW t \in Threads, NEW r, Begin(t, r), RequestNoted(r) PROVE Noted'
  <2>1. /\ req'[t] = r /\ \A v \in Threads \ {t} : req'[v] = req[v]
        /\ UNCHANGED <<repo, lastRow, userStatus>>
    BY <1>1 DEF Begin, Earlier, Before, TypeOK, db
  <2>2. RequestNoted(req[t])'
    BY <1>1, <2>1 DEF RequestNoted
  <2> QED BY <2>1, <2>2, NotedKept
<1>2. ASSUME NEW t \in Threads, NEW r, req' = [req EXCEPT ![t] = r],
             r.op \in {"idle", "publish"}, lastRow' = lastRow
      PROVE  Noted'
  <2>1. RequestNoted(req[t])' /\ \A v \in Threads \ {t} : req'[v] = req[v]
    BY <1>2 DEF Earlier, Before, TypeOK, RequestNoted, IsScan
  <2>2. \A i \in RowIds : repo'[i] # NoRow => repo[i] # NoRow
    BY <1>2, Constants DEF Earlier, Before, TypeOK, Persistent, RowIds
  <2> QED BY <2>1, <2>2, NotedKept
<1>3. ASSUME NEW t \in Threads, Finish(t), lastRow' = lastRow PROVE Noted'
  BY <1>2, <1>3 DEF Finish, Idle
<1>4. ASSUME UNCHANGED req, lastRow' = lastRow PROVE Noted'
  <2>1. \A i \in RowIds : repo'[i] # NoRow => repo[i] # NoRow
    BY <1>4, Constants DEF Earlier, Before, TypeOK, Persistent, RowIds
  <2> QED BY <1>4, <2>1, NotedKept
<1>5. ASSUME NEW t \in Threads, NEW new, NEW p, IsScan(req[t]), UNCHANGED <<repo, lastRow, userStatus>>,
             \/ req' = [req EXCEPT ![t].todo = @ \ {p}]
             \/ req' = [req EXCEPT ![t].todo = @ \ {p}, ![t].found = new]
      PROVE  Noted'
  <2>1. req[t] \in Scan
    BY <1>5, RequestOfLabel DEF IsScan, Earlier, Before, TypeOK
  <2>2. /\ req'[t].user = req[t].user /\ req'[t].op = req[t].op
        /\ \A v \in Threads \ {t} : req'[v] = req[v]
    BY <1>5, <2>1 DEF Scan, Earlier, Before, TypeOK
  <2>3. RequestNoted(req[t])'
    BY <1>5, <2>2 DEF Earlier, Noted, RequestNoted, IsScan
  <2> QED BY <1>5, <2>2, <2>3, NotedKept
<1>6. ASSUME NEW t \in Threads, NewRequest(t) PROVE Noted'
  <2>1. ASSUME NEW u \in Users, NEW root, NEW op \in {"refresh", "setRoot"}, NEW b, NEW todo,
               Live(u), Begin(t, Walk(u, root, op, b, todo))
        PROVE  Noted'
    <3>1. RequestNoted(Walk(u, root, op, b, todo))
      BY <2>1 DEF Walk, RequestNoted, IsScan, Live
    <3> QED BY <1>1, <2>1, <3>1
  <2>2. ASSUME NEW i \in RowIds, BeginDeleteRepo(t, i) PROVE Noted'
    <3> DEFINE r == [op |-> "deleteRepo", user |-> repo[i].owner, seen |-> Load({i}),
                     fresh |-> {k \in {i} : repo[k].status # "deleting"}, changed |-> FALSE]
    <3>1. RequestNoted(r)
      BY DEF RequestNoted, IsScan, Load
    <3> QED BY <1>1, <2>2, <3>1 DEF BeginDeleteRepo
  <2>3. ASSUME NEW u \in Users, NEW b \in BOOLEAN, BeginDeleteUser(t, u, b) PROVE Noted'
    <3> DEFINE r == [op |-> IF b THEN "deleteUserData" ELSE "deleteUser", user |-> u,
                     seen |-> Load(RowsOf(u)),
                     fresh |-> {i \in RowsOf(u) : b /\ repo[i].status # "deleting"},
                     changed |-> b /\ userStatus[u] # "deleting"]
    <3>1. \A i \in RowsOf(u) : i <= lastRow /\ repo[i].owner = u
      BY DEF RowsOf, Earlier, Before, KeysAreLogged, RowsNumbered
    <3>2. RequestNoted(r)
      BY <3>1 DEF RequestNoted, IsScan
    <3> QED BY <1>1, <2>3, <3>2 DEF BeginDeleteUser
  <2>4. ASSUME NEW u \in Users, NEW b \in BOOLEAN, BeginRefresh(t, u, b) PROVE Noted'
    BY <2>1, <2>4 DEF BeginRefresh
  <2>5. ASSUME NEW u \in Users, NEW status, BeginSetStatus(t, u, status) PROVE Noted'
    <3> DEFINE r == [op |-> "setStatus", user |-> u, status |-> status]
    <3>1. RequestNoted(r)
      BY DEF RequestNoted, IsScan
    <3> QED BY <1>1, <2>5, <3>1 DEF BeginSetStatus
  <2>6. ASSUME NEW u \in Users, NEW root, NEW valid, BeginSetRoot(t, u, root, valid) PROVE Noted'
    BY <2>1, <2>6 DEF BeginSetRoot
  <2> QED BY <1>6, <2>2, <2>3, <2>4, <2>5, <2>6 DEF NewRequest
<1>7. ASSUME NEW t \in Threads, RequestStep(t) PROVE Noted'
  <2>1. CASE CommitDeleteRepo(t) \/ CommitDeleteUserData(t)
    <3>1. PICK task : FinishWith(t, task)
      BY <2>1 DEF CommitDeleteRepo, CommitDeleteUserData
    <3> QED BY <1>2, <2>1, <3>1 DEF FinishWith, CommitDeleteRepo, CommitDeleteUserData
  <2>2. CASE CommitDeleteUser(t) \/ CommitSetStatus(t) \/ AbortCommit(t) \/ Publish(t)
             \/ LeaveScan(t)
    BY <1>3, <2>2 DEF CommitDeleteUser, CommitSetStatus, AbortCommit, Publish, LeaveScan, db
  <2>3. CASE CommitScan(t)
    <3>0. TypeOK
      BY DEF Earlier, Before
    <3>1. PICK n \in lastRow..MaxRow, gone \in SUBSET RowIds :
            \E ids \in [(lastRow + 1)..n -> Paths] : ScanEffect(n, gone, ids, req[t].user)
      BY <2>3, <3>0, ScanCommitted
    <3>2. PICK ids \in [(lastRow + 1)..n -> Paths] : ScanEffect(n, gone, ids, req[t].user)
      BY <3>1
    <3>3. userStatus[req[t].user] # "new" /\ userStatus' = userStatus
      BY <2>3 DEF CommitScan, IsScan, Earlier, Noted, RequestNoted
    <3>4. ASSUME NEW i \in RowIds, repo'[i] # NoRow, repo[i] = NoRow
          PROVE  userStatus'[repo'[i].owner] # "new"
      <4>1. repo'[i] = IF i \in (lastRow + 1)..n
                       THEN [owner |-> req[t].user, path |-> ids[i], status |-> ""]
                       ELSE Without(gone)[i]
        BY <3>2 DEF ScanEffect
      <4>2. Without(gone)[i] = NoRow
        BY <3>4 DEF Without
      <4>3. PICK row : row = [owner |-> req[t].user, path |-> ids[i], status |-> ""]
        OBVIOUS
      <4>4. repo'[i] = row /\ row.owner = req[t].user
        BY <3>4, <4>1, <4>2, <4>3
      <4> QED BY <3>3, <4>4
    <3>5. RequestNoted(req[t])' /\ \A v \in Threads \ {t} : req'[v] = req[v]
      BY <2>3, <3>0 DEF CommitScan, Finish, Idle, TypeOK, RequestNoted, IsScan
    <3> QED BY <3>4, <3>5, NotedKept
  <2>4. ASSUME NEW p \in Paths, VisitPath(t, p) PROVE Noted'
    <3>1. PICK new : new = req[t].found \cup {q \in {p} : <<req[t].root, q>> \in disk}
      OBVIOUS
    <3>2. req' = [req EXCEPT ![t].todo = @ \ {p}, ![t].found = new]
      BY <2>4, <3>1 DEF VisitPath
    <3>3. IsScan(req[t]) /\ UNCHANGED <<repo, lastRow, userStatus>>
      BY <2>4 DEF VisitPath, IsScan, db
    <3> QED BY <1>5, <3>2, <3>3
  <2> QED BY <1>7, <2>1, <2>2, <2>3, <2>4 DEF RequestStep
<1>8. ASSUME NEW s \in Slots, JobStep(s) PROVE Noted'
  BY <1>4, <1>8 DEF JobStep, StartJob, AbandonJob, CommitJob, RefusedJob, RemoveTree, db
<1>9. CASE Fault
  <2>1. ASSUME NEW t \in Threads, NEW p \in Paths, SkipUnreadable(t, p) PROVE Noted'
    <3>1. /\ IsScan(req[t]) /\ UNCHANGED <<repo, lastRow, userStatus>>
          /\ req' = [req EXCEPT ![t].todo = @ \ {p}]
      BY <2>1 DEF SkipUnreadable, IsScan, db
    <3> QED BY <1>5, <3>1
  <2>2. ASSUME NEW s \in Slots, JobCommitFails(s) \/ \E p \in Paths : RemoveTreeFails(s, p)
        PROVE  Noted'
    BY <1>4, <2>2 DEF JobCommitFails, RemoveTreeFails, db
  <2> QED BY <1>9, <2>1, <2>2 DEF Fault
<1>10. CASE Restart
  <2>1. \A t \in Threads : req'[t] = Idle
    BY <1>10 DEF Restart
  <2>2. \A t \in Threads : RequestNoted(req[t])'
    BY <2>1 DEF RequestNoted, IsScan, Idle
  <2>3. \A i \in RowIds : repo'[i] # NoRow => repo[i] # NoRow
    BY <1>10 DEF Restart, Without
  <2> QED BY <2>2, <2>3, NotedKept
<1>11. ASSUME NEW u \in Users, AddUser(u) PROVE Noted'
  BY <1>4, <1>11 DEF AddUser
<1>12. ASSUME NEW root \in Roots, NEW p \in Paths, Backup(root, p) PROVE Noted'
  BY <1>4, <1>12 DEF Backup, db
<1>13. CASE UNCHANGED vars
  BY <1>4, <1>13 DEF vars
<1> QED BY <1>6, <1>7, <1>8, <1>9, <1>10, <1>11, <1>12, <1>13 DEF Next

\* What a step that only lets requests and jobs move on leaves of a pursuit.
Followed ==
    /\ \A t \in Threads : req[t].op = "publish" => req'[t] = req[t]
    /\ \A s \in Slots : job[s].pc = "pending" => job'[s] = job[s]
    /\ \A s \in Slots : job[s].pc = "running" =>
                            job'[s].pc = "running" /\ job'[s].rows = job[s].rows

\* A record shown as "Deletion in progress...".
Shown(i) == repo[i] # NoRow /\ repo[i].status = "deleting" /\ Live(repo[i].owner)

\* It is shown so before the step, and the step leaves it to its user.
ShownBefore(i) == Shown(i) /\ repo'[i].owner = repo[i].owner

LEMMA MarkedEarlier ==
    ASSUME Earlier, NEW i \in RowIds, Shown(i)', repo[i] # NoRow, repo[i].status = "deleting"
    PROVE  ShownBefore(i)
<1>1. repo'[i].owner = repo[i].owner /\ repo[i].owner \in Users
  BY RowFields DEF Earlier, Before, Persistent, Shown
<1>2. userStatus[repo[i].owner] # "new"
  BY DEF Earlier, Noted, AllRows
<1> QED BY <1>1, <1>2 DEF ShownBefore, Shown, Earlier

LEMMA PursuitGoesOn ==
    ASSUME Followed, NEW i \in RowIds, ShownBefore(i), Pursued(i)
    PROVE  Pursued(i)'
<1>1. \A task : Targets(task, i) => Targets(task, i)'
  BY DEF Targets, ShownBefore
<1> QED BY <1>1 DEF Pursued, Followed

LEMMA ProgressKept ==
    ASSUME Earlier, DeletionInProgress, Followed,
           \A i \in RowIds : Shown(i)' => repo[i] # NoRow /\ repo[i].status = "deleting"
    PROVE  DeletionInProgress'
<1> SUFFICES ASSUME NEW i \in RowIds, Shown(i)' PROVE Pursued(i)'
  BY DEF DeletionInProgress, AllRows, Shown
<1>1. ShownBefore(i)
  BY MarkedEarlier
<1>2. Pursued(i)
  BY <1>1 DEF DeletionInProgress, AllRows, ShownBefore, Shown
<1> QED BY <1>1, <1>2, PursuitGoesOn

\* A record a step removes or leaves as it is was marked before if it is marked now.
LEMMA OnlyRemoved ==
    ASSUME NEW rows, repo' = Without(rows) \/ repo' = repo
    PROVE  \A i \in RowIds : Shown(i)' => repo[i] # NoRow /\ repo[i].status = "deleting"
BY DEF Without, Shown

\* A request that is not about to publish a callback is nobody's pursuit.
LEMMA RequestMoves ==
    ASSUME TypeOK, NEW t \in Threads, NEW r, req[t].op # "publish",
           req' = [req EXCEPT ![t] = r], UNCHANGED job
    PROVE  Followed
BY DEF TypeOK, Followed

\* One job changes: what pursues a record is that job or goes on.
LEMMA JobMoves ==
    ASSUME TypeOK, NEW s \in Slots, \A v \in Slots \ {s} : job'[v] = job[v],
           \A t \in Threads : req[t].op = "publish" => req'[t] = req[t],
           NEW i \in RowIds, ShownBefore(i), Pursued(i),
           (\/ job[s].pc = "pending" /\ Targets(job[s].task, i)
            \/ job[s].pc = "running" /\ i \in job[s].rows) => Pursued(i)'
    PROVE  Pursued(i)'
<1>1. \A task : Targets(task, i) => Targets(task, i)'
  BY DEF Targets, ShownBefore
<1>2. CASE \E t \in Threads : req[t].op = "publish" /\ Targets(req[t].task, i)
  BY <1>1, <1>2 DEF Pursued
<1>3. CASE \E v \in Slots \ {s} : \/ job[v].pc = "pending" /\ Targets(job[v].task, i)
                                  \/ job[v].pc = "running" /\ i \in job[v].rows
  BY <1>1, <1>3 DEF Pursued
<1> QED BY <1>2, <1>3 DEF Pursued

\* A form that marks records publishes a callback for all of them.
LEMMA MarkingPublishes ==
    ASSUME Earlier, DeletionInProgress, NEW t \in Threads,
           CommitDeleteRepo(t) \/ CommitDeleteUserData(t)
    PROVE  DeletionInProgress'
<1> SUFFICES ASSUME NEW i \in RowIds, Shown(i)' PROVE Pursued(i)'
  BY DEF DeletionInProgress, AllRows, Shown
<1> DEFINE r == req[t]
<1>1. TypeOK /\ r \in Form /\ RequestNoted(r) /\ Updatable(r) /\ repo' = Marked(r.fresh)
  BY RequestOfLabel DEF CommitDeleteRepo, CommitDeleteUserData, Earlier, Before, Noted, TypeOK
<1>2. r.fresh \in SUBSET RowIds /\ r.seen \in Snapshot /\ r.op # "publish" /\ UNCHANGED job
  BY <1>1 DEF Form, CommitDeleteRepo, CommitDeleteUserData
<1>3. PICK task : /\ FinishWith(t, task)
                  /\ \/ r.op = "deleteRepo" /\ task.kind = "repo" /\ task.row \in Ids(r.seen)
                     \/ r.op = "deleteUserData" /\ task.kind = "user" /\ task.user = r.user
  <2>1. CASE CommitDeleteRepo(t)
    <3>1. PICK k \in Ids(r.seen) : FinishWith(t, [kind |-> "repo", user |-> r.user, row |-> k])
      BY <2>1 DEF CommitDeleteRepo
    <3>2. PICK task : task = [kind |-> "repo", user |-> r.user, row |-> k]
      OBVIOUS
    <3>3. task.kind = "repo" /\ task.row = k /\ r.op = "deleteRepo"
      BY <2>1, <3>2 DEF CommitDeleteRepo
    <3> QED BY <3>1, <3>2, <3>3
  <2>2. CASE CommitDeleteUserData(t)
    <3>1. PICK task : task = [kind |-> "user", user |-> r.user]
      OBVIOUS
    <3>2. task.kind = "user" /\ task.user = r.user /\ FinishWith(t, task) /\ r.op = "deleteUserData"
      BY <2>2, <3>1 DEF CommitDeleteUserData
    <3> QED BY <3>2
  <2> QED BY <2>1, <2>2
<1>4. CASE i \in r.fresh
  <2>1. repo[i] # NoRow /\ repo'[i].owner = repo[i].owner
    BY <1>1, <1>4 DEF Updatable, Earlier, Before, Persistent, Shown
  <2>2. CASE r.op = "deleteRepo"
    <3>1. task.kind = "repo" /\ task.row \in Ids(r.seen)
      BY <1>3, <2>2
    <3>2. task.row = i
      BY <1>1, <1>4, <2>2, <3>1 DEF RequestNoted, Ids
    <3> QED BY <1>3, <3>1, <3>2 DEF Pursued, Targets, FinishWith, Earlier, Before, TypeOK
  <2>3. CASE r.op = "deleteUserData"
    <3>1. task.kind = "user" /\ task.user = repo'[i].owner
      BY <1>1, <1>3, <1>4, <2>1, <2>3 DEF RequestNoted
    <3> QED BY <1>3, <3>1 DEF Pursued, Targets, FinishWith, Earlier, Before, TypeOK
  <2> QED BY <1>3, <2>2, <2>3
<1>5. CASE i \notin r.fresh
  <2>1. repo'[i] = repo[i]
    BY <1>1, <1>5 DEF Marked
  <2>2. ShownBefore(i)
    BY <2>1, MarkedEarlier DEF Shown
  <2>3. Pursued(i)
    BY <2>2 DEF DeletionInProgress, AllRows, ShownBefore, Shown
  <2>4. Followed
    BY <1>1, <1>2, <1>3, RequestMoves DEF FinishWith
  <2> QED BY <2>2, <2>3, <2>4, PursuitGoesOn
<1> QED BY <1>4, <1>5

\* A job takes the callback over, and a started job what it is to delete.
LEMMA PursuitHandedOn ==
    ASSUME Earlier, DeletionInProgress,
           \/ \E t \in Threads : Publish(t)
           \/ \E s \in Slots : StartJob(s) \/ AbandonJob(s) \/ CommitJob(s)
    PROVE  DeletionInProgress'
<1> SUFFICES ASSUME NEW i \in RowIds, Shown(i)' PROVE Pursued(i)'
  BY DEF DeletionInProgress, AllRows, Shown
<1>1. TypeOK /\ KeysAreLogged
  BY DEF Earlier, Before
<1>2. ShownBefore(i)
  BY MarkedEarlier DEF Publish, StartJob, AbandonJob, CommitJob, Without, Shown, db
<1>3. Pursued(i)
  BY <1>2 DEF DeletionInProgress, AllRows, ShownBefore, Shown
<1>4. \A task : Targets(task, i) => Targets(task, i)'
  BY <1>2 DEF Targets, ShownBefore
<1>5. ASSUME NEW t \in Threads, Publish(t) PROVE Pursued(i)'
  <2>1. PICK s \in Slots : /\ job[s] = Free
                           /\ job' = [job EXCEPT ![s] = [pc |-> "pending", task |-> req[t].task]]
    BY <1>5 DEF Publish
  <2>2. /\ \A v \in Slots \ {s} : job'[v] = job[v]
        /\ job'[s].pc = "pending" /\ job'[s].task = req[t].task
        /\ job[s].pc = "free"
    BY <1>1, <2>1 DEF TypeOK, Free
  <2>3. \A v \in Threads \ {t} : req'[v] = req[v]
    BY <1>1, <1>5 DEF Publish, Finish, TypeOK
  <2>4. CASE Targets(req[t].task, i)
    BY <1>4, <2>2, <2>4 DEF Pursued
  <2>5. CASE \E v \in Threads \ {t} : req[v].op = "publish" /\ Targets(req[v].task, i)
    BY <1>4, <2>3, <2>5 DEF Pursued
  <2>6. CASE \E v \in Slots \ {s} : \/ job[v].pc = "pending" /\ Targets(job[v].task, i)
                                    \/ job[v].pc = "running" /\ i \in job[v].rows
    BY <1>4, <2>2, <2>6 DEF Pursued
  <2> QED BY <1>3, <2>2, <2>4, <2>5, <2>6 DEF Pursued
<1>6. ASSUME NEW s \in Slots, StartJob(s) PROVE Pursued(i)'
  <2>1. /\ job'[s].pc = "running" /\ job'[s].rows = JobTargets(job[s].task)
        /\ \A v \in Slots \ {s} : job'[v] = job[v]
        /\ UNCHANGED req /\ job[s].pc = "pending"
    BY <1>1, <1>6 DEF StartJob, TypeOK
  <2>2. ASSUME Targets(job[s].task, i) PROVE i \in job'[s].rows
    BY <1>2, <2>1, <2>2 DEF Targets, JobTargets, RowsOf, ShownBefore, Shown
  <2>3. Targets(job[s].task, i) => Pursued(i)'
    BY <2>1, <2>2 DEF Pursued
  <2> QED BY <1>1, <1>2, <1>3, <2>1, <2>3, JobMoves
<1>7. ASSUME NEW s \in Slots, AbandonJob(s) PROVE Pursued(i)'
  <2>1. /\ \A v \in Slots \ {s} : job'[v] = job[v]
        /\ UNCHANGED req /\ job[s].pc = "pending" /\ TargetGone(job[s].task)
        /\ job[s].task \in Task
    BY <1>1, <1>7, PendingLabel DEF AbandonJob, EndJob, TypeOK, Pending
  <2>2. ASSUME Targets(job[s].task, i) PROVE Live(job[s].task.user)
    <3>1. TaskLogged(job[s].task)
      BY <1>1, <2>1 DEF KeysAreLogged, JobLogged
    <3>2. job[s].task.user = repo[i].owner
      BY <1>2, <2>1, <2>2, <3>1, TaskLabel DEF Targets, TaskLogged, IsRecord, ShownBefore, Shown
    <3> QED BY <1>2, <3>2 DEF ShownBefore, Shown
  <2>3. ~Targets(job[s].task, i)
    BY <1>2, <2>1, <2>2 DEF TargetGone, Targets, ShownBefore, Shown
  <2> QED BY <1>1, <1>2, <1>3, <2>1, <2>3, JobMoves
<1>8. ASSUME NEW s \in Slots, CommitJob(s) PROVE Pursued(i)'
  <2>1. /\ \A v \in Slots \ {s} : job'[v] = job[v]
        /\ UNCHANGED req /\ job[s].pc = "running" /\ repo' = Without(job[s].rows)
    BY <1>1, <1>8 DEF CommitJob, EndJob, TypeOK
  <2>2. i \notin job[s].rows
    BY <2>1 DEF Without, Shown
  <2> QED BY <1>1, <1>2, <1>3, <2>1, <2>2, JobMoves
<1> QED BY <1>5, <1>6, <1>7, <1>8

LEMMA ProgressStep ==
    ASSUME Earlier, DeletionInProgress, [Next]_vars, JobsEnd
    PROVE  DeletionInProgress'
<1>1. TypeOK
  BY DEF Earlier, Before
<1>2. ASSUME NEW t \in Threads, NEW r, Begin(t, r) PROVE DeletionInProgress'
  <2>0. /\ req[t].op # "publish" /\ UNCHANGED job
        /\ req' = [req EXCEPT ![t] = r]
    BY <1>2 DEF Begin, Idle
  <2>1. Followed
    BY <1>1, <2>0, RequestMoves
  <2>2. repo' = repo
    BY <1>2 DEF Begin, db
  <2> QED BY <2>1, <2>2, ProgressKept DEF Shown
<1>3. ASSUME NEW t \in Threads, NewRequest(t) PROVE DeletionInProgress'
  BY <1>2, <1>3 DEF NewRequest, BeginDeleteRepo, BeginDeleteUser, BeginRefresh,
                    BeginSetStatus, BeginSetRoot
<1>4. ASSUME NEW t \in Threads, NEW r, req[t].op # "publish", UNCHANGED <<job, repo>>,
             req' = [req EXCEPT ![t] = r]
      PROVE  DeletionInProgress'
  <2>1. Followed
    BY <1>1, <1>4, RequestMoves
  <2> QED BY <1>4, <2>1, ProgressKept DEF Shown
<1>5. ASSUME NEW t \in Threads, RequestStep(t) PROVE DeletionInProgress'
  <2>1. CASE CommitDeleteRepo(t) \/ CommitDeleteUserData(t)
    BY <2>1, MarkingPublishes
  <2>2. CASE CommitDeleteUser(t)
    <3>1. Followed
      BY <1>1, <2>2, RequestMoves DEF CommitDeleteUser, Finish
    <3>2. repo' = Without(Ids(req[t].seen))
      BY <2>2 DEF CommitDeleteUser
    <3> QED BY <3>1, <3>2, OnlyRemoved, ProgressKept
  <2>3. CASE CommitSetStatus(t) \/ AbortCommit(t) \/ LeaveScan(t)
    BY <1>4, <2>3 DEF CommitSetStatus, AbortCommit, LeaveScan, Finish, db
  <2>4. CASE Publish(t)
    BY <2>4, PursuitHandedOn
  <2>5. ASSUME NEW p \in Paths, VisitPath(t, p) PROVE DeletionInProgress'
    <3>1. \A v \in Threads \ {t} : req'[v] = req[v]
      BY <1>1, <2>5 DEF VisitPath, TypeOK
    <3>2. Followed
      BY <2>5, <3>1 DEF Followed, VisitPath
    <3>3. repo' = repo
      BY <2>5 DEF VisitPath, db
    <3> QED BY <3>2, <3>3, ProgressKept DEF Shown
  <2>6. CASE CommitScan(t)
    <3>1. Followed
      BY <1>1, <2>6, RequestMoves DEF CommitScan, Finish
    <3>2. PICK n \in lastRow..MaxRow, gone \in SUBSET RowIds :
            \E ids \in [(lastRow + 1)..n -> Paths] : ScanEffect(n, gone, ids, req[t].user)
      BY <1>1, <2>6, ScanCommitted
    <3>3. PICK ids \in [(lastRow + 1)..n -> Paths] : ScanEffect(n, gone, ids, req[t].user)
      BY <3>2
    <3>4. ASSUME NEW i \in RowIds, Shown(i)' PROVE repo[i] # NoRow /\ repo[i].status = "deleting"
      <4>1. repo'[i] = IF i \in (lastRow + 1)..n
                       THEN [owner |-> req[t].user, path |-> ids[i], status |-> ""]
                       ELSE Without(gone)[i]
        BY <3>3 DEF ScanEffect
      <4>2. PICK row : row = [owner |-> req[t].user, path |-> ids[i], status |-> ""]
        OBVIOUS
      <4>3. row.status # "deleting"
        BY <4>2
      <4>4. repo'[i] = Without(gone)[i]
        BY <3>4, <4>1, <4>2, <4>3 DEF Shown
      <4> QED BY <3>4, <4>4 DEF Shown, Without
    <3> QED BY <3>1, <3>4, ProgressKept
  <2> QED BY <1>5, <2>1, <2>2, <2>3, <2>4, <2>5, <2>6 DEF RequestStep
<1>6. ASSUME NEW s \in Slots, NEW p \in Paths, UNCHANGED <<req, repo>>,
             job[s].pc = "running", job' = [job EXCEPT ![s].todo = @ \ {p}]
      PROVE  DeletionInProgress'
  <2>1. job[s] \in Running
    BY <1>1, <1>6, RunningLabel DEF TypeOK
  <2>2. /\ job'[s].pc = "running" /\ job'[s].rows = job[s].rows
        /\ \A v \in Slots \ {s} : job'[v] = job[v]
    BY <1>1, <1>6, <2>1 DEF Running, TypeOK
  <2>3. Followed
    BY <1>6, <2>2 DEF Followed
  <2> QED BY <1>6, <2>3, ProgressKept DEF Shown
<1>7. ASSUME NEW s \in Slots, JobStep(s) PROVE DeletionInProgress'
  <2>1. CASE StartJob(s) \/ AbandonJob(s) \/ CommitJob(s)
    BY <2>1, PursuitHandedOn
  <2>2. ASSUME NEW p \in Paths, RemoveTree(s, p) PROVE DeletionInProgress'
    BY <1>6, <2>2 DEF RemoveTree, db
  <2> QED BY <1>7, <2>1, <2>2 DEF JobStep, JobsEnd
<1>8. CASE Fault
  <2>1. ASSUME NEW t \in Threads, NEW p \in Paths, SkipUnreadable(t, p) PROVE DeletionInProgress'
    <3>1. \A v \in Threads \ {t} : req'[v] = req[v]
      BY <1>1, <2>1 DEF SkipUnreadable, TypeOK
    <3>2. Followed
      BY <2>1, <3>1 DEF Followed, SkipUnreadable
    <3>3. repo' = repo
      BY <2>1 DEF SkipUnreadable, db
    <3> QED BY <3>2, <3>3, ProgressKept DEF Shown
  <2>2. ASSUME NEW s \in Slots, NEW p \in Paths, RemoveTreeFails(s, p) PROVE DeletionInProgress'
    BY <1>6, <2>2 DEF RemoveTreeFails, db
  <2> QED BY <1>8, <2>1, <2>2 DEF Fault, JobsEnd
<1>9. ASSUME UNCHANGED <<req, job, repo>> PROVE DeletionInProgress'
  BY <1>9, ProgressKept DEF Followed, Shown
<1> QED BY <1>3, <1>5, <1>7, <1>8, <1>9 DEF Next, JobsEnd, AddUser, Backup, db, vars

LEMMA EarlierStep ==
    ASSUME TypeOK, KeysAreLogged, Noted, [Next]_vars
    PROVE  Earlier
<1>1. Before
  BY TypeStep, PersistentStep DEF Before, KeysAreLogged
<1> QED BY <1>1, StatusStep DEF Earlier

\* As long as the server is not stopped and no job's transaction fails, a record
\* shown as "Deletion in progress..." has a callback or a job that will delete it,
\* whatever else is requested, marked again, disabled or deleted meanwhile.
THEOREM InProgress == Spec /\ [][JobsEnd]_vars => []DeletionInProgress
<1>1. Init => Noted /\ DeletionInProgress
  <2> SUFFICES ASSUME Init PROVE Noted /\ DeletionInProgress
    OBVIOUS
  <2>1. AllRows = {} /\ \A t \in Threads : req[t] = Idle
    BY DEF Init, AllRows
  <2>2. RequestNoted(Idle)
    BY DEF RequestNoted, IsScan, Idle
  <2> QED BY <2>1, <2>2 DEF Noted, DeletionInProgress
<1>2. TypeOK /\ KeysAreLogged /\ Noted /\ [Next]_vars => Noted'
  BY EarlierStep, NotedStep
<1>3. TypeOK /\ KeysAreLogged /\ Noted /\ DeletionInProgress /\ [Next]_vars /\ [JobsEnd]_vars
         => DeletionInProgress'
  <2> SUFFICES ASSUME TypeOK, KeysAreLogged, Noted, DeletionInProgress, [Next]_vars, [JobsEnd]_vars
               PROVE  DeletionInProgress'
    OBVIOUS
  <2>1. Earlier
    BY EarlierStep
  <2>2. CASE UNCHANGED vars
    BY <2>1, <2>2, ProgressKept DEF vars, Followed, Shown
  <2>3. CASE JobsEnd
    BY <2>1, <2>3, ProgressStep
  <2> QED BY <2>2, <2>3
<1> QED BY <1>1, <1>2, <1>3, TypeInvariant, LoggedKeys, PTL DEF Spec

\* Without restarts and failing operations, where a user may be deleted while a
\* record of his remains, no job is lost.
COROLLARY InProgressWithoutFailures ==
    ASSUME MaxCrashes = 0, MaxFaults = 0, ~ForeignKeys
    PROVE  Spec => []DeletionInProgress
<1>1. TypeOK => JobsEnd
  BY DEF TypeOK, JobsEnd, Restart, JobCommitFails, RefusedJob, Deletable
<1> QED BY <1>1, TypeInvariant, InProgress, PTL
=============================================================================
