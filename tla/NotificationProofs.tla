------------------------- MODULE NotificationProofs -------------------------
(***************************************************************************)
(* Theorems about the two jobs of core/notification.py, for any number of  *)
(* repositories, settings, process ids and backups, every calendar and     *)
(* every period.  First RepoStatus: the types, that a status tells what    *)
(* happened, that removal keeps what the settings say.  Then               *)
(* ReportSchedule: the days a report is about.                             *)
(***************************************************************************)
EXTENDS RepoStatus, ReportSchedule, TLAPS, SequenceTheorems, FiniteSetTheorems, WellFoundedInduction

\* The files of a repository: the last backup is the newest of its statistics.
Files(r) ==
    /\ marks[r] \in Seq(Mark) /\ Len(marks[r]) <= 2
    /\ stats[r] \in Seq(Session) /\ Len(stats[r]) <= MaxIncrements
    /\ \A i \in DOMAIN marks[r] : marks[r][i].at <= now
    /\ marks[r] # <<>> => stats[r] # <<>> /\ stats[r][Len(stats[r])].at = marks[r][1].at

\* Its backup: its process runs, and its marker is the second one; without a backup
\* a second marker was left by one that did not end well.
AtWork(r) ==
    /\ backup[r] \in Mark \cup {NoBackup}
    /\ backup[r] # NoBackup =>
         /\ backup[r].pid \in running /\ ~interrupted[r] /\ backup[r].at <= now
         /\ Len(stats[r]) < MaxIncrements
         /\ marks[r] = <<>> \/ (Len(marks[r]) = 2 /\ marks[r][2] = backup[r])
    /\ backup[r] = NoBackup /\ Len(marks[r]) # 1 => interrupted[r]
    /\ interrupted[r] => Len(marks[r]) # 1

\* No two backups run under one process id.
Distinct ==
    \A r, q \in Repos : r # q /\ backup[r] # NoBackup /\ backup[q] # NoBackup =>
        backup[r].pid # backup[q].pid

\* A backup began or ended since the markers were listed.
Moved(seen) == "in_progress" \in seen /\ seen # {"in_progress"}

\* What the job has listed of a repository was so at some moment since, or a backup
\* moved the markers; and the marker of a backup that runs is not passed over.
Witness(j) ==
    LET r == j.repo IN
    /\ TrueHealth(r) \in j.seen
    /\ j.failed => "failed" \in j.seen
    /\ ~j.failed /\ Len(j.marks) = 0 => "in_progress" \in j.seen \/ "interrupted" \in j.seen
    /\ Len(j.marks) = 1 => "healthy" \in j.seen
    /\ Len(j.marks) = 2 =>
         \/ "interrupted" \in j.seen \/ Moved(j.seen)
         \/ backup[r] # NoBackup /\ backup[r] \in ToSet(j.todo) /\ "in_progress" \in j.seen
    /\ ToSet(j.todo) \subseteq ToSet(marks[r]) \/ Moved(j.seen)

JobFields(j) ==
    j = [pc |-> j.pc, left |-> j.left, bad |-> j.bad, repo |-> j.repo, marks |-> j.marks,
         todo |-> j.todo, stats |-> j.stats, failed |-> j.failed, seen |-> j.seen,
         status |-> j.status]

JobOK ==
    /\ job.pc \in {"idle", "next", "check", "mail"}
    /\ job.left \subseteq Repos /\ job.bad \subseteq Repos
    /\ job.pc = "check" => /\ JobFields(job) /\ job.repo \in Repos
                           /\ job.marks \in Seq(Mark) /\ Len(job.marks) <= 2 /\ job.todo \in Seq(Mark)
                           /\ job.status = "" => Witness(job)

Shape ==
    /\ now \in Times
    /\ settings \in [Repos -> Settings]
    /\ deleting \in [Repos -> BOOLEAN]
    /\ readable \in [Repos -> BOOLEAN]
    /\ interrupted \in [Repos -> BOOLEAN]
    /\ DOMAIN marks = Repos /\ DOMAIN stats = Repos /\ DOMAIN backup = Repos
    /\ running \subseteq Pids

IInv == Shape /\ (\A r \in Repos : Files(r) /\ AtWork(r)) /\ Distinct /\ JobOK

-----------------------------------------------------------------------------
LEMMA Bounds ==
    /\ PerDay \in Nat \ {0} /\ Horizon \in Nat /\ MaxIncrements \in Nat \ {0} /\ LastStart \in Nat
    /\ Activity \subseteq BOOLEAN
    /\ Settings \subseteq [maxage : Nat, inactivity : Nat, ignored : SUBSET (0..6), keepdays : Int]
BY BoundsAssumption, SettingsAssumption DEF BoundsAssumption, SettingsAssumption

LEMMA NoBackupIsNone == \A m \in Mark : m # NoBackup /\ m.at \in Nat /\ m.at <= Horizon /\ m.pid \in Pids
BY Bounds DEF Mark, Times, NoBackup

\* A list of at most two markers.
LEMMA Marks ==
    ASSUME NEW s \in Seq(Mark)
    PROVE  /\ Len(s) \in Nat /\ DOMAIN s = 1..Len(s)
           /\ \A i \in 1..Len(s) : s[i] \in Mark
           /\ s = <<>> <=> Len(s) = 0
OBVIOUS

LEMMA Sizes ==
    ASSUME NEW r \in Repos, Files(r)
    PROVE  /\ Len(marks[r]) \in {0, 1, 2} /\ DOMAIN marks[r] = 1..Len(marks[r])
           /\ \A i \in 1..Len(marks[r]) : marks[r][i] \in Mark
           /\ marks[r] = <<>> <=> Len(marks[r]) = 0
           /\ Len(stats[r]) \in Nat /\ DOMAIN stats[r] = 1..Len(stats[r])
           /\ \A i \in 1..Len(stats[r]) : stats[r][i] \in Session
           /\ stats[r] = <<>> <=> Len(stats[r]) = 0
<1>1. marks[r] \in Seq(Mark) /\ Len(marks[r]) <= 2 /\ stats[r] \in Seq(Session)
  BY DEF Files
<1>2. Len(marks[r]) \in Nat
  BY <1>1
<1>3. Len(marks[r]) \in {0, 1, 2}
  <2>1. \A n \in Nat : n <= 2 => n \in {0, 1, 2}
    OBVIOUS
  <2> QED BY <1>1, <1>2, <2>1
<1>4. /\ DOMAIN marks[r] = 1..Len(marks[r]) /\ \A i \in 1..Len(marks[r]) : marks[r][i] \in Mark
      /\ marks[r] = <<>> <=> Len(marks[r]) = 0
  BY <1>1
<1>5. /\ Len(stats[r]) \in Nat /\ DOMAIN stats[r] = 1..Len(stats[r])
      /\ \A i \in 1..Len(stats[r]) : stats[r][i] \in Session
      /\ stats[r] = <<>> <=> Len(stats[r]) = 0
  BY <1>1
<1> QED BY <1>3, <1>4, <1>5

LEMMA InvInit == ASSUME Init PROVE IInv
<1>1. PICK first \in [Repos -> Pids] :
           /\ \A r, q \in Repos : first[r] = first[q] => r = q
           /\ backup = [r \in Repos |-> [at |-> 0, pid |-> first[r]]]
           /\ running = {first[r] : r \in Repos}
  BY DEF Init
<1>2. Shape
  BY <1>1, Bounds DEF Init, Shape, Times
<1>3. ASSUME NEW r \in Repos
      PROVE  backup[r] \in Mark /\ backup[r].at = 0 /\ backup[r].pid = first[r] /\ first[r] \in running
  <2>1. backup[r] = [at |-> 0, pid |-> first[r]] /\ first[r] \in Pids /\ 0 \in Times
    BY <1>1, Bounds DEF Times
  <2> QED BY <1>1, <2>1 DEF Mark
<1>4. ASSUME NEW r \in Repos PROVE Files(r) /\ AtWork(r)
  <2>1. marks[r] = <<>> /\ stats[r] = <<>> /\ ~interrupted[r] /\ now = 0
    BY DEF Init
  <2>2. Len(marks[r]) = 0 /\ Len(stats[r]) = 0
    BY <2>1
  <2>3. <<>> \in Seq(Mark) /\ <<>> \in Seq(Session) /\ DOMAIN marks[r] = {}
    BY <2>1
  <2>4. backup[r] \in Mark /\ backup[r] # NoBackup /\ backup[r].pid \in running /\ backup[r].at <= now
    BY <1>3, <2>1, NoBackupIsNone
  <2> QED BY <2>1, <2>2, <2>3, <2>4, Bounds DEF Files, AtWork
<1>5. Distinct
  BY <1>1, <1>3 DEF Distinct
<1>6. JobOK
  BY DEF Init, JobOK, Idle
<1> QED BY <1>2, <1>4, <1>5, <1>6 DEF IInv

LEMMA TypeFrom == ASSUME IInv PROVE TypeOK
<1>1. \A r \in Repos : ToSet(marks[r]) \subseteq Mark /\ ToSet(stats[r]) \subseteq Session
  BY DEF IInv, Files, ToSet
<1> QED BY <1>1 DEF IInv, Shape, Files, AtWork, JobOK, TypeOK

\* What a step leaves as it is of a repository whose status is being computed.
Unmoved(r) ==
    /\ readable'[r] = readable[r] /\ marks'[r] = marks[r] /\ backup'[r] = backup[r]
    /\ interrupted'[r] = interrupted[r]

LEMMA UnmovedKeeps ==
    ASSUME JobOK, job' = job, job.pc = "check" => Unmoved(job.repo)
    PROVE  JobOK'
<1>1. job.pc = "check" => (TrueHealth(job.repo)' = TrueHealth(job.repo))
  BY DEF Unmoved, TrueHealth
<1>2. job.pc = "check" /\ Witness(job) => Witness(job)'
  BY <1>1 DEF Witness, Unmoved
<1> QED BY <1>2 DEF JobOK

\* What happens to the repository whose status is being computed is seen.
LEMMA SeeKeeps ==
    ASSUME JobOK, NEW r \in Repos, See(r),
           job.pc = "check" /\ job.repo # r => Unmoved(job.repo),
           \/ marks'[r] = marks[r]
           \/ TrueHealth(r) = "in_progress" /\ TrueHealth(r)' # "in_progress"
           \/ TrueHealth(r) # "in_progress" /\ TrueHealth(r)' = "in_progress",
           backup[r] # NoBackup => backup'[r] = backup[r] \/ TrueHealth(r)' # "in_progress"
    PROVE  JobOK'
<1>1. CASE ~(job.pc = "check" /\ job.repo = r)
  BY <1>1, UnmovedKeeps DEF See
<1>2. CASE job.pc = "check" /\ job.repo = r
  <2> DEFINE h == TrueHealth(r)'
  <2>1. job' = [job EXCEPT !.seen = job.seen \cup {h}]
    BY <1>2 DEF See
  <2> HIDE DEF h
  <2>2. JobFields(job)
    BY <1>2 DEF JobOK
  <2>3. /\ JobFields(job') /\ job'.pc = job.pc /\ job'.left = job.left /\ job'.bad = job.bad
        /\ job'.repo = job.repo /\ job'.marks = job.marks /\ job'.todo = job.todo
        /\ (job'.failed <=> job.failed) /\ job'.seen = job.seen \cup {h} /\ job'.status = job.status
    BY <2>1, <2>2 DEF JobFields
  <2>4. ASSUME Witness(job) PROVE Witness(job)'
    <3> DEFINE seen == job.seen \cup {h}
    <3>1. Moved(job.seen) => Moved(seen)
      BY DEF Moved
    <3>2. marks'[r] = marks[r] \/ Moved(seen)
      BY <1>2, <2>4 DEF Moved, Witness, h
    <3>3. backup[r] # NoBackup /\ "in_progress" \in job.seen => backup'[r] = backup[r] \/ Moved(seen)
      BY DEF Moved, h
    <3>4. TrueHealth(r)' \in seen
      BY DEF h
    <3>5. job'.seen = seen
      BY <2>3
    <3> HIDE DEF h
    <3>6. \A x : x \in job.seen => x \in seen
      OBVIOUS
    <3> HIDE DEF seen
    <3>7. job'.failed => "failed" \in seen
      BY <2>3, <2>4, <3>6 DEF Witness
    <3>8. ~job'.failed /\ Len(job'.marks) = 0 => "in_progress" \in seen \/ "interrupted" \in seen
      BY <2>3, <2>4, <3>6 DEF Witness
    <3>9. Len(job'.marks) = 1 => "healthy" \in seen
      BY <2>3, <2>4, <3>6 DEF Witness
    <3>10. Len(job'.marks) = 2 =>
             \/ "interrupted" \in seen \/ Moved(seen)
             \/ backup'[r] # NoBackup /\ backup'[r] \in ToSet(job'.todo) /\ "in_progress" \in seen
      BY <1>2, <2>3, <2>4, <3>1, <3>3, <3>6 DEF Witness
    <3>11. ToSet(job'.todo) \subseteq ToSet(marks'[r]) \/ Moved(seen)
      BY <1>2, <2>3, <2>4, <3>1, <3>2 DEF Witness
    <3> QED BY <1>2, <2>3, <3>4, <3>5, <3>7, <3>8, <3>9, <3>10, <3>11 DEF Witness
  <2> QED BY <1>2, <2>3, <2>4 DEF JobOK
<1> QED BY <1>1, <1>2

\* A repository of which nothing changes.
LEMMA Others ==
    ASSUME NEW q \in Repos, Files(q), AtWork(q), now' = now,
           marks'[q] = marks[q], stats'[q] = stats[q], backup'[q] = backup[q],
           interrupted'[q] = interrupted[q],
           backup[q] # NoBackup /\ backup[q].pid \in running => backup[q].pid \in running'
    PROVE  Files(q)' /\ AtWork(q)'
BY DEF Files, AtWork

-----------------------------------------------------------------------------
LEMMA TickStep == ASSUME IInv, Tick PROVE IInv'
<1>1. now' = now + 1 /\ now < Horizon /\ now \in Nat /\ job.pc = "idle"
      /\ UNCHANGED <<settings, deleting, files, backup, interrupted, running, job>>
  BY Bounds DEF Tick, IInv, Shape, Times
<1>2. Shape' /\ Distinct' /\ JobOK'
  <2>1. Shape' /\ Distinct'
    BY <1>1, Bounds DEF IInv, Shape, Distinct, Times, files
  <2>2. JobOK'
    BY <1>1, UnmovedKeeps DEF IInv
  <2> QED BY <2>1, <2>2
<1>3. ASSUME NEW r \in Repos PROVE Files(r)' /\ AtWork(r)'
  <2>1. Files(r) /\ AtWork(r)
    BY DEF IInv
  <2>2. \A i \in DOMAIN marks[r] : marks[r][i].at <= now + 1
    <3>1. \A i \in DOMAIN marks[r] : marks[r][i].at <= now /\ marks[r][i] \in Mark
      BY <2>1 DEF Files
    <3> QED BY <1>1, <3>1, NoBackupIsNone
  <2>3. backup[r] # NoBackup => backup[r].at <= now + 1
    BY <1>1, <2>1, NoBackupIsNone DEF AtWork
  <2> QED BY <1>1, <2>1, <2>2, <2>3 DEF Files, AtWork, files
<1> QED BY <1>2, <1>3 DEF IInv

LEMMA StartStep ==
    ASSUME IInv, NEW r \in Repos, NEW p \in Pids, StartBackup(r, p)
    PROVE  IInv'
<1> DEFINE m == [at |-> now, pid |-> p]
<1>1. /\ backup[r] = NoBackup /\ p \notin running /\ readable[r]
      /\ Len(stats[r]) < MaxIncrements
      /\ backup' = [backup EXCEPT ![r] = m] /\ running' = running \cup {p}
      /\ marks' = [marks EXCEPT ![r] = Marked(@, m)]
      /\ interrupted' = [interrupted EXCEPT ![r] = FALSE]
      /\ See(r)
      /\ UNCHANGED <<now, settings, deleting, readable, stats>>
  BY DEF StartBackup
<1>2. Shape /\ Files(r) /\ AtWork(r) /\ Distinct /\ JobOK
  BY DEF IInv
<1>3. m \in Mark /\ m # NoBackup /\ m.pid = p /\ m.at = now
  BY <1>2, NoBackupIsNone DEF Shape, Mark
<1> HIDE DEF m
<1>4. Shape'
  BY <1>1, <1>2 DEF Shape
<1>5. marks'[r] = Marked(marks[r], m) /\ backup'[r] = m /\ interrupted'[r] = FALSE
      /\ \A q \in Repos \ {r} : /\ marks'[q] = marks[q] /\ backup'[q] = backup[q]
                                /\ interrupted'[q] = interrupted[q]
  BY <1>1, <1>2 DEF Shape
<1>6. Files(r)' /\ AtWork(r)'
  <2>1. CASE marks[r] = <<>>
    <3>1. marks'[r] = marks[r] /\ stats'[r] = stats[r] /\ now <= now
      BY <1>1, <1>2, <1>5, <2>1, Bounds DEF Marked, Shape, Times
    <3>2. Files(r)'
      BY <1>1, <1>2, <3>1 DEF Files
    <3> QED BY <1>1, <1>3, <1>5, <2>1, <3>1, <3>2 DEF AtWork
  <2>2. CASE marks[r] # <<>>
    <3>1. marks'[r] = <<marks[r][1], m>>
      BY <1>5, <2>2 DEF Marked
    <3>2. marks[r][1] \in Mark /\ marks[r][1].at <= now
      <4>1. 1 \in DOMAIN marks[r]
        BY <1>2, <2>2, Marks DEF Files
      <4> QED BY <1>2, <4>1 DEF Files
    <3>3. /\ marks'[r] \in Seq(Mark) /\ Len(marks'[r]) = 2 /\ DOMAIN marks'[r] = {1, 2}
          /\ marks'[r][1] = marks[r][1] /\ marks'[r][2] = m /\ marks'[r] # <<>>
      BY <1>3, <3>1, <3>2
    <3>4. \A i \in DOMAIN marks'[r] : marks'[r][i].at <= now
      <4>1. now <= now
        BY <1>2, Bounds DEF Shape, Times
      <4> QED BY <1>3, <3>2, <3>3, <4>1
    <3>5. now <= now
      BY <1>2, Bounds DEF Shape, Times
    <3>6. Files(r)'
      <4>1. stats'[r] = stats[r] /\ now' = now
        BY <1>1
      <4>2. stats[r] # <<>> /\ stats[r][Len(stats[r])].at = marks[r][1].at
            /\ stats[r] \in Seq(Session) /\ Len(stats[r]) <= MaxIncrements
        BY <1>2, <2>2 DEF Files
      <4> QED BY <3>3, <3>4, <4>1, <4>2 DEF Files
    <3>7. AtWork(r)'
      BY <1>1, <1>3, <1>5, <3>3, <3>5 DEF AtWork
    <3> QED BY <3>6, <3>7
  <2> QED BY <2>1, <2>2
<1>7. ASSUME NEW q \in Repos \ {r} PROVE Files(q)' /\ AtWork(q)'
  BY <1>1, <1>5, Others DEF IInv
<1>8. Distinct'
  <2>1. \A q \in Repos \ {r} : backup[q] # NoBackup => backup[q].pid # p
    BY <1>1 DEF IInv, AtWork
  <2> QED BY <1>2, <1>3, <1>5, <2>1 DEF Distinct
<1>9. JobOK'
  <2>1. ASSUME job.pc = "check", job.repo # r PROVE Unmoved(job.repo)
    <3>1. job.repo \in Repos \ {r}
      BY <1>2, <2>1 DEF JobOK
    <3> QED BY <1>1, <1>5, <3>1 DEF Unmoved
  <2>2. TrueHealth(r) # "in_progress" /\ TrueHealth(r)' = "in_progress"
    BY <1>1, <1>3, <1>5 DEF TrueHealth
  <2> QED BY <1>1, <1>2, <2>1, <2>2, SeeKeeps
<1> QED BY <1>4, <1>6, <1>7, <1>8, <1>9 DEF IInv

\* The end of a backup, whether it succeeds or not.
LEMMA EndStep ==
    ASSUME IInv, NEW r \in Repos, CrashBackup(r) \/ \E active \in Activity : EndBackup(r, active)
    PROVE  IInv'
<1>1. /\ backup[r] # NoBackup /\ running' = running \ {backup[r].pid}
      /\ backup' = [backup EXCEPT ![r] = NoBackup]
      /\ See(r)
      /\ UNCHANGED <<now, settings, deleting, readable>>
  BY DEF CrashBackup, EndBackup, files
<1>2. Shape /\ Files(r) /\ AtWork(r) /\ Distinct /\ JobOK
  BY DEF IInv
<1>3. backup[r] \in Mark /\ backup'[r] = NoBackup /\ \A q \in Repos \ {r} : backup'[q] = backup[q]
  BY <1>1, <1>2 DEF Shape, AtWork
<1>4. /\ Shape'
      /\ \A q \in Repos \ {r} : /\ marks'[q] = marks[q] /\ stats'[q] = stats[q]
                                /\ interrupted'[q] = interrupted[q]
  BY <1>1, <1>2 DEF CrashBackup, EndBackup, Shape, files
<1>5. Files(r)' /\ AtWork(r)'
  <2>1. CASE CrashBackup(r)
    <3>1. marks' = marks /\ stats' = stats /\ interrupted'[r] = TRUE
      BY <1>2, <2>1 DEF CrashBackup, Shape, files
    <3>2. Len(marks[r]) # 1
      <4>1. marks[r] = <<>> <=> Len(marks[r]) = 0
        BY <1>2, Sizes
      <4> QED BY <1>1, <1>2, <4>1 DEF AtWork
    <3> QED BY <1>1, <1>2, <1>3, <3>1, <3>2 DEF Files, AtWork
  <2>2. ASSUME NEW active \in Activity, EndBackup(r, active) PROVE Files(r)' /\ AtWork(r)'
    <3> DEFINE s == [at |-> backup[r].at, active |-> active]
    <3>1. /\ marks'[r] = <<backup[r]>> /\ stats'[r] = Append(stats[r], s)
          /\ interrupted'[r] = interrupted[r]
      BY <1>2, <2>2 DEF EndBackup, Shape
    <3>2. s \in Session /\ s.at = backup[r].at
      BY <1>3, Bounds DEF Session, Mark
    <3> HIDE DEF s
    <3>3. /\ stats[r] \in Seq(Session) /\ Len(stats[r]) \in Nat /\ Len(stats[r]) < MaxIncrements
          /\ ~interrupted[r] /\ backup[r].at <= now
      BY <1>1, <1>2 DEF AtWork, Files
    <3>4. /\ stats'[r] \in Seq(Session) /\ Len(stats'[r]) = Len(stats[r]) + 1
          /\ stats'[r][Len(stats[r]) + 1] = s /\ stats'[r] # <<>>
      BY <3>1, <3>2, <3>3
    <3>5. /\ marks'[r] \in Seq(Mark) /\ Len(marks'[r]) = 1 /\ DOMAIN marks'[r] = {1}
          /\ marks'[r][1] = backup[r]
      BY <1>3, <3>1
    <3>6. Len(stats'[r]) <= MaxIncrements
      BY <3>3, <3>4, Bounds
    <3> QED BY <1>1, <1>3, <3>1, <3>2, <3>3, <3>4, <3>5, <3>6 DEF Files, AtWork
  <2> QED BY <2>1, <2>2
<1>6. ASSUME NEW q \in Repos \ {r} PROVE Files(q)' /\ AtWork(q)'
  <2>1. backup[q] # NoBackup => backup[q].pid # backup[r].pid
    BY <1>1, <1>2 DEF Distinct
  <2> QED BY <1>1, <1>3, <1>4, <2>1, Others DEF IInv
<1>7. Distinct'
  BY <1>2, <1>3 DEF Distinct
<1>8. JobOK'
  <2>1. ASSUME job.pc = "check", job.repo # r PROVE Unmoved(job.repo)
    <3>1. job.repo \in Repos \ {r}
      BY <1>2, <2>1 DEF JobOK
    <3> QED BY <1>1, <1>3, <1>4, <3>1 DEF Unmoved
  <2>2. TrueHealth(r)' # "in_progress"
    BY <1>3 DEF TrueHealth
  <2>3. marks'[r] = marks[r] \/ TrueHealth(r) = "in_progress"
    BY <1>1 DEF CrashBackup, EndBackup, TrueHealth, files
  <2> QED BY <1>1, <1>2, <2>1, <2>2, <2>3, SeeKeeps
<1> QED BY <1>4, <1>5, <1>6, <1>7, <1>8 DEF IInv

LEMMA ProcessStep == ASSUME IInv, NEW p \in Pids, OtherProcess(p) PROVE IInv'
<1>1. /\ \A r \in Repos : backup[r] # NoBackup => backup[r].pid # p
      /\ running' = SymDiff(running, {p}) /\ job' = job
      /\ UNCHANGED <<now, settings, deleting, readable, marks, stats, backup, interrupted>>
  BY DEF OtherProcess, files
<1>2. Shape /\ Distinct /\ JobOK
  BY DEF IInv
<1>3. \A x : x # p => (x \in running' <=> x \in running)
  BY <1>1 DEF SymDiff
<1>4. Shape' /\ Distinct'
  <2>1. running' \subseteq Pids
    BY <1>1, <1>2 DEF Shape, SymDiff
  <2> QED BY <1>1, <1>2, <2>1 DEF Shape, Distinct
<1>5. ASSUME NEW q \in Repos PROVE Files(q)' /\ AtWork(q)'
  BY <1>1, <1>3, Others DEF IInv
<1>6. JobOK'
  BY <1>1, <1>2, UnmovedKeeps DEF Unmoved
<1> QED BY <1>4, <1>5, <1>6 DEF IInv

\* Settings, deletions and access: nothing of the backups changes.
LEMMA ServerStep ==
    ASSUME IInv, NEW r \in Repos,
           \/ ChangeAccess(r) \/ ScheduleDelete(r)
           \/ \E c \in Settings, maintainer \in BOOLEAN :
                SaveSettings(r, c, maintainer) \/ \E given \in Given : PostSettings(r, given, c, maintainer)
    PROVE  IInv'
<1>1. /\ UNCHANGED <<now, marks, stats, backup, interrupted, running>>
      /\ See(r) \/ (job' = job /\ readable' = readable)
      /\ settings' \in [Repos -> Settings] /\ deleting' \in [Repos -> BOOLEAN]
      /\ readable' \in [Repos -> BOOLEAN] /\ \A q \in Repos \ {r} : readable'[q] = readable[q]
  <2>1. CASE ChangeAccess(r) \/ ScheduleDelete(r)
    BY <2>1 DEF ChangeAccess, ScheduleDelete, files, IInv, Shape
  <2>2. ASSUME NEW c \in Settings, NEW maintainer \in BOOLEAN, SaveSettings(r, c, maintainer)
        PROVE  /\ UNCHANGED <<now, deleting, files, backup, interrupted, running, job>>
               /\ settings' \in [Repos -> Settings]
    BY <2>2 DEF SaveSettings, IInv, Shape
  <2>3. CASE \E c \in Settings, maintainer \in BOOLEAN : SaveSettings(r, c, maintainer)
    BY <2>2, <2>3 DEF files, IInv, Shape
  <2>4. CASE \E c \in Settings, maintainer \in BOOLEAN : \E given \in Given : PostSettings(r, given, c, maintainer)
    BY <2>2, <2>4 DEF PostSettings, files, IInv, Shape
  <2> QED BY <2>1, <2>3, <2>4
<1>2. Shape' /\ Distinct'
  BY <1>1 DEF IInv, Shape, Distinct
<1>3. ASSUME NEW q \in Repos PROVE Files(q)' /\ AtWork(q)'
  BY <1>1, Others DEF IInv
<1>4. JobOK'
  <2>1. ASSUME job.pc = "check", job.repo # r PROVE Unmoved(job.repo)
    BY <1>1, <2>1 DEF Unmoved, IInv, JobOK
  <2>2. CASE See(r)
    BY <1>1, <2>1, <2>2, SeeKeeps DEF IInv
  <2>3. CASE job' = job /\ readable' = readable
    BY <1>1, <2>3, UnmovedKeeps DEF IInv, Unmoved
  <2> QED BY <1>1, <2>2, <2>3
<1> QED BY <1>2, <1>3, <1>4 DEF IInv

\* The end of a list, without its first n elements.
LEMMA Ending ==
    ASSUME NEW S, NEW s \in Seq(S), NEW n \in 1..(Len(s) - 1)
    PROVE  LET e == SubSeq(s, n + 1, Len(s)) IN
           /\ e \in Seq(S) /\ Len(e) = Len(s) - n /\ e[Len(e)] = s[Len(s)]
           /\ \A i \in 1..(Len(s) - n) : e[i] = s[i + n]
<1> DEFINE e == SubSeq(s, n + 1, Len(s))
<1>1. Len(s) \in Nat /\ n \in Nat /\ n + 1 \in 1..Len(s) /\ Len(s) - n \in Nat \ {0}
  BY LenProperties
<1>2. e \in Seq(S)
  BY <1>1, SubSeqProperties
<1>3. Len(e) = Len(s) - n
  BY <1>1, SubSeqProperties
<1>4. ASSUME NEW i \in 1..(Len(s) - n) PROVE e[i] = s[i + n]
  BY <1>1, SubSeqProperties
<1>5. e[Len(e)] = s[Len(s)]
  <2>1. Len(s) - n \in 1..(Len(s) - n) /\ (Len(s) - n) + n = Len(s)
    BY <1>1
  <2> HIDE DEF e
  <2> QED BY <1>3, <1>4, <2>1
<1> QED BY <1>2, <1>3, <1>4, <1>5

\* What is removed is a beginning of the statistics, never the last.
LEMMA Removal ==
    ASSUME IInv, NEW r \in Repos, RemoveOlder(r)
    PROVE  \E n \in 1..(Len(stats[r]) - 1) :
              /\ \A i \in 1..n : ~Kept(r, stats[r][i])
              /\ stats' = [stats EXCEPT ![r] = SubSeq(stats[r], n + 1, Len(stats[r]))]
<1>1. PICK n \in DOMAIN stats[r] :
           /\ \A i \in DOMAIN stats[r] : Kept(r, stats[r][i]) <=> i > n
           /\ stats' = [stats EXCEPT ![r] = SubSeq(@, n + 1, Len(@))]
  BY DEF RemoveOlder
<1>2. Files(r) /\ DOMAIN stats = Repos /\ Len(marks[r]) = 1
  BY DEF IInv, Shape, RemoveOlder
<1>3. /\ DOMAIN stats[r] = 1..Len(stats[r]) /\ Len(stats[r]) \in Nat
      /\ marks[r] # <<>> /\ stats[r] # <<>>
  <2>1. marks[r] = <<>> <=> Len(marks[r]) = 0
    BY <1>2, Sizes
  <2>2. marks[r] # <<>>
    BY <1>2, <2>1
  <2> QED BY <1>2, <2>2, Sizes DEF Files
<1>4. Len(stats[r]) \in DOMAIN stats[r] /\ stats[r][Len(stats[r])].at = LastBackupDate(marks[r])
  <2>1. Len(stats[r]) # 0
    BY <1>2, <1>3, Sizes
  <2>2. LastBackupDate(marks[r]) = marks[r][1].at
    BY <1>2, <1>3 DEF LastBackupDate, Last
  <2> QED BY <1>2, <1>3, <2>1, <2>2 DEF Files
<1>5. Len(stats[r]) > n
  BY <1>1, <1>4 DEF Kept
<1>6. n \in 1..(Len(stats[r]) - 1) /\ \A i \in 1..n : i \in DOMAIN stats[r] /\ ~(i > n)
  BY <1>1, <1>3, <1>5
<1> QED BY <1>1, <1>6

LEMMA RemoveStep == ASSUME IInv, NEW r \in Repos, RemoveOlder(r) PROVE IInv'
<1>1. PICK n \in 1..(Len(stats[r]) - 1) : stats' = [stats EXCEPT ![r] = SubSeq(stats[r], n + 1, Len(stats[r]))]
  BY Removal
<1>2. /\ job' = job /\ backup[r] = NoBackup /\ Len(marks[r]) = 1
      /\ UNCHANGED <<now, settings, deleting, readable, marks, backup, interrupted, running>>
  BY DEF RemoveOlder
<1>3. Shape /\ Files(r) /\ AtWork(r) /\ Distinct /\ JobOK
  BY DEF IInv
<1>4. Shape' /\ Distinct' /\ \A q \in Repos \ {r} : stats'[q] = stats[q]
  BY <1>1, <1>2, <1>3 DEF Shape, Distinct
<1>5. Files(r)' /\ AtWork(r)'
  <2>1. stats'[r] = SubSeq(stats[r], n + 1, Len(stats[r]))
    BY <1>1, <1>3 DEF Shape
  <2>2. stats[r] \in Seq(Session) /\ Len(stats[r]) \in Nat /\ Len(stats[r]) <= MaxIncrements
    BY <1>3 DEF Files
  <2>3. /\ stats'[r] \in Seq(Session) /\ Len(stats'[r]) = Len(stats[r]) - n
        /\ stats'[r][Len(stats'[r])] = stats[r][Len(stats[r])]
    BY <2>1, <2>2, Ending
  <2>4. Len(stats'[r]) <= MaxIncrements /\ stats'[r] # <<>>
    <3>1. Len(stats'[r]) \in Nat \ {0}
      BY <2>2, <2>3
    <3> QED BY <2>2, <2>3, <3>1, Bounds
  <2> QED BY <1>2, <1>3, <2>3, <2>4 DEF Files, AtWork
<1>6. ASSUME NEW q \in Repos \ {r} PROVE Files(q)' /\ AtWork(q)'
  BY <1>2, <1>4, Others DEF IInv
<1>7. JobOK'
  BY <1>2, <1>3, UnmovedKeeps DEF Unmoved
<1> QED BY <1>4, <1>5, <1>6, <1>7 DEF IInv

-----------------------------------------------------------------------------
(***************************************************************************)
(* The job                                                                 *)
(***************************************************************************)
\* Every step of the job leaves the rest alone.
LEMMA JobAlone ==
    ASSUME IInv, UNCHANGED <<now, settings, deleting, files, backup, interrupted, running>>, JobOK'
    PROVE  IInv'
BY DEF IInv, Shape, Files, AtWork, Distinct, files

LEMMA Decided ==
    ASSUME JobOK, NEW r, r \in Repos, NEW status, Decide(r, status)
    PROVE  JobOK'
BY DEF JobOK, Decide

LEMMA ListStep ==
    ASSUME IInv, NEW r \in Repos, ListEntries(r)
    PROVE  JobOK'
<1>1. CASE deleting[r]
  BY <1>1, Decided DEF ListEntries, IInv
<1>2. CASE ~deleting[r]
  <2> DEFINE ms == IF readable[r] THEN marks[r] ELSE <<>>
             h == TrueHealth(r)
  <2>1. job' = [pc |-> "check", left |-> job.left, bad |-> job.bad, repo |-> r,
                marks |-> ms, todo |-> ms, stats |-> stats[r], failed |-> ~readable[r],
                seen |-> {h}, status |-> ""]
        /\ UNCHANGED <<readable, marks, backup, interrupted>>
    BY <1>2 DEF ListEntries, files
  <2>2. /\ Files(r) /\ AtWork(r) /\ readable[r] \in BOOLEAN
        /\ Len(marks[r]) \in {0, 1, 2} /\ (marks[r] = <<>> <=> Len(marks[r]) = 0)
    BY Sizes DEF IInv, Shape
  <2>3. /\ ms \in Seq(Mark) /\ Len(ms) <= 2 /\ ToSet(ms) \subseteq ToSet(marks[r])
        /\ backup[r] # NoBackup /\ Len(ms) = 2 => backup[r] \in ToSet(ms)
    <3>1. CASE readable[r]
      <4>1. backup[r] # NoBackup /\ Len(marks[r]) = 2 => 2 \in DOMAIN marks[r] /\ marks[r][2] = backup[r]
        BY <2>2, Marks DEF Files, AtWork
      <4> QED BY <2>2, <3>1, <4>1 DEF ToSet, Files
    <3>2. CASE ~readable[r]
      <4>1. <<>> \in Seq(Mark) /\ Len(<<>>) = 0 /\ ToSet(<<>>) = {}
        BY DEF ToSet
      <4>2. ms = <<>>
        BY <3>2
      <4> HIDE DEF ms
      <4>3. ms \in Seq(Mark) /\ Len(ms) = 0 /\ ToSet(ms) = {}
        BY <4>1, <4>2
      <4> QED BY <4>3
    <3> QED BY <2>2, <3>1, <3>2
  <2>4. ~readable[r] => h = "failed"
    BY DEF TrueHealth
  <2>5. readable[r] /\ Len(ms) = 0 => h \in {"in_progress", "interrupted"}
    BY <2>2 DEF TrueHealth, AtWork
  <2>6. Len(ms) = 1 => h = "healthy"
    <3>1. Len(ms) = 1 => readable[r] /\ Len(marks[r]) = 1
      <4>1. Len(<<>>) = 0
        OBVIOUS
      <4> QED BY <4>1
    <3>2. Len(marks[r]) = 1 => backup[r] = NoBackup /\ ~interrupted[r]
      BY <2>2 DEF AtWork
    <3> QED BY <3>1, <3>2 DEF TrueHealth
  <2>7. Len(ms) = 2 => h = "interrupted" \/ (backup[r] # NoBackup /\ backup[r] \in ToSet(ms) /\ h = "in_progress")
    <3>1. Len(ms) = 2 => readable[r] /\ Len(marks[r]) = 2
      <4>1. Len(<<>>) = 0
        OBVIOUS
      <4> QED BY <4>1
    <3> HIDE DEF ms
    <3>2. readable[r] /\ backup[r] # NoBackup => h = "in_progress"
      BY DEF TrueHealth
    <3>3. readable[r] /\ backup[r] = NoBackup /\ Len(marks[r]) = 2 => h = "interrupted"
      BY <2>2 DEF TrueHealth, AtWork
    <3> HIDE DEF h
    <3> QED BY <2>3, <3>1, <3>2, <3>3
  <2>8. TrueHealth(r)' = h
    BY <2>1 DEF TrueHealth
  <2> HIDE DEF ms, h
  <2>9. /\ JobFields(job') /\ job'.pc = "check" /\ job'.left = job.left /\ job'.bad = job.bad
        /\ job'.repo = r /\ job'.marks = ms /\ job'.todo = ms /\ (job'.failed <=> ~readable[r])
        /\ job'.seen = {h} /\ job'.status = ""
    BY <2>1 DEF JobFields
  <2>10. Witness(job)'
    <3>1. ~job'.failed => readable[r]
      BY <2>2, <2>9
    <3> QED BY <2>1, <2>3, <2>4, <2>5, <2>6, <2>7, <2>8, <2>9, <3>1 DEF Witness
  <2> QED BY <2>3, <2>9, <2>10 DEF IInv, JobOK
<1> QED BY <1>1, <1>2

LEMMA HeadAndTail ==
    ASSUME NEW S, NEW s \in Seq(S), s # <<>>
    PROVE  Head(s) \in S /\ Tail(s) \in Seq(S) /\ ToSet(s) = {Head(s)} \cup ToSet(Tail(s))
<1>1. /\ Tail(s) \in Seq(S) /\ Len(Tail(s)) = Len(s) - 1 /\ Head(s) \in S /\ Head(s) = s[1]
      /\ \A i \in 1..Len(Tail(s)) : Tail(s)[i] = s[i + 1]
      /\ Len(s) \in Nat \ {0}
  BY EmptySeq, HeadTailProperties
<1>2. ToSet(s) = {s[i] : i \in 1..Len(s)} /\ ToSet(Tail(s)) = {Tail(s)[i] : i \in 1..Len(Tail(s))}
  BY <1>1, LenProperties DEF ToSet
<1>3. ASSUME NEW x \in ToSet(s) PROVE x \in {Head(s)} \cup ToSet(Tail(s))
  <2>1. PICK i \in 1..Len(s) : x = s[i]
    BY <1>2
  <2>2. CASE i = 1
    BY <1>1, <2>1, <2>2
  <2>3. CASE i # 1
    <3>1. i - 1 \in 1..Len(Tail(s)) /\ (i - 1) + 1 = i
      BY <1>1, <2>1, <2>3
    <3>2. Tail(s)[i - 1] = x
      BY <1>1, <2>1, <3>1
    <3> QED BY <1>2, <3>1, <3>2
  <2> QED BY <2>2, <2>3
<1>4. ASSUME NEW x \in ToSet(Tail(s)) PROVE x \in ToSet(s)
  <2>1. PICK i \in 1..Len(Tail(s)) : x = Tail(s)[i]
    BY <1>2
  <2>2. i + 1 \in 1..Len(s) /\ x = s[i + 1]
    BY <1>1, <2>1
  <2> QED BY <1>2, <2>2
<1>5. Head(s) \in ToSet(s)
  BY <1>1, <1>2
<1> QED BY <1>1, <1>3, <1>4, <1>5

\* A status is told of what was seen.
Tells(j, status) ==
    LET told == Health(status) IN
    \/ told \in j.seen
    \/ told \in {"failed", "interrupted"} /\ Moved(j.seen)
    \/ /\ told = "in_progress"
       /\ \/ \E m \in ToSet(j.todo) : m.pid \in running
          \/ j.marks = <<>> /\ "interrupted" \in j.seen

\* A job that only learns a status.
LEMMA FoundKeeps ==
    ASSUME JobOK, job.pc = "check", NEW status, status # "", Found(status)
    PROVE  JobOK' /\ job'.status = status
<1>1. job' = [job EXCEPT !.status = status] /\ JobFields(job)
  BY DEF Found, JobOK
<1>2. /\ JobFields(job') /\ job'.pc = "check" /\ job'.left = job.left /\ job'.bad = job.bad
      /\ job'.repo = job.repo /\ job'.todo = job.todo /\ job'.marks = job.marks /\ job'.status = status
  BY <1>1 DEF JobFields
<1> QED BY <1>2 DEF JobOK

LEMMA CheckStep ==
    ASSUME IInv, CheckMark
    PROVE  JobOK' /\ (job'.status # "" => Tells(job, job'.status))
<1>1. /\ job.pc = "check" /\ job.status = "" /\ job.todo # <<>>
      /\ UNCHANGED <<readable, marks, backup, interrupted, running>>
  BY DEF CheckMark, files
<1>2. /\ JobOK /\ JobFields(job) /\ job.repo \in Repos /\ job.todo \in Seq(Mark) /\ Witness(job)
      /\ job.marks \in Seq(Mark) /\ Len(job.marks) <= 2
  BY <1>1 DEF IInv, JobOK
<1> PICK r \in Repos : r = job.repo
  BY <1>2
<1> DEFINE m == Head(job.todo)
<1>3. m \in ToSet(job.todo) /\ m \in Mark
  <2>1. Head(job.todo) \in Mark /\ ToSet(job.todo) = {Head(job.todo)} \cup ToSet(Tail(job.todo))
    BY <1>1, <1>2, HeadAndTail
  <2> QED BY <2>1
<1>4. Files(r) /\ AtWork(r) /\ readable[r] \in BOOLEAN
  BY <1>2 DEF IInv, Shape
<1>5. CASE m \notin ToSet(marks[r]) \/ ~readable[r]
  <2>1. Found("failed")
    BY <1>1, <1>5 DEF CheckMark
  <2>2. "failed" \in job.seen \/ Moved(job.seen)
    <3>1. CASE ~readable[r]
      <4>1. TrueHealth(r) = "failed"
        BY <3>1 DEF TrueHealth
      <4> QED BY <1>2, <4>1 DEF Witness
    <3>2. CASE m \notin ToSet(marks[r])
      BY <1>2, <1>3, <3>2 DEF Witness
    <3> QED BY <1>5, <3>1, <3>2
  <2>3. Tells(job, "failed")
    BY <2>2 DEF Tells, Health
  <2>4. JobOK' /\ job'.status = "failed"
    BY <1>1, <1>2, <2>1, FoundKeeps
  <2> QED BY <2>3, <2>4
<1>6. CASE m \in ToSet(marks[r]) /\ readable[r] /\ m.pid \in running
  <2>1. Found("in_progress")
    BY <1>1, <1>6 DEF CheckMark
  <2>2. Tells(job, "in_progress")
    BY <1>3, <1>6 DEF Tells, Health
  <2>3. JobOK' /\ job'.status = "in_progress"
    BY <1>1, <1>2, <2>1, FoundKeeps
  <2> QED BY <2>2, <2>3
<1>7. CASE m \in ToSet(marks[r]) /\ readable[r] /\ m.pid \notin running
  <2>1. job' = [job EXCEPT !.todo = Tail(@)]
    BY <1>1, <1>7 DEF CheckMark
  <2>2. /\ JobFields(job') /\ job'.pc = "check" /\ job'.left = job.left /\ job'.bad = job.bad
        /\ job'.repo = r /\ job'.todo = Tail(job.todo) /\ job'.seen = job.seen
        /\ job'.marks = job.marks /\ (job'.failed <=> job.failed) /\ job'.status = ""
    BY <1>1, <1>2, <2>1 DEF JobFields
  <2>3. Tail(job.todo) \in Seq(Mark) /\ ToSet(job.todo) = {m} \cup ToSet(Tail(job.todo))
    BY <1>1, <1>2, HeadAndTail
  <2>4. backup[r] # NoBackup => backup[r] # m
    BY <1>4, <1>7 DEF AtWork
  <2>5. TrueHealth(r)' = TrueHealth(r)
    BY <1>1 DEF TrueHealth
  <2>6. Witness(job)'
    BY <1>1, <1>2, <2>2, <2>3, <2>4, <2>5 DEF Witness
  <2> QED BY <1>2, <2>2, <2>3, <2>6 DEF JobOK
<1> QED BY <1>5, <1>6, <1>7

\* The age of a backup says nothing of a backup that failed, runs or was interrupted.
LEMMA AgeIsHealthy == \A c, ms, ss, t : Health(AgeStatus(c, ms, ss, t)) = "healthy"
                                          /\ AgeStatus(c, ms, ss, t) # ""
BY DEF Health, AgeStatus

LEMMA ConcludeStep ==
    ASSUME IInv, Conclude
    PROVE  JobOK' /\ Tells(job, job'.status)
<1>1. job.pc = "check" /\ job.status = "" /\ job.todo = <<>>
  BY DEF Conclude
<1> DEFINE age == AgeStatus(settings[job.repo], job.marks, job.stats, now)
           status == IF FileStatus(job) # "ok" THEN FileStatus(job) ELSE age
<1>2. /\ JobOK /\ job.repo \in Repos /\ job.todo \in Seq(Mark) /\ Witness(job)
      /\ job.marks \in Seq(Mark) /\ Len(job.marks) <= 2
  BY <1>1 DEF IInv, JobOK
<1>3. Found(status)
  BY DEF Conclude
<1>4. Health(age) = "healthy" /\ age # ""
  BY AgeIsHealthy
<1> HIDE DEF age
<1>5. Len(job.marks) \in {0, 1, 2} /\ (job.marks = <<>> <=> Len(job.marks) = 0)
  <2>1. Len(job.marks) \in Nat /\ (job.marks = <<>> <=> Len(job.marks) = 0)
    BY <1>2
  <2>2. \A n \in Nat : n <= 2 => n \in {0, 1, 2}
    OBVIOUS
  <2> QED BY <1>2, <2>1, <2>2
<1>6. Tells(job, status)
  <2>1. CASE job.failed
    <3>1. status = "failed"
      BY <2>1 DEF FileStatus
    <3> QED BY <1>2, <2>1, <3>1 DEF Tells, Health, Witness
  <2>2. CASE ~job.failed /\ Len(job.marks) = 0
    <3>1. status = "in_progress" /\ job.marks = <<>>
      BY <1>5, <2>2 DEF FileStatus
    <3> QED BY <1>2, <2>2, <3>1 DEF Tells, Health, Witness
  <2>3. CASE ~job.failed /\ Len(job.marks) = 2
    <3>1. status = "interrupted"
      BY <2>3 DEF FileStatus
    <3>2. ToSet(<<>>) = {}
      BY DEF ToSet
    <3>3. "interrupted" \in job.seen \/ Moved(job.seen)
      BY <1>1, <1>2, <2>3, <3>2 DEF Witness
    <3> QED BY <3>1, <3>3 DEF Tells, Health
  <2>4. CASE ~job.failed /\ Len(job.marks) = 1
    <3>1. status = age
      BY <2>4 DEF FileStatus
    <3> QED BY <1>2, <1>4, <2>4, <3>1 DEF Tells, Witness
  <2> QED BY <1>5, <2>1, <2>2, <2>3, <2>4
<1>7. status # ""
  <2>1. FileStatus(job) \in {"failed", "in_progress", "interrupted", "ok"}
    BY DEF FileStatus
  <2> QED BY <1>4, <2>1
<1> HIDE DEF status
<1>8. JobOK' /\ job'.status = status
  BY <1>1, <1>2, <1>3, <1>7, FoundKeeps
<1> QED BY <1>6, <1>8

LEMMA JobStep ==
    ASSUME IInv, StartJob \/ (\E r \in Repos : ListEntries(r)) \/ CheckMark \/ Conclude \/ NextRepo \/ SendMail
    PROVE  IInv'
<1>1. UNCHANGED <<now, settings, deleting, files, backup, interrupted, running>>
  BY DEF StartJob, ListEntries, CheckMark, Conclude, NextRepo, SendMail
<1>2. CASE StartJob \/ SendMail
  <2>1. JobOK'
    <3>1. job'.pc \in {"idle", "next"} /\ job'.left \subseteq Repos /\ job'.bad \subseteq Repos
      BY <1>2 DEF StartJob, SendMail, Idle
    <3> QED BY <3>1 DEF JobOK
  <2> QED BY <1>1, <2>1, JobAlone
<1>3. CASE NextRepo
  <2>1. JobOK'
    BY <1>3, Decided DEF NextRepo, IInv, JobOK
  <2> QED BY <1>1, <2>1, JobAlone
<1> QED BY <1>1, <1>2, <1>3, ListStep, CheckStep, ConcludeStep, JobAlone

LEMMA InvStep == ASSUME IInv, [Next]_vars PROVE IInv'
<1>1. CASE UNCHANGED vars
  <2>1. UNCHANGED <<now, settings, deleting, files, backup, interrupted, running>> /\ job' = job
    BY <1>1 DEF vars, files
  <2>2. JobOK'
    BY <2>1, UnmovedKeeps DEF IInv, Unmoved, files
  <2> QED BY <2>1, <2>2, JobAlone
<1>2. CASE Next
  <2>1. CASE \E r \in Repos, p \in Pids : StartBackup(r, p)
    BY <2>1, StartStep
  <2>2. CASE \E r \in Repos : CrashBackup(r) \/ \E active \in Activity : EndBackup(r, active)
    BY <2>2, EndStep
  <2>3. CASE \E r \in Repos : \/ ChangeAccess(r) \/ ScheduleDelete(r)
           \/ \E c \in Settings, maintainer \in BOOLEAN :
                SaveSettings(r, c, maintainer) \/ \E given \in Given : PostSettings(r, given, c, maintainer)
    BY <2>3, ServerStep
  <2>4. CASE StartJob \/ (\E r \in Repos : ListEntries(r)) \/ CheckMark \/ Conclude \/ NextRepo \/ SendMail
    BY <2>4, JobStep
  <2> QED BY <1>2, <2>1, <2>2, <2>3, <2>4, TickStep, ProcessStep, RemoveStep DEF Next
<1> QED BY <1>1, <1>2

LEMMA Invariant == Spec => []IInv
<1>1. Init => IInv
  BY InvInit
<1>2. IInv /\ [Next]_vars => IInv'
  BY InvStep
<1> QED BY <1>1, <1>2, PTL DEF Spec

\* The type invariant: never more than two markers, no more statistics than backups,
\* for any number of repositories.
THEOREM TypeInvariant == Spec => []TypeOK
<1>1. IInv => TypeOK
  BY TypeFrom
<1> QED BY <1>1, Invariant, PTL

\* A status that is told was true while it was computed, or it is one of the false
\* alarms of librdiff.py:1162, 1174 and 1175: whatever moves meanwhile, the marker of a
\* backup that runs is not passed over, and "ok", "overdue" and "inactive" are told
\* only of a repository whose last backup did end well.
THEOREM Status == Spec => StatusIsTrue
<1>1. ASSUME IInv, [Next]_vars, Told PROVE Tells(job, job'.status)
  <2>1. job.pc = "check" /\ job.status = "" /\ job'.status # ""
    BY <1>1 DEF Told
  <2>2. CASE CheckMark \/ Conclude
    BY <1>1, <2>1, <2>2, CheckStep, ConcludeStep
  <2>3. CASE job' = job
    BY <2>1, <2>3
  <2>4. ASSUME NEW r \in Repos, See(r) PROVE FALSE
    <3>1. job' = [job EXCEPT !.seen = job.seen \cup {TrueHealth(r)'}] /\ JobFields(job)
      BY <1>1, <2>1, <2>3, <2>4 DEF See, IInv, JobOK
    <3>2. job'.status = job.status
      BY <3>1 DEF JobFields
    <3> QED BY <2>1, <3>2
  <2>5. ASSUME NEW r \in Repos,
               \/ \E p \in Pids : StartBackup(r, p)
               \/ \E active \in Activity : EndBackup(r, active)
               \/ CrashBackup(r) \/ ChangeAccess(r)
        PROVE  Tells(job, job'.status)
    <3>1. See(r)
      BY <2>5 DEF StartBackup, EndBackup, CrashBackup, ChangeAccess
    <3> QED BY <2>4, <3>1
  <2>6. ~(StartJob \/ (\E r \in Repos : ListEntries(r)) \/ NextRepo \/ SendMail)
    BY <2>1 DEF StartJob, ListEntries, NextRepo, SendMail
  <2>7. CASE UNCHANGED vars
    BY <2>3, <2>7 DEF vars
  <2>8. ASSUME NEW r \in Repos,
               \/ \E c \in Settings, maintainer \in BOOLEAN :
                    \/ SaveSettings(r, c, maintainer)
                    \/ \E given \in Given : PostSettings(r, given, c, maintainer)
               \/ ScheduleDelete(r) \/ RemoveOlder(r)
        PROVE  Tells(job, job'.status)
    BY <2>3, <2>8 DEF ScheduleDelete, RemoveOlder, SaveSettings, PostSettings
  <2>9. CASE Tick \/ \E p \in Pids : OtherProcess(p)
    BY <2>3, <2>9 DEF Tick, OtherProcess
  <2>10. CASE Next
    <3>1. ASSUME NEW r \in Repos,
                 \/ \E p \in Pids : StartBackup(r, p)
                 \/ \E active \in Activity : EndBackup(r, active)
                 \/ CrashBackup(r) \/ ChangeAccess(r)
                 \/ \E c \in Settings, maintainer \in BOOLEAN :
                      \/ SaveSettings(r, c, maintainer)
                      \/ \E given \in Given : PostSettings(r, given, c, maintainer)
                 \/ ScheduleDelete(r) \/ RemoveOlder(r) \/ ListEntries(r)
          PROVE  Tells(job, job'.status)
      <4>1. ~ListEntries(r)
        BY <2>6
      <4> QED BY <2>5, <2>8, <3>1, <4>1
    <3> QED BY <2>2, <2>6, <2>9, <2>10, <3>1 DEF Next
  <2> QED BY <1>1, <2>7, <2>10
<1> DEFINE True == Told => Tells(job, job'.status)
<1>2. IInv /\ [Next]_vars => [True]_vars
  BY <1>1
<1> HIDE DEF True
<1>3. Spec => [][True]_vars
  BY <1>2, Invariant, PTL DEF Spec
<1> QED BY <1>3 DEF True, Tells, Moved, StatusIsTrue

-----------------------------------------------------------------------------
(***************************************************************************)
(* Days                                                                    *)
(***************************************************************************)
\* The whole days of a span, in instants.
LEMMA WholeDays ==
    ASSUME NEW x \in Nat
    PROVE  Days(x) \in Nat /\ Days(x) * PerDay <= x /\ x < Days(x) * PerDay + PerDay
BY Bounds DEF Days

LEMMA DayAndRest ==
    ASSUME NEW x \in Nat
    PROVE  Days(x) \in Nat /\ x % PerDay \in Nat /\ x = (Days(x) * PerDay) + (x % PerDay)
BY Bounds DEF Days

LEMMA DaysAdd ==
    ASSUME NEW d \in Int, NEW k \in Int
    PROVE  (d + k) * PerDay = d * PerDay + k * PerDay
           /\ d * PerDay \in Int /\ k * PerDay \in Int /\ (d + k) * PerDay \in Int
BY Bounds

\* Removal keeps every backup that is no older than keepdays before the last one, but for
\* the hours by which it runs later in the day than that one was made, and always the
\* last one (remove_older.py counts keepdays from the last backup and not from today).
THEOREM Keepdays == Spec => KeepdaysAreKept
<1>1. ASSUME IInv, [Next]_vars, NEW r \in Repos, NEW s \in ToSet(stats[r]) \ ToSet(stats'[r])
      PROVE  /\ stats'[r] # <<>>
             /\ LastBackupDate(marks[r]) + ((now - LastBackupDate(marks[r])) % PerDay) - s.at
                  > settings[r].keepdays * PerDay
  <2>1. Files(r) /\ DOMAIN stats = Repos /\ now \in Nat /\ settings[r] \in Settings
    BY <1>1, Bounds DEF IInv, Shape, Times
  <2>2. RemoveOlder(r)
    <3>1. stats'[r] # stats[r]
      BY <1>1
    <3>2. ~(\E active \in Activity : EndBackup(r, active))
      <4>1. ASSUME NEW active \in Activity, EndBackup(r, active) PROVE FALSE
        <5>1. stats'[r] = Append(stats[r], [at |-> backup[r].at, active |-> active])
          BY <2>1, <4>1 DEF EndBackup
        <5>2. ToSet(stats[r]) \subseteq ToSet(stats'[r])
          <6>1. PICK i \in 1..Len(stats[r]) : s = stats[r][i]
            BY <1>1, <2>1 DEF ToSet, Files
          <6>2. i \in DOMAIN stats'[r] /\ stats'[r][i] = s
            BY <2>1, <5>1, <6>1 DEF Files
          <6> QED BY <1>1, <6>2 DEF ToSet
        <5> QED BY <1>1, <5>2
      <4> QED BY <4>1
    <3>3. \A q \in Repos \ {r} : (\E active \in Activity : EndBackup(q, active)) \/ RemoveOlder(q)
                                   => stats'[r] = stats[r]
      BY <2>1 DEF EndBackup, RemoveOlder
    <3>4. stats' # stats
      BY <3>1
    <3> QED BY <1>1, <3>1, <3>2, <3>3
         DEF Next, vars, files, Tick, StartBackup, CrashBackup, OtherProcess, ChangeAccess, SaveSettings,
             PostSettings, ScheduleDelete, StartJob, ListEntries, CheckMark, Conclude, NextRepo, SendMail
  <2>3. PICK n \in 1..(Len(stats[r]) - 1) :
             /\ \A i \in 1..n : ~Kept(r, stats[r][i])
             /\ stats' = [stats EXCEPT ![r] = SubSeq(stats[r], n + 1, Len(stats[r]))]
    BY <1>1, <2>2, Removal
  <2>4. stats'[r] = SubSeq(stats[r], n + 1, Len(stats[r])) /\ Len(stats[r]) \in Nat
        /\ stats[r] \in Seq(Session)
    BY <2>1, <2>3 DEF Files
  <2>5. /\ Len(stats'[r]) = Len(stats[r]) - n /\ stats'[r] \in Seq(Session)
        /\ \A i \in 1..(Len(stats[r]) - n) : stats'[r][i] = stats[r][i + n]
    BY <2>4, Ending
  <2>6. stats'[r] # <<>>
    <3>1. Len(stats'[r]) \in Nat \ {0}
      BY <2>4, <2>5
    <3> QED BY <2>5, <3>1
  <2>7. PICK i \in 1..Len(stats[r]) : s = stats[r][i]
    <3>1. DOMAIN stats[r] = 1..Len(stats[r])
      BY <2>4
    <3> QED BY <1>1, <3>1 DEF ToSet
  <2>8. i <= n
    <3>1. SUFFICES ASSUME i > n PROVE FALSE
      BY <2>4
    <3>2. i - n \in 1..(Len(stats[r]) - n) /\ (i - n) + n = i
      BY <2>4, <2>7, <3>1
    <3>3. DOMAIN stats'[r] = 1..(Len(stats[r]) - n)
      BY <2>5, LenProperties
    <3>4. i - n \in DOMAIN stats'[r] /\ stats'[r][i - n] = s
      BY <2>5, <2>7, <3>2, <3>3
    <3> QED BY <1>1, <3>4 DEF ToSet
  <2>9. ~Kept(r, s) /\ s \in Session
    <3>1. i \in 1..n
      BY <2>7, <2>8
    <3> QED BY <2>1, <2>3, <2>7, <3>1, Sizes
  <2>10. /\ LastBackupDate(marks[r]) \in Nat /\ LastBackupDate(marks[r]) <= now
    <3>1. Len(marks[r]) = 1
      BY <2>2 DEF RemoveOlder
    <3>2. marks[r] # <<>> /\ 1 \in DOMAIN marks[r] /\ marks[r][1] \in Mark
      <4>1. /\ marks[r] = <<>> <=> Len(marks[r]) = 0
            /\ DOMAIN marks[r] = 1..Len(marks[r]) /\ \A k \in 1..Len(marks[r]) : marks[r][k] \in Mark
        BY <2>1, Sizes
      <4> QED BY <3>1, <4>1
    <3>3. LastBackupDate(marks[r]) = marks[r][1].at
      BY <3>1, <3>2 DEF LastBackupDate, Last
    <3> QED BY <2>1, <3>2, <3>3, NoBackupIsNone DEF Files
  <2> DEFINE last == LastBackupDate(marks[r])
             days == Days(now - last)
             keep == settings[r].keepdays
  <2>11. s.at < now - (days + keep) * PerDay /\ s.at \in Nat
    <3>1. s.at \in Nat /\ settings[r].keepdays \in Int /\ now - last \in Nat
      BY <2>1, <2>9, <2>10, Bounds DEF Session, Times
    <3>2. days \in Nat
      BY <3>1, WholeDays
    <3>3. (days + keep) * PerDay \in Int
      <4>1. days \in Int /\ keep \in Int
        BY <3>1, <3>2
      <4> HIDE DEF days, keep
      <4> QED BY <4>1, DaysAdd, Zenon
    <3>4. ~(s.at >= now - (days + keep) * PerDay)
      BY <2>9 DEF Kept, RemovalDays
    <3> HIDE DEF last, days, keep
    <3> QED BY <2>1, <3>1, <3>3, <3>4
  <2> DEFINE later == (now - last) % PerDay
  <2>12. days \in Nat /\ now - last = days * PerDay + later /\ later \in Nat
    <3>1. now - last \in Nat
      BY <2>1, <2>10
    <3> QED BY <3>1, DayAndRest
  <2>13. keep \in Int
    BY <2>1, Bounds
  <2> HIDE DEF last, days, keep, later
  <2>14. /\ (days + keep) * PerDay = days * PerDay + keep * PerDay
         /\ days * PerDay \in Int /\ keep * PerDay \in Int
    <3>1. days \in Int
      BY <2>12
    <3> QED BY <2>13, <3>1, DaysAdd, Zenon
  <2>15. last + later - s.at > keep * PerDay
    <3>1. last \in Nat /\ now \in Nat
      BY <2>1, <2>10 DEF last
    <3> DEFINE d == days * PerDay
               k == keep * PerDay
    <3>2. d \in Int /\ k \in Int /\ s.at \in Nat /\ now - last = d + later /\ s.at < now - (d + k)
      BY <2>11, <2>12, <2>14
    <3> HIDE DEF d, k
    <3>3. last + later - s.at > k
      BY <2>12, <3>1, <3>2
    <3> QED BY <3>3 DEF k
  <2> QED BY <2>6, <2>15 DEF last, later, keep
<1> DEFINE Keep == \A r \in Repos : \A s \in ToSet(stats[r]) \ ToSet(stats'[r]) :
                      /\ stats'[r] # <<>>
                      /\ LastBackupDate(marks[r]) + ((now - LastBackupDate(marks[r])) % PerDay) - s.at
                           > settings[r].keepdays * PerDay
<1>2. IInv /\ [Next]_vars => [Keep]_vars
  BY <1>1
<1> HIDE DEF Keep
<1>3. Spec => [][Keep]_vars
  BY <1>2, Invariant, PTL DEF Spec
<1> QED BY <1>3 DEF Keep, KeepdaysAreKept

-----------------------------------------------------------------------------
(***************************************************************************)
(* Counting the days of an overdue backup                                  *)
(***************************************************************************)
LEMMA Least ==
    ASSUME NEW T \in SUBSET Nat, T # {}
    PROVE  \E x \in T : \A y \in T : x <= y
<1> DEFINE R == OpToRel(<, Nat)
<1>1. IsWellFoundedOn(R, Nat)
  BY NatLessThanWellFounded
<1>2. \A x, y \in Nat : <<y, x>> \in R <=> y < x
  BY DEF OpToRel
<1> HIDE DEF R
<1>3. PICK x \in T : \A y \in T : ~(<<y, x>> \in R)
  BY <1>1, WFMin
<1>4. \A y \in T : ~(y < x)
  BY <1>2, <1>3, Zenon
<1>5. \A y \in T : y \in Nat /\ x \in Nat
  OBVIOUS
<1> QED BY <1>4, <1>5

LEMMA Multiples ==
    ASSUME NEW a \in Nat, NEW b \in Nat, a <= b
    PROVE  a * PerDay <= b * PerDay /\ (a + 1) * PerDay = a * PerDay + PerDay
           /\ a * PerDay \in Nat /\ b * PerDay \in Nat
BY Bounds

\* i days after t it is i weekdays later.
LEMMA DaysAfter ==
    ASSUME NEW t \in Nat, NEW i \in Nat
    PROVE  Weekday(t + i * PerDay) = (Days(t) + i) % 7
<1> DEFINE x == t + i * PerDay
           p == Days(t)
           q == Days(x)
<1>1. PerDay \in Nat \ {0} /\ i * PerDay \in Nat /\ x \in Nat
  BY Bounds, Multiples
<1>2. p \in Nat /\ p * PerDay <= t /\ t < p * PerDay + PerDay
  BY WholeDays
<1>3. q \in Nat /\ q * PerDay <= x /\ x < q * PerDay + PerDay
  <2> HIDE DEF x
  <2> QED BY <1>1, WholeDays
<1>4. (p + i) * PerDay = p * PerDay + i * PerDay
  <2> HIDE DEF p
  <2>1. p \in Int /\ i \in Int
    BY <1>2
  <2> QED BY <2>1, DaysAdd, Zenon
<1> DEFINE P == (p + i) * PerDay
           Q == q * PerDay
<1>5. P <= x /\ x < P + PerDay /\ Q <= x /\ x < Q + PerDay /\ P \in Nat /\ Q \in Nat
  BY <1>1, <1>2, <1>3, <1>4, Multiples
<1>6. ~(q < p + i)
  <2> SUFFICES ASSUME q + 1 <= p + i PROVE FALSE
    BY <1>2, <1>3
  <2>1. Q + PerDay <= P
    <3> HIDE DEF p, q
    <3>1. p + i \in Nat /\ q + 1 \in Nat /\ q <= q
      BY <1>2, <1>3
    <3>2. (q + 1) * PerDay <= (p + i) * PerDay
      BY <3>1, Multiples
    <3>3. (q + 1) * PerDay = q * PerDay + PerDay
      BY <1>3, <3>1, Multiples
    <3> QED BY <3>2, <3>3
  <2> HIDE DEF P, Q, x
  <2> QED BY <1>1, <1>5, <2>1
<1>7. ~(p + i < q)
  <2> SUFFICES ASSUME p + i + 1 <= q PROVE FALSE
    BY <1>2, <1>3
  <2>1. P + PerDay <= Q
    <3> HIDE DEF p, q
    <3>1. p + i \in Nat /\ p + i + 1 \in Nat /\ p + i <= p + i
      BY <1>2, <1>3
    <3>2. (p + i + 1) * PerDay <= q * PerDay
      BY <1>3, <3>1, Multiples
    <3>3. (p + i + 1) * PerDay = (p + i) * PerDay + PerDay
      BY <3>1, Multiples
    <3> QED BY <3>2, <3>3
  <2> HIDE DEF P, Q, x
  <2> QED BY <1>1, <1>5, <2>1
<1>8. q = p + i
  BY <1>2, <1>3, <1>6, <1>7
<1> QED BY <1>8 DEF Weekday, Days

\* The days that count among the first n, the first of them being weekday b.
Counting(b, n, ignored) == {i \in 0..(n - 1) : (b + i) % 7 \notin ignored}

LEMMA CountingFinite ==
    ASSUME NEW b \in Nat, NEW n \in Nat, NEW ignored
    PROVE  /\ IsFiniteSet(Counting(b, n, ignored))
           /\ Cardinality(Counting(b, n, ignored)) \in Nat
           /\ Cardinality(Counting(b, n, ignored)) <= n
<1>1. IsFiniteSet(0..(n - 1)) /\ Cardinality(0..(n - 1)) = n
  <2>1. 0 \in Int /\ n - 1 \in Int
    OBVIOUS
  <2>2. IsFiniteSet(0..(n - 1)) /\ Cardinality(0..(n - 1)) = IF 0 > n - 1 THEN 0 ELSE n - 1 - 0 + 1
    BY <2>1, FS_Interval
  <2> QED BY <2>2
<1>2. Counting(b, n, ignored) \in SUBSET (0..(n - 1))
  BY DEF Counting
<1> QED BY <1>1, <1>2, FS_Subset, FS_CardinalityType

\* Seven days in a row are the seven weekdays.
LEMMA OneWeek ==
    ASSUME NEW b \in Nat, NEW n \in Nat, NEW ignored \in SUBSET (0..6)
    PROVE  LET W == {i \in n..(n + 6) : (b + i) % 7 \notin ignored} IN
           IsFiniteSet(W) /\ Cardinality(W) = 7 - Cardinality(ignored)
<1> DEFINE W == {i \in n..(n + 6) : (b + i) % 7 \notin ignored}
           T == (0..6) \ ignored
           f == [i \in W |-> (b + i) % 7]
<1>1. f \in [W -> T]
  <2>1. ASSUME NEW i \in W PROVE (b + i) % 7 \in T
    BY <2>1
  <2> QED BY <2>1
<1>2. \A i, j \in W : f[i] = f[j] => i = j
  <2>1. ASSUME NEW i \in n..(n + 6), NEW j \in n..(n + 6), (b + i) % 7 = (b + j) % 7 PROVE i = j
    BY <2>1
  <2> QED BY <2>1
<1>3. \A d \in T : \E i \in W : f[i] = d
  <2>1. ASSUME NEW d \in T PROVE \E i \in W : f[i] = d
    <3> DEFINE i == n + ((d - (b + n)) % 7)
    <3>1. d \in 0..6 /\ d \notin ignored
      OBVIOUS
    <3>2. i \in n..(n + 6) /\ (b + i) % 7 = d
      BY <3>1
    <3> HIDE DEF i
    <3>3. i \in W
      BY <3>1, <3>2
    <3> QED BY <3>2, <3>3
  <2> QED BY <2>1
<1>4. IsFiniteSet(W)
  <2>1. n \in Int /\ n + 6 \in Int
    OBVIOUS
  <2>2. W \in SUBSET (n..(n + 6)) /\ IsFiniteSet(n..(n + 6))
    BY <2>1, FS_Interval
  <2> HIDE DEF W
  <2> QED BY <2>2, FS_Subset
<1>5. Cardinality(T) = 7 - Cardinality(ignored)
  <2>1. 0 \in Int /\ 6 \in Int
    OBVIOUS
  <2>2. IsFiniteSet(0..6) /\ Cardinality(0..6) = 7
    <3>1. IsFiniteSet(0..6) /\ Cardinality(0..6) = IF 0 > 6 THEN 0 ELSE 6 - 0 + 1
      BY <2>1, FS_Interval
    <3> QED BY <3>1
  <2>3. (0..6) \cap ignored = ignored
    OBVIOUS
  <2>4. Cardinality(T) = Cardinality(0..6) - Cardinality((0..6) \cap ignored)
    BY <2>2, FS_Difference
  <2> HIDE DEF T
  <2> QED BY <2>2, <2>3, <2>4
<1> HIDE DEF W, T, f
<1>6. ExistsBijection(W, T)
  BY <1>1, <1>2, <1>3 DEF ExistsBijection, Bijection, Injection, Surjection, IsInjective
<1>7. Cardinality(T) = Cardinality(W)
  BY <1>4, <1>6, FS_Bijection
<1> QED BY <1>4, <1>5, <1>7 DEF W

LEMMA OneWeekMore ==
    ASSUME NEW b \in Nat, NEW n \in Nat, NEW ignored \in SUBSET (0..6)
    PROVE  Cardinality(Counting(b, n + 7, ignored))
             = Cardinality(Counting(b, n, ignored)) + (7 - Cardinality(ignored))
<1> DEFINE W == {i \in n..(n + 6) : (b + i) % 7 \notin ignored}
           C == Counting(b, n, ignored)
<1>1. IsFiniteSet(W) /\ Cardinality(W) = 7 - Cardinality(ignored)
  BY OneWeek
<1>2. IsFiniteSet(C) /\ Cardinality(C) \in Nat
  BY CountingFinite
<1>3. Counting(b, n + 7, ignored) = C \cup W /\ C \cap W = {}
  BY DEF Counting
<1>4. Cardinality(C \cap W) = 0
  BY <1>3, FS_EmptySet
<1>5. Cardinality(ignored) \in Nat
  <2>1. 0 \in Int /\ 6 \in Int
    OBVIOUS
  <2> QED BY <2>1, FS_Interval, FS_Subset, FS_CardinalityType
<1> HIDE DEF C, W
<1>6. Cardinality(C \cup W) = Cardinality(C) + Cardinality(W) - Cardinality(C \cap W)
  BY <1>1, <1>2, FS_Union
<1>7. Cardinality(C \cup W) = Cardinality(C) + (7 - Cardinality(ignored))
  BY <1>1, <1>2, <1>4, <1>5, <1>6
<1>8. Cardinality(Counting(b, n + 7, ignored)) = Cardinality(C \cup W)
  BY <1>3
<1> QED BY <1>7, <1>8 DEF C

LEMMA WeeksAndDays ==
    ASSUME NEW b \in Nat, NEW q \in Nat, NEW r \in Nat, NEW ignored \in SUBSET (0..6)
    PROVE  Cardinality(Counting(b, 7 * q + r, ignored))
             = q * (7 - Cardinality(ignored)) + Cardinality(Counting(b, r, ignored))
<1> DEFINE m == 7 - Cardinality(ignored)
           C(n) == Cardinality(Counting(b, n, ignored))
           Bad == {w \in Nat : C(7 * w + r) # w * m + C(r)}
<1>1. m \in Int /\ C(r) \in Nat
  <2>1. 0 \in Int /\ 6 \in Int
    OBVIOUS
  <2>2. Cardinality(ignored) \in Nat
    BY <2>1, FS_Interval, FS_Subset, FS_CardinalityType
  <2> QED BY <2>2, CountingFinite
<1>2. ASSUME NEW n \in Nat PROVE C(n + 7) = C(n) + m
  BY OneWeekMore
<1> HIDE DEF m, C
<1>3. Bad = {}
  <2> SUFFICES ASSUME Bad # {} PROVE FALSE
    OBVIOUS
  <2>1. PICK w \in Bad : \A v \in Bad : w <= v
    <3>1. Bad \in SUBSET Nat
      OBVIOUS
    <3> HIDE DEF Bad
    <3> QED BY <3>1, Least
  <2>2. w \in Nat /\ C(7 * w + r) # w * m + C(r)
    OBVIOUS
  <2>3. w # 0
    <3> SUFFICES ASSUME w = 0 PROVE FALSE
      OBVIOUS
    <3>1. 7 * w + r = r /\ w * m + C(r) = C(r)
      BY <1>1
    <3> QED BY <2>2, <3>1
  <2>4. w - 1 \in Nat /\ w - 1 \notin Bad
    BY <2>1, <2>2, <2>3
  <2>5. C(7 * (w - 1) + r) = (w - 1) * m + C(r)
    BY <2>4
  <2>6. 7 * (w - 1) + r \in Nat /\ (7 * (w - 1) + r) + 7 = 7 * w + r
    BY <2>4
  <2>7. C(7 * w + r) = C(7 * (w - 1) + r) + m
    BY <1>2, <2>6
  <2>8. (w - 1) * m + m = w * m /\ (w - 1) * m \in Int
    BY <1>1, <2>2
  <2> QED BY <1>1, <2>2, <2>5, <2>7, <2>8
<1>4. C(7 * q + r) = q * m + C(r)
  BY <1>3
<1> QED BY <1>4 DEF m, C

\* _count_active_days (core/model/_repo.py) counts whole weeks at once and looks at the days
\* that remain: it is the count of every day on its own, for any period, any date of
\* the last backup and any set of ignored weekdays.
THEOREM Counted == Spec => []OverdueIsCounted
<1>1. ASSUME IInv, NEW r \in Repos, settings[r].maxage > 0, LastBackupDate(marks[r]) # -1
      PROVE  LET last == LastBackupDate(marks[r])
                 counted == {i \in 0..(Days(now - last) - 1) :
                               Weekday(last + i * PerDay) \notin settings[r].ignored}
             IN Overdue(settings[r], marks[r], now) <=> Cardinality(counted) >= settings[r].maxage
  <2> DEFINE last == LastBackupDate(marks[r])
             c == settings[r]
             n == Days(now - last)
             b == Days(last)
             counted == {i \in 0..(n - 1) : Weekday(last + i * PerDay) \notin c.ignored}
             rest == {i \in 0..((n % 7) - 1) : Weekday(last + i * PerDay) \notin c.ignored}
  <2>1. last \in Nat /\ now \in Nat /\ now - last \in Nat
    <3>1. Files(r) /\ now \in Nat
      BY <1>1, Bounds DEF IInv, Shape, Times
    <3>2. marks[r] # <<>> /\ last = marks[r][Len(marks[r])].at
      BY <1>1 DEF LastBackupDate, Last
    <3>3. /\ Len(marks[r]) \in {0, 1, 2} /\ DOMAIN marks[r] = 1..Len(marks[r])
          /\ \A i \in 1..Len(marks[r]) : marks[r][i] \in Mark
          /\ marks[r] = <<>> <=> Len(marks[r]) = 0
      BY <3>1, Sizes
    <3>4. Len(marks[r]) \in DOMAIN marks[r] /\ marks[r][Len(marks[r])] \in Mark
      BY <3>2, <3>3
    <3>5. last \in Nat /\ last <= now
      BY <3>1, <3>2, <3>4, NoBackupIsNone DEF Files
    <3> QED BY <3>1, <3>5
  <2>2. c.maxage \in Nat /\ c.ignored \in SUBSET (0..6)
    BY <1>1, Bounds DEF IInv, Shape
  <2> HIDE DEF last, c
  <2>3. n \in Nat /\ b \in Nat
    BY <2>1, WholeDays
  <2> HIDE DEF n, b
  <2>4. \A i \in Nat : Weekday(last + i * PerDay) = (b + i) % 7
    BY <2>1, DaysAfter DEF b
  <2>5. counted = Counting(b, n, c.ignored) /\ rest = Counting(b, n % 7, c.ignored)
    BY <2>3, <2>4 DEF Counting
  <2> HIDE DEF counted, rest
  <2>6. n \div 7 \in Nat /\ n % 7 \in Nat /\ 7 * (n \div 7) + (n % 7) = n
    BY <2>3
  <2>7. Cardinality(counted) = (n \div 7) * (7 - Cardinality(c.ignored)) + Cardinality(rest)
    BY <2>2, <2>3, <2>5, <2>6, WeeksAndDays
  <2>8. ActiveDays(last, now, c.ignored) = Cardinality(counted)
    BY <2>7 DEF ActiveDays, rest, n
  <2>9. Cardinality(counted) \in Nat /\ Cardinality(counted) <= n
    BY <2>3, <2>5, CountingFinite
  <2>10. Overdue(c, marks[r], now) <=> n >= c.maxage /\ ActiveDays(last, now, c.ignored) >= c.maxage
    BY <1>1 DEF Overdue, n, last, c
  <2>11. Overdue(c, marks[r], now) <=> Cardinality(counted) >= c.maxage
    BY <2>2, <2>3, <2>8, <2>9, <2>10
  <2> QED BY <2>11 DEF counted, c, n, last
<1>2. IInv => OverdueIsCounted
  BY <1>1 DEF OverdueIsCounted
<1> QED BY <1>2, Invariant, PTL

-----------------------------------------------------------------------------
(***************************************************************************)
(* Backup reports: the calendar                                            *)
(***************************************************************************)
IsFirst(x, d) == x \in FirstDays /\ x <= d /\ \A y \in FirstDays : y <= d => y <= x

LEMMA FirstIsUnique ==
    ASSUME NEW d \in Int, NEW x, IsFirst(x, d)
    PROVE  FirstOfMonth(d) = x
<1>1. FirstDays \subseteq Int
  BY CalendarAssumption
<1>2. \A y, z : IsFirst(y, d) /\ IsFirst(z, d) => y = z
  BY <1>1 DEF IsFirst
<1> QED BY <1>2 DEF FirstOfMonth, IsFirst

\* The month of a day and the one before it: 28 to 31 days, and none is skipped.
LEMMA Months ==
    ASSUME NEW d \in FirstDay..LastDay
    PROVE  \E x, y \in FirstDays :
             /\ FirstOfMonth(d) = x /\ FirstOfMonth(x - 27) = y
             /\ x <= d /\ d < x + 31
             /\ x - 31 <= y /\ y <= x - 28
             /\ \A z \in FirstDays : ~(y < z /\ z < x)
<1>1. FirstDays \subseteq Int /\ d \in Int
  BY CalendarAssumption
<1>2. \A x, y \in FirstDays : x < y => x + 28 <= y
  BY CalendarAssumption
<1>3. PICK a, b \in FirstDays : a <= d /\ d < a + 31 /\ b \in (a - 31)..(a - 28)
  BY CalendarAssumption
<1>4. \E x, y \in FirstDays : /\ x <= d /\ d < x + 31 /\ x - 31 <= y /\ y <= x - 28
                              /\ \A z \in FirstDays : z <= d => z <= x
  <2>1. CASE \A z \in FirstDays : z <= d => z <= a
    BY <1>1, <1>3, <2>1
  <2>2. CASE \E z \in FirstDays : z <= d /\ a < z
    <3>1. PICK x \in FirstDays : x <= d /\ a < x
      BY <1>1, <2>2
    <3>2. a + 28 <= x
      BY <1>2, <3>1
    <3>3. \A z \in FirstDays : z <= d => z <= x
      BY <1>1, <1>2, <1>3, <3>1, <3>2
    <3> QED BY <1>1, <1>3, <3>1, <3>2, <3>3
  <2> QED BY <1>1, <2>1, <2>2
<1>5. PICK x, y \in FirstDays : /\ x <= d /\ d < x + 31 /\ x - 31 <= y /\ y <= x - 28
                                /\ \A z \in FirstDays : z <= d => z <= x
  BY <1>4
<1>6. \A z \in FirstDays : ~(y < z /\ z < x)
  <2> SUFFICES ASSUME NEW z \in FirstDays, y < z, z < x PROVE FALSE
    OBVIOUS
  <2>1. y + 28 <= z /\ z + 28 <= x
    BY <1>2
  <2> QED BY <1>1, <1>5, <2>1
<1>7. FirstOfMonth(d) = x
  BY <1>1, <1>5, FirstIsUnique DEF IsFirst
<1>8. FirstOfMonth(x - 27) = y
  <2>1. IsFirst(y, x - 27)
    BY <1>1, <1>2, <1>5 DEF IsFirst
  <2> QED BY <1>1, <2>1, FirstIsUnique
<1> QED BY <1>5, <1>6, <1>7, <1>8

LEMMA Weeks ==
    ASSUME NEW d \in Int
    PROVE  /\ MondayOf(d) \in Int /\ MondayOf(d) <= d /\ d < MondayOf(d) + 7
           /\ (MondayOf(d) - Monday) % 7 = 0
<1>1. Monday \in Int
  BY CalendarAssumption
<1> DEFINE m == d - Monday
<1>2. m \in Int /\ m % 7 \in 0..6
  BY <1>1
<1>3. (m - (m % 7)) % 7 = 0
  BY <1>2
<1>4. MondayOf(d) - Monday = m - (m % 7)
  BY <1>1, <1>2 DEF MondayOf
<1> QED BY <1>1, <1>2, <1>3, <1>4 DEF MondayOf

\* The days a report sent today would be about.
Whole(s, e) ==
    /\ s \in Int /\ e \in Int /\ s < e
    /\ timeRange = 1 => e = s + 1
    /\ timeRange = 7 => e = s + 7 /\ (e - Monday) % 7 = 0
    /\ timeRange = 30 => /\ {s, e} \subseteq FirstDays
                         /\ FirstDays \cap ((s + 1)..(e - 1)) = {}

LEMMA Periods ==
    ASSUME NEW d \in FirstDay..LastDay, timeRange \in {1, 7, 30}
    PROVE  /\ Whole(StartTime(d), EndTime(d))
           /\ EndTime(d) <= d /\ FirstDay - 62 <= StartTime(d)
<1>1. d \in Int /\ FirstDay \in Int /\ FirstDays \subseteq Int
  BY CalendarAssumption
<1>2. CASE timeRange = 1
  BY <1>1, <1>2 DEF Whole, StartTime, EndTime
<1>3. CASE timeRange = 7
  <2>1. EndTime(d) = MondayOf(d) /\ StartTime(d) = MondayOf(d) - 7
    BY <1>3 DEF StartTime, EndTime
  <2>2. /\ MondayOf(d) \in Int /\ MondayOf(d) <= d /\ d < MondayOf(d) + 7
        /\ (MondayOf(d) - Monday) % 7 = 0
    BY <1>1, Weeks
  <2>3. Whole(MondayOf(d) - 7, MondayOf(d))
    BY <1>3, <2>2 DEF Whole
  <2>4. FirstDay - 62 <= MondayOf(d) - 7
    BY <1>1, <2>2
  <2> QED BY <2>1, <2>2, <2>3, <2>4
<1>4. CASE timeRange = 30
  <2>1. PICK x, y \in FirstDays :
             /\ FirstOfMonth(d) = x /\ FirstOfMonth(x - 27) = y
             /\ x <= d /\ d < x + 31
             /\ x - 31 <= y /\ y <= x - 28
             /\ \A z \in FirstDays : ~(y < z /\ z < x)
    BY Months
  <2>2. EndTime(d) = x /\ StartTime(d) = y
    BY <1>4, <2>1 DEF StartTime, EndTime
  <2>3. FirstDays \cap ((y + 1)..(x - 1)) = {}
    BY <1>1, <2>1
  <2> QED BY <1>1, <1>4, <2>1, <2>2, <2>3 DEF Whole
<1> QED BY <1>2, <1>3, <1>4

-----------------------------------------------------------------------------
(***************************************************************************)
(* Reports                                                                 *)
(***************************************************************************)
\* Where every evening committed its report: the last report ended before it was
\* sent, and none was sent if none is remembered.
Remembered ==
    /\ today \in FirstDay..LastDay
    /\ timeRange \in {0, 1, 7, 30}
    /\ lastSent \in Int
    /\ window.end \in Int
    /\ lost = 0 => window.end <= lastSent
    /\ lost \in Nat

\* What a report sent by this step is about.
LEMMA SentNow ==
    ASSUME Remembered, [ReportNext]_reportVars, window' # window
    PROVE  /\ timeRange \in {1, 7, 30}
           /\ window' = [start |-> StartTime(today), end |-> EndTime(today)]
           /\ lastSent = Never \/ lastSent < StartTime(today)
           /\ SendReport \/ SendButNotCommit
<1>1. SendReport \/ SendButNotCommit
  BY DEF ReportNext, SetTimeRange, SendNothing, NoJob, NextDay, reportVars
<1>2. timeRange # 0
  BY <1>1 DEF SendReport, SendButNotCommit, Selected, Borderline
<1> QED BY <1>1, <1>2 DEF SendReport, SendButNotCommit, ToSend, Remembered

LEMMA RememberedStep ==
     Remembered /\ [ReportNext]_reportVars => Remembered'
<1> SUFFICES ASSUME Remembered, [ReportNext]_reportVars PROVE Remembered'
  OBVIOUS
<1>1. FirstDay \in Int /\ LastDay \in Int /\ TimeRanges \subseteq {0, 1, 7, 30}
  BY CalendarAssumption, TimeRangeAssumption
<1>2. CASE SendReport
  <2>1. timeRange \in {1, 7, 30}
    BY <1>2 DEF SendReport, Selected, Borderline, Remembered
  <2>2. EndTime(today) \in Int /\ EndTime(today) <= today
    BY <2>1, Periods DEF Remembered, Whole
  <2>3. /\ window' = [start |-> StartTime(today), end |-> EndTime(today)]
        /\ lastSent' = today /\ UNCHANGED <<today, timeRange, missed, lost>>
    BY <1>2 DEF SendReport, SentAt
  <2> QED BY <1>1, <2>2, <2>3 DEF Remembered
<1>3. CASE SendButNotCommit
  <2>1. timeRange \in {1, 7, 30}
    BY <1>3 DEF SendButNotCommit, Selected, Borderline, Remembered
  <2>2. EndTime(today) \in Int
    BY <2>1, Periods DEF Remembered, Whole
  <2>3. /\ window' = [start |-> StartTime(today), end |-> EndTime(today)]
        /\ lost' = lost + 1 /\ UNCHANGED <<today, timeRange, lastSent>>
    BY <1>3 DEF SendButNotCommit
  <2> QED BY <2>2, <2>3 DEF Remembered
<1>4. ASSUME NEW n \in TimeRanges, SetTimeRange(n) PROVE Remembered'
  BY <1>1, <1>4 DEF SetTimeRange, Remembered
<1>5. CASE SendNothing \/ NoJob \/ UNCHANGED reportVars
  BY <1>5 DEF SendNothing, NoJob, reportVars, Remembered
<1>6. CASE NextDay
  BY <1>1, <1>6 DEF NextDay, Remembered
<1> QED BY <1>2, <1>3, <1>4, <1>5, <1>6 DEF ReportNext

LEMMA RememberedAlways ==
     ReportSpec => []Remembered
<1>1. ReportInit => Remembered
  BY CalendarAssumption, TimeRangeAssumption DEF ReportInit, Remembered, Never
<1> QED BY <1>1, RememberedStep, PTL DEF ReportSpec

\* A day is part of one report at most while no commit fails.
THEOREM ReportsDisjoint ==
     ReportSpec => NoDayReportedTwice
<1> DEFINE Disjoint == Sent /\ lost = 0 => window'.start >= window.end
<1>1. Remembered /\ [ReportNext]_reportVars => Disjoint
  <2> SUFFICES ASSUME Remembered, [ReportNext]_reportVars, window' # window, lost = 0
               PROVE  window'.start >= window.end
    BY DEF Sent
  <2>1. /\ window'.start = StartTime(today)
        /\ lastSent = Never \/ lastSent < StartTime(today)
        /\ timeRange \in {1, 7, 30}
    BY SentNow
  <2>2. StartTime(today) \in Int /\ FirstDay - 62 <= StartTime(today)
    BY <2>1, Periods DEF Remembered, Whole
  <2>3. FirstDay \in Int
    BY CalendarAssumption
  <2> QED BY <2>1, <2>2, <2>3 DEF Remembered, Never
<1> QED BY <1>1, RememberedAlways, PTL DEF ReportSpec, NoDayReportedTwice

\* Daily, weekly and monthly reports are about a day, a week from Monday to Monday
\* and a month of any length, all of them over when the report is sent.
THEOREM ReportsWhole ==
     ReportSpec => WholePeriod
<1> DEFINE Period == Sent => LET w == window' IN
         /\ w.start < w.end /\ w.end <= today
         /\ timeRange = 1 => w.end = w.start + 1
         /\ timeRange = 7 => w.end = w.start + 7 /\ (w.end - Monday) % 7 = 0
         /\ timeRange = 30 => /\ {w.start, w.end} \subseteq FirstDays
                              /\ FirstDays \cap ((w.start + 1)..(w.end - 1)) = {}
<1>1. Remembered /\ [ReportNext]_reportVars => Period
  <2> SUFFICES ASSUME Remembered, [ReportNext]_reportVars, window' # window PROVE Period
    BY DEF Sent
  <2>1. window'.start = StartTime(today) /\ window'.end = EndTime(today)
        /\ timeRange \in {1, 7, 30}
    BY SentNow
  <2>2. Whole(StartTime(today), EndTime(today)) /\ EndTime(today) <= today
    BY <2>1, Periods DEF Remembered
  <2> QED BY <2>1, <2>2 DEF Whole
<1> QED BY <1>1, RememberedAlways, PTL DEF ReportSpec, WholePeriod

-----------------------------------------------------------------------------
(***************************************************************************)
(* Regularity                                                              *)
(***************************************************************************)
Types ==
    /\ pending \in BOOLEAN /\ kept \in BOOLEAN
    /\ timeRange \in TimeRanges
    /\ lastSent \in {Never} \cup FirstDay..today
    /\ window.start \in Int
    /\ missed \in Nat /\ lost \in Nat /\ missed + lost <= MaxFaults

\* The deadline of the next report is a day away for every evening that was lost,
\* and has not come when the job of the day has run.
InTime ==
    kept => /\ lastSent # Never /\ timeRange # 0
            /\ today <= Deadline + missed + lost
            /\ ~pending => today < Deadline + missed + lost

LEMMA Deadlines ==
    ASSUME lastSent \in FirstDay..LastDay, timeRange \in {1, 7, 30}
    PROVE  Deadline \in Int /\ lastSent + 1 < Deadline
<1>1. lastSent \in Int
  BY CalendarAssumption
<1>2. CASE timeRange = 1
  BY <1>1, <1>2 DEF Deadline
<1>3. CASE timeRange = 7
  BY <1>1, <1>3, Weeks DEF Deadline
<1>4. CASE timeRange = 30
  <2>1. PICK x \in FirstDays : FirstOfMonth(lastSent) = x /\ x <= lastSent /\ lastSent < x + 31
    BY Months
  <2>2. x \in Int
    BY CalendarAssumption
  <2> QED BY <1>1, <1>4, <2>1, <2>2 DEF Deadline
<1> QED BY <1>2, <1>3, <1>4

\* On the evening of the deadline the query selects the user, and the period to
\* report begins after the last report.
LEMMA SentAtDeadline ==
    ASSUME Remembered, Types, timeRange \in {1, 7, 30},
           lastSent # Never, today >= Deadline
    PROVE  Selected /\ ToSend
<1>0. /\ FirstDays \subseteq Int /\ FirstDay \in Int /\ LastDay \in Int /\ today \in Int
      /\ lastSent \in FirstDay..LastDay /\ lastSent \in Int
  BY CalendarAssumption DEF Remembered, Types
<1>1. CASE timeRange = 1
  BY <1>0, <1>1 DEF Deadline, Selected, ToSend, StartTime, EndTime
<1>2. CASE timeRange = 7
  <2> DEFINE m == MondayOf(lastSent)
             n == MondayOf(today)
  <2>1. /\ m \in Int /\ m <= lastSent /\ lastSent < m + 7 /\ (m - Monday) % 7 = 0
        /\ n \in Int /\ n <= today /\ today < n + 7 /\ (n - Monday) % 7 = 0
    BY <1>0, Weeks
  <2>2. m + 14 <= today
    BY <1>2 DEF Deadline
  <2>3. m + 14 <= n
    <3>1. Monday \in Int /\ m + 7 < n
      BY <2>1, <2>2, <1>0, CalendarAssumption
    <3> HIDE DEF m, n
    <3> QED BY <2>1, <3>1
  <2>4. StartTime(today) = n - 7
    BY <1>2 DEF StartTime, EndTime
  <2> HIDE DEF m, n
  <2>5. lastSent < StartTime(today) /\ today - lastSent > 7
    BY <1>0, <2>1, <2>2, <2>3, <2>4
  <2> QED BY <1>2, <2>5 DEF Selected, ToSend
<1>3. CASE timeRange = 30
  <2>1. PICK f \in FirstDays : /\ FirstOfMonth(lastSent) = f /\ f <= lastSent /\ lastSent < f + 31
    BY <1>0, Months
  <2>2. \A z \in FirstDays : z <= lastSent => z <= f
    <3>1. PICK a, b \in FirstDays :
             /\ FirstOfMonth(lastSent) = a /\ a <= lastSent /\ lastSent < a + 31
      BY <1>0, Months
    <3>2. a = f /\ \A z \in FirstDays : f < z => f + 28 <= z
      BY <2>1, <3>1, CalendarAssumption
    <3>3. IsFirst(FirstOfMonth(lastSent), lastSent)
      <4>1. \E z : IsFirst(z, lastSent)
        <5>1. PICK c, d \in FirstDays : c <= lastSent /\ lastSent < c + 31
          BY <1>0, CalendarAssumption
        <5>2. CASE \A z \in FirstDays : z <= lastSent => z <= c
          BY <5>1, <5>2 DEF IsFirst
        <5>3. CASE \E z \in FirstDays : z <= lastSent /\ c < z
          <6>1. PICK e \in FirstDays : e <= lastSent /\ c < e
            BY <1>0, <5>3
          <6>2. \A z \in FirstDays : z <= lastSent => z <= e
            <7>1. c + 28 <= e /\ \A z \in FirstDays : e < z => e + 28 <= z
              BY <6>1, CalendarAssumption
            <7> QED BY <1>0, <5>1, <6>1, <7>1
          <6> QED BY <6>1, <6>2 DEF IsFirst
        <5> QED BY <1>0, <5>2, <5>3
      <4> QED BY <1>0, <4>1, FirstIsUnique
    <3> QED BY <2>1, <3>3 DEF IsFirst
  <2>3. PICK x, y \in FirstDays :
             /\ FirstOfMonth(today) = x /\ FirstOfMonth(x - 27) = y
             /\ x <= today /\ today < x + 31
             /\ x - 31 <= y
    BY Months DEF Remembered
  <2>4. f + 62 <= today
    BY <1>3, <2>1 DEF Deadline
  <2>5. StartTime(today) = y
    BY <1>3, <2>3 DEF StartTime, EndTime
  <2>6. lastSent < y
    <3>1. f < y
      BY <1>0, <2>3, <2>4
    <3> QED BY <1>0, <2>2, <3>1
  <2>7. today - lastSent > 30
    BY <1>0, <2>1, <2>4
  <2> QED BY <1>3, <2>5, <2>6, <2>7 DEF Selected, ToSend
<1> QED BY <1>1, <1>2, <1>3

LEMMA TypesStep ==
     Remembered /\ Types /\ [ReportNext]_reportVars => Types'
<1> SUFFICES ASSUME Remembered, Types, [ReportNext]_reportVars PROVE Types'
  OBVIOUS
<1>1. FirstDay \in Int /\ LastDay \in Int /\ MaxFaults \in Nat /\ today \in FirstDay..LastDay
  BY CalendarAssumption, TimeRangeAssumption DEF Remembered
<1>2. CASE SendReport \/ SendButNotCommit
  <2>1. timeRange \in {1, 7, 30}
    BY <1>2 DEF SendReport, SendButNotCommit, Selected, Borderline, Remembered
  <2>2. StartTime(today) \in Int
    BY <2>1, Periods DEF Remembered, Whole
  <2>3. window'.start \in Int /\ today' = today /\ timeRange' = timeRange
    BY <1>2, <2>2 DEF SendReport, SendButNotCommit
  <2>4. pending' \in BOOLEAN /\ kept' \in BOOLEAN
    BY <1>2 DEF SendReport, SendButNotCommit, Types
  <2>6. lastSent' \in {lastSent, today}
    BY <1>2 DEF SendReport, SendButNotCommit, SentAt
  <2>7. lastSent' \in {Never} \cup FirstDay..today
    BY <1>1, <2>6 DEF Types
  <2>5. missed' \in Nat /\ lost' \in Nat /\ missed' + lost' <= MaxFaults
    <3>1. CASE SendReport
      BY <3>1 DEF SendReport, Types
    <3>2. CASE SendButNotCommit
      BY <1>1, <3>2 DEF SendButNotCommit, Types
    <3> QED BY <1>2, <3>1, <3>2
  <2> QED BY <2>3, <2>4, <2>5, <2>7 DEF Types
<1>3. CASE SendNothing \/ UNCHANGED reportVars
  BY <1>3 DEF SendNothing, reportVars, Types
<1>6. CASE NoJob
  <2>1. missed' \in Nat /\ lost' \in Nat /\ missed' + lost' <= MaxFaults
    BY <1>1, <1>6 DEF NoJob, Types
  <2> QED BY <1>6, <2>1 DEF NoJob, Types
<1>4. CASE NextDay
  BY <1>1, <1>4 DEF NextDay, Types
<1>5. ASSUME NEW n \in TimeRanges, SetTimeRange(n) PROVE Types'
  BY <1>1, <1>5 DEF SetTimeRange, Types
<1> QED BY <1>2, <1>3, <1>4, <1>5, <1>6 DEF ReportNext

LEMMA InTimeStep ==
     Remembered /\ Types /\ InTime /\ [ReportNext]_reportVars => InTime'
<1> SUFFICES ASSUME Remembered, Types, InTime, [ReportNext]_reportVars PROVE InTime'
  OBVIOUS
<1>0. /\ FirstDay \in Int /\ LastDay \in Int /\ today \in FirstDay..LastDay /\ today \in Int
      /\ missed \in Nat /\ lost \in Nat /\ FirstDay # Never
  BY CalendarAssumption DEF Remembered, Types, Never
<1>1. kept => /\ timeRange \in {1, 7, 30} /\ lastSent # Never
              /\ Deadline \in Int /\ lastSent + 1 < Deadline
  BY <1>0, Deadlines DEF Remembered, Types, InTime
<1>2. CASE SendReport
  <2>1. lastSent' = today /\ UNCHANGED <<today, timeRange, missed, lost>>
    BY <1>2 DEF SendReport, SentAt
  <2>2. timeRange \in {1, 7, 30}
    BY <1>2 DEF SendReport, Selected, Borderline, Remembered
  <2>3. Deadline' \in Int /\ today + 1 < Deadline'
    <3>1. CASE timeRange = 1
      BY <1>0, <2>1, <3>1 DEF Deadline
    <3>2. CASE timeRange = 7
      <4>1. MondayOf(today) \in Int /\ today < MondayOf(today) + 7
        BY <1>0, Weeks
      <4>2. Deadline' = MondayOf(today) + 14
        BY <2>1, <3>2 DEF Deadline
      <4> QED BY <1>0, <4>1, <4>2
    <3>3. CASE timeRange = 30
      <4>1. PICK x \in FirstDays : FirstOfMonth(today) = x /\ today < x + 31
        BY <1>0, Months
      <4>2. x \in Int
        BY CalendarAssumption
      <4>3. Deadline' = x + 62
        BY <2>1, <3>3, <4>1 DEF Deadline
      <4> QED BY <1>0, <4>1, <4>2, <4>3
    <3> QED BY <2>2, <3>1, <3>2, <3>3
  <2>4. lastSent' # Never
    BY <1>0, <2>1 DEF Never
  <2>5. today' < Deadline' + missed' + lost' /\ today' <= Deadline' + missed' + lost'
    <3>1. PICK e \in Int : e = Deadline' /\ today + 1 < e
      BY <2>3
    <3>2. today < e + missed + lost /\ today <= e + missed + lost
      <4>1. today \in Int /\ missed \in Int /\ missed >= 0 /\ lost \in Int /\ lost >= 0
        BY <1>0
      <4>2. today + 1 < e
        BY <3>1
      <4>3. e <= e + missed /\ e + missed \in Int
        BY <4>1
      <4>4. e + missed <= e + missed + lost /\ e + missed + lost \in Int
        BY <4>1, <4>3
      <4> QED BY <4>1, <4>2, <4>3, <4>4
    <3> QED BY <2>1, <3>1, <3>2
  <2>6. timeRange' # 0
    BY <2>1, <2>2
  <2> QED BY <2>4, <2>5, <2>6 DEF InTime
<1>3. ASSUME UNCHANGED <<timeRange, lastSent, kept>> PROVE Deadline' = Deadline
  BY <1>3 DEF Deadline, MondayOf, FirstOfMonth
<1>4. CASE SendButNotCommit
  BY <1>0, <1>1, <1>3, <1>4 DEF SendButNotCommit, InTime
<1>5. CASE SendNothing
  <2>1. kept => today < Deadline
    BY <1>0, <1>1, <1>5, SentAtDeadline DEF SendNothing
  <2> QED BY <1>0, <1>1, <1>3, <1>5, <2>1 DEF SendNothing, InTime
<1>6. CASE NoJob
  BY <1>0, <1>1, <1>3, <1>6 DEF NoJob, InTime
<1>7. CASE NextDay
  BY <1>0, <1>1, <1>3, <1>7 DEF NextDay, InTime
<1>8. CASE UNCHANGED reportVars
  BY <1>3, <1>8 DEF reportVars, InTime
<1>9. ASSUME NEW n \in TimeRanges, SetTimeRange(n) PROVE InTime'
  BY <1>9 DEF SetTimeRange, InTime
<1> QED BY <1>2, <1>4, <1>5, <1>6, <1>7, <1>8, <1>9 DEF ReportNext

LEMMA InTimeAlways ==
     ReportSpec => [](Remembered /\ Types /\ InTime)
<1>1. ReportInit => Types /\ InTime
  <2> SUFFICES ASSUME ReportInit PROVE Types /\ InTime
    OBVIOUS
  <2>1. FirstDay \in Int /\ MaxFaults \in Nat
    BY CalendarAssumption, TimeRangeAssumption
  <2>2. window.start \in Int
    BY <2>1 DEF ReportInit, Never
  <2>3. pending \in BOOLEAN /\ kept \in BOOLEAN /\ ~kept
    BY DEF ReportInit
  <2>4. timeRange \in TimeRanges /\ lastSent = Never /\ missed = 0 /\ lost = 0
    BY DEF ReportInit
  <2> QED BY <2>1, <2>2, <2>3, <2>4 DEF Types, InTime
<1> QED BY <1>1, RememberedAlways, TypesStep, InTimeStep, PTL DEF ReportSpec

\* The days, the preference and the counters stay in their types.
THEOREM ReportTypes ==
     ReportSpec => []ReportTypeOK
<1>1. Remembered /\ Types => ReportTypeOK
  BY DEF Remembered, Types, ReportTypeOK
<1> QED BY <1>1, InTimeAlways, PTL

\* A user who keeps a preference is sent a report in every other period, for every
\* calendar; an evening that is lost delays it by a day.
THEOREM ReportsRegular ==
     ReportSpec => []EveryOtherPeriod
<1>1. InTime => EveryOtherPeriod
  BY DEF InTime, EveryOtherPeriod
<1> QED BY <1>1, InTimeAlways, PTL
=============================================================================
