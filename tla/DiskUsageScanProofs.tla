------------------------ MODULE DiskUsageScanProofs ------------------------
(***************************************************************************)
(* Theorems about DiskUsageScan, for any repositories, folders and sizes   *)
(* and any resolution of the column LastUpdated: the types, that a scan    *)
(* keeps the rows it wrote, and that what it shows is what du printed.     *)
(***************************************************************************)
EXTENDS DiskUsageScan, TLAPS

Scanning == job.pc \in {"du", "update"}

\* The fields of the job, whatever they hold.
JobFields ==
    job = [pc |-> job.pc, left |-> job.left, repo |-> job.repo, start |-> job.start,
           todo |-> job.todo, got |-> job.got, fresh |-> job.fresh,
           changed |-> job.changed, faulty |-> job.faulty]

\* A scan began at least the margin ago; the line it is about to store is one of du.
Begun ==
    Scanning => /\ job.repo \in Repos
                /\ job.start \in Int /\ job.start + Second <= now
Got ==
    job.pc = "update" =>
        \E part \in Parts, f \in Folders, size \in Sizes :
            /\ job.got = <<part, f, size>>
            /\ <<part, f>> \notin job.todo
            /\ ~job.changed => disk[job.repo][<<part, f>>] = size

\* What was visited has its size in a row that this scan wrote.
Pending(part, f) ==
    \/ <<part, f>> \in job.todo
    \/ job.pc = "update" /\ job.got[1] = part /\ job.got[2] = f
Stored ==
    (Scanning /\ ~job.changed /\ ~job.faulty /\ (ForeignKeys => job.repo \in known)) =>
        \A part \in Parts, f \in Folders :
            (~Pending(part, f) /\ disk[job.repo][<<part, f>>] # None) =>
                /\ rows[job.repo][f][part] = disk[job.repo][<<part, f>>]
                /\ rows[job.repo][f].at >= job.start

IInv == TypeOK /\ JobFields /\ Begun /\ Got /\ FreshRowsAreKept /\ Stored

LEMMA Constants ==
    /\ Sizes \subseteq Nat /\ None \notin Sizes
    /\ Second \in Nat \ {0} /\ Horizon \in Nat
BY SizesAssumption, TimeAssumption DEF SizesAssumption, TimeAssumption, None

-----------------------------------------------------------------------------
(***************************************************************************)
(* Rows                                                                    *)
(***************************************************************************)
\* The second of an instant is less than a second before it.
LEMMA SecondOf ==
    ASSUME NEW t \in 0..Horizon
    PROVE  LastUpdated(t) \in 0..Horizon /\ t - Second < LastUpdated(t)
<1>1. t \in Nat /\ Second \in Nat /\ Second > 0 /\ Horizon \in Nat
  BY Constants
<1>2. t % Second \in 0..(Second - 1)
  BY <1>1
<1>3. t % Second <= t
  BY <1>1
<1> QED BY <1>1, <1>2, <1>3 DEF LastUpdated

\* Writing one size of a row leaves the other.
LEMMA WrittenRow ==
    ASSUME NEW row \in Row, NEW part \in Parts, NEW size \in Sizes, NEW t \in 0..Horizon
    PROVE  /\ Written(row, part, size, t) \in Row
           /\ Written(row, part, size, t)[part] = size
           /\ Written(row, part, size, t).at = LastUpdated(t)
           /\ \A other \in Parts \ {part} : Written(row, part, size, t)[other] = row[other]
<1>1. LastUpdated(t) \in -1..Horizon
  BY SecondOf
<1>2. CASE part = "mirror"
  BY <1>1, <1>2 DEF Written, Row, Parts
<1>3. CASE part = "increments"
  BY <1>1, <1>3 DEF Written, Row, Parts
<1> QED BY <1>2, <1>3 DEF Parts

LEMMA NoRowIsRow == NoRow \in Row
BY Constants DEF NoRow, Row, None

-----------------------------------------------------------------------------
(***************************************************************************)
(* The inductive invariant                                                 *)
(***************************************************************************)
LEMMA InvInit == ASSUME Init PROVE IInv
<1>1. job = Idle /\ now = 0 /\ known = Repos /\ pending = {"now"} /\ changes = 0 /\ faults = 0
  BY DEF Init
<1>2. job.pc = "idle" /\ JobFields
  BY <1>1 DEF Idle, JobFields
<1>3. rows \in [Repos -> [Folders -> Row]]
  BY NoRowIsRow DEF Init
<1>4. disk \in [Repos -> [Lines -> {None} \cup Sizes]]
  BY DEF Init
<1>5. changes \in 0..MaxChanges /\ faults \in 0..MaxFaults
  BY <1>1, BoundsAssumption DEF BoundsAssumption
<1>6. TypeOK
  BY <1>1, <1>2, <1>3, <1>4, <1>5, Constants DEF Idle, TypeOK, Triggers
<1> QED BY <1>2, <1>6 DEF IInv, Begun, Got, Stored, Scanning, FreshRowsAreKept

\* A failure is counted.
LEMMA CountStep ==
    Count(faults, MaxFaults) => faults < MaxFaults /\ faults' = faults + 1
BY DEF Count

\* Steps around the job.
LEMMA AroundStep ==
    ASSUME IInv, Tick \/ Daily \/ Restart \/ \E t \in Triggers : TryLock(t)
    PROVE  IInv'
<1> USE DEF Scanning, Begun, Got, Stored, FreshRowsAreKept, Pending
<1>1. now \in Nat /\ Second \in Nat
  BY Constants DEF IInv, TypeOK
<1>2. CASE Tick
  <2>1. UNCHANGED <<known, disk, rows, pending, job, changes, faults>> /\ now' = now + 1 /\ now' \in 0..Horizon
    BY <1>2, Constants DEF Tick, IInv, TypeOK
  <2>2. TypeOK' /\ JobFields'
    BY <2>1 DEF IInv, TypeOK, JobFields, Row
  <2>3. Begun'
    BY <1>1, <2>1 DEF IInv
  <2>4. Got' /\ FreshRowsAreKept' /\ Stored'
    BY <2>1 DEF IInv
  <2> QED BY <2>2, <2>3, <2>4 DEF IInv
<1>3. CASE Daily
  <2>1. UNCHANGED <<now, known, disk, rows, job, changes, faults>> /\ pending' \subseteq Triggers
    BY <1>3 DEF Daily, IInv, TypeOK, Triggers
  <2> QED BY <2>1 DEF IInv, TypeOK, JobFields
<1>4. CASE Restart
  <2>1. UNCHANGED <<now, known, disk, rows, changes>> /\ pending' \subseteq Triggers /\ job' = Idle
    BY <1>4 DEF Restart, Triggers
  <2>2. faults' \in 0..MaxFaults
    BY <1>4, BoundsAssumption DEF Restart, Count, IInv, TypeOK, BoundsAssumption
  <2> QED BY <2>1, <2>2 DEF IInv, TypeOK, JobFields, Idle
<1>5. CASE \E t \in Triggers : TryLock(t)
  <2>1. UNCHANGED <<now, known, disk, rows, changes, faults>> /\ pending' \subseteq Triggers
    BY <1>5 DEF TryLock, IInv, TypeOK
  <2>2. CASE job' = job
    BY <2>1, <2>2 DEF IInv, TypeOK, JobFields
  <2>3. CASE job.pc = "idle" /\ job' = [job EXCEPT !.pc = "load"]
    BY <2>1, <2>3 DEF IInv, TypeOK, JobFields
  <2> QED BY <1>5, <2>2, <2>3 DEF TryLock
<1> QED BY <1>2, <1>3, <1>4, <1>5

\* A change of the repository that is scanned is noted.
LEMMA ChangeStep ==
    ASSUME IInv, NEW r \in Repos,
           AddRepo(r) \/ DeleteRepo(r)
             \/ \E line \in Lines, size \in {None} \cup Sizes : ChangeDisk(r, line, size)
    PROVE  IInv'
<1> USE DEF Scanning, Begun, Got, Stored, FreshRowsAreKept, Pending
<1>1. /\ UNCHANGED <<now, pending, faults>> /\ changes' \in 0..MaxChanges
      /\ Touch(r) /\ \A q \in Repos \ {r} : disk'[q] = disk[q] /\ rows'[q] = rows[q]
      /\ \A q \in Repos \ {r} : q \in known' <=> q \in known
  BY BoundsAssumption DEF AddRepo, DeleteRepo, ChangeDisk, Count, IInv, TypeOK, BoundsAssumption
<1>2. /\ known' \subseteq Repos /\ disk' \in [Repos -> [Lines -> {None} \cup Sizes]]
      /\ rows' \in [Repos -> [Folders -> Row]]
  <2>1. CASE AddRepo(r)
    BY <2>1 DEF AddRepo, IInv, TypeOK
  <2>2. CASE DeleteRepo(r)
    <3>1. [f \in Folders |-> NoRow] \in [Folders -> Row]
      BY NoRowIsRow
    <3> QED BY <2>2, <3>1 DEF DeleteRepo, IInv, TypeOK
  <2>3. CASE \E line \in Lines, size \in {None} \cup Sizes : ChangeDisk(r, line, size)
    BY <2>3 DEF ChangeDisk, IInv, TypeOK
  <2> QED BY <2>1, <2>2, <2>3
<1>3. /\ JobFields' /\ job'.pc = job.pc /\ job'.left = job.left /\ job'.repo = job.repo
      /\ job'.start = job.start /\ job'.todo = job.todo /\ job'.got = job.got
      /\ job'.fresh = job.fresh /\ job'.faulty = job.faulty
      /\ job.repo = r => job'.changed = TRUE
      /\ job.repo # r => job'.changed = job.changed
  BY <1>1 DEF Touch, IInv, JobFields
<1>4. TypeOK'
  BY <1>1, <1>2, <1>3 DEF IInv, TypeOK
<1>5. Begun'
  BY <1>1, <1>3 DEF IInv
<1>7. Got'
  <2>1. SUFFICES ASSUME job.pc = "update" PROVE Got'
    BY <1>3
  <2>2. PICK part \in Parts, f \in Folders, size \in Sizes :
           /\ job.got = <<part, f, size>> /\ <<part, f>> \notin job.todo
           /\ ~job.changed => disk[job.repo][<<part, f>>] = size
    BY <2>1 DEF IInv
  <2>3. job'.got = <<part, f, size>> /\ <<part, f>> \notin job'.todo
    BY <1>3, <2>2
  <2>4. ~job'.changed => disk'[job'.repo][<<part, f>>] = size
    <3>1. job.repo \in Repos
      BY <2>1 DEF IInv
    <3> QED BY <1>1, <1>3, <2>2, <3>1
  <2> QED BY <2>3, <2>4
<1>8. Stored'
  <2>1. CASE job.repo = r
    BY <1>3, <2>1
  <2>2. CASE job.repo # r /\ Scanning
    BY <1>1, <1>3, <2>2 DEF IInv
  <2> QED BY <1>3, <2>1, <2>2
<1>6. FreshRowsAreKept'
  BY <1>1, <1>3 DEF IInv, AddRepo, DeleteRepo, ChangeDisk, TypeOK
<1> QED BY <1>3, <1>4, <1>5, <1>6, <1>7, <1>8 DEF IInv

\* Steps of the scan that write no row.
LEMMA ReadStep ==
    ASSUME IInv, LoadRepos \/ EndScan \/ DuFails
                   \/ (\E r \in Repos : ScanRepo(r)) \/ \E line \in Lines : PrintLine(line)
    PROVE  IInv'
<1> USE DEF Scanning, Begun, Got, Stored, FreshRowsAreKept, Pending
<1>1. UNCHANGED <<now, known, disk, rows, pending, changes>> /\ faults' \in 0..MaxFaults
  <2>1. UNCHANGED <<now, known, disk, rows, pending, changes>>
    BY DEF LoadRepos, EndScan, DuFails, ScanRepo, PrintLine
  <2>2. UNCHANGED faults \/ (faults < MaxFaults /\ faults' = faults + 1)
    BY CountStep DEF LoadRepos, EndScan, DuFails, ScanRepo, PrintLine
  <2>3. faults \in 0..MaxFaults /\ MaxFaults \in Nat
    BY BoundsAssumption DEF BoundsAssumption, IInv, TypeOK
  <2> QED BY <2>1, <2>2, <2>3
<1>2. CASE LoadRepos \/ EndScan
  <2>1. CASE job' = [job EXCEPT !.pc = "repos", !.left = known]
    BY <1>1, <2>1 DEF IInv, TypeOK, JobFields
  <2>2. CASE job' = Idle
    BY <1>1, <2>2 DEF IInv, TypeOK, JobFields, Idle
  <2> QED BY <1>2, <2>1, <2>2 DEF LoadRepos, EndScan, Release
<1>3. CASE DuFails
  <2>1. /\ JobFields' /\ job.pc = "du" /\ job'.pc = "du" /\ job'.left = job.left /\ job'.repo = job.repo
        /\ job'.start = job.start /\ job'.todo = {} /\ job'.fresh = job.fresh
        /\ job'.faulty = TRUE
    BY <1>3 DEF DuFails, IInv, JobFields
  <2> QED BY <1>1, <2>1 DEF IInv, TypeOK
<1>4. CASE \E r \in Repos : ScanRepo(r)
  <2>1. PICK r \in Repos : ScanRepo(r)
    BY <1>4
  <2>2. CASE job' = [job EXCEPT !.left = @ \ {r}]
    BY <1>1, <2>1, <2>2 DEF ScanRepo, IInv, TypeOK, JobFields
  <2>3. CASE job' # [job EXCEPT !.left = @ \ {r}]
    <3>1. /\ JobFields' /\ job'.pc = "du" /\ job'.left = job.left \ {r} /\ job'.repo = r
          /\ job'.start = Cutoff(now) /\ job'.fresh = {}
          /\ job'.todo = Lines \/ (job'.todo = {} /\ job'.faulty = TRUE)
      <4> DEFINE begin == [job EXCEPT !.pc = "du", !.left = @ \ {r}, !.repo = r, !.start = Cutoff(now),
                                      !.todo = Lines, !.fresh = {}, !.changed = FALSE, !.faulty = FALSE]
                 failed == [begin EXCEPT !.todo = {}, !.faulty = TRUE]
      <4>1. job' = begin \/ job' = failed
        BY <2>1, <2>3 DEF ScanRepo
      <4>2. JobFields
        BY DEF IInv
      <4>3. CASE job' = begin
        BY <4>2, <4>3 DEF JobFields
      <4>4. CASE job' = failed
        BY <4>2, <4>4 DEF JobFields
      <4> QED BY <4>1, <4>3, <4>4
    <3>2. Cutoff(now) \in Int /\ Cutoff(now) + Second = now
      BY Constants DEF Cutoff, IInv, TypeOK
    <3>3. TypeOK' /\ Begun'
      BY <1>1, <3>1, <3>2 DEF IInv, TypeOK
    <3>4. Got' /\ FreshRowsAreKept' /\ Stored'
      BY <1>1, <3>1 DEF Lines
    <3> QED BY <3>1, <3>3, <3>4 DEF IInv
  <2> QED BY <2>2, <2>3
<1>5. CASE \E line \in Lines : PrintLine(line)
  <2>1. PICK part \in Parts, f \in Folders : PrintLine(<<part, f>>)
    BY <1>5 DEF Lines
  <2> DEFINE line == <<part, f>>
  <2>2. /\ JobFields' /\ job.pc = "du" /\ job'.left = job.left /\ job'.repo = job.repo
        /\ job'.start = job.start /\ job'.todo = job.todo \ {line} /\ job'.fresh = job.fresh
        /\ job'.changed = job.changed /\ job'.faulty = job.faulty
    BY <2>1 DEF PrintLine, IInv, JobFields
  <2>3. job.repo \in Repos /\ line \in Lines /\ disk[job.repo][line] \in {None} \cup Sizes
    BY <2>2 DEF IInv, TypeOK, Lines
  <2>4. CASE disk[job.repo][line] = None
    <3>1. job'.pc = "du"
      BY <2>1, <2>4 DEF PrintLine, IInv, JobFields
    <3>2. TypeOK' /\ Begun' /\ Got' /\ FreshRowsAreKept'
      BY <1>1, <2>2, <3>1 DEF IInv, TypeOK
    <3>3. Stored'
      BY <1>1, <2>2, <2>4, <3>1 DEF IInv
    <3> QED BY <2>2, <3>2, <3>3 DEF IInv
  <2>5. CASE disk[job.repo][line] # None
    <3>1. job'.pc = "update" /\ job'.got = <<part, f, disk[job.repo][line]>>
      BY <2>1, <2>5 DEF PrintLine, IInv, JobFields
    <3>2. TypeOK' /\ Begun' /\ FreshRowsAreKept'
      BY <1>1, <2>2, <3>1 DEF IInv, TypeOK
    <3>3. Got'
      BY <1>1, <2>2, <2>3, <2>5, <3>1
    <3>4. Stored'
      BY <1>1, <2>2, <3>1 DEF IInv
    <3> QED BY <2>2, <3>2, <3>3, <3>4 DEF IInv
  <2> QED BY <2>4, <2>5
<1> QED BY <1>2, <1>3, <1>4, <1>5

\* _update_disk_usage: a row written now is newer than the start of the scan.
LEMMA UpdateStep == ASSUME IInv, UpdateRow PROVE IInv'
<1> USE DEF Scanning, Begun, Got, Stored, FreshRowsAreKept, Pending
<1>1. UNCHANGED <<now, known, disk, pending, changes>> /\ job.pc = "update"
  BY DEF UpdateRow
<1>2. faults' \in 0..MaxFaults
  <2>1. UNCHANGED faults \/ (faults < MaxFaults /\ faults' = faults + 1)
    BY CountStep DEF UpdateRow
  <2>2. faults \in 0..MaxFaults /\ MaxFaults \in Nat
    BY BoundsAssumption DEF BoundsAssumption, IInv, TypeOK
  <2> QED BY <2>1, <2>2
<1>3. PICK part \in Parts, f \in Folders, size \in Sizes :
         /\ job.got = <<part, f, size>> /\ <<part, f>> \notin job.todo
         /\ ~job.changed => disk[job.repo][<<part, f>>] = size
  BY <1>1 DEF IInv
<1> DEFINE r == job.repo
           row == Written(rows[r][f], part, size, now)
<1>4. r \in Repos /\ job.start \in Int /\ job.start + Second <= now /\ now \in 0..Horizon
  BY <1>1 DEF IInv, TypeOK
<1>5. rows \in [Repos -> [Folders -> Row]]
  BY DEF IInv, TypeOK
<1>6. CASE Accepted(r) /\ rows' = [rows EXCEPT ![r][f] = row]
                       /\ job' = [job EXCEPT !.pc = "du", !.got = <<>>, !.fresh = @ \cup {f}]
  <2>1. /\ JobFields' /\ job'.pc = "du" /\ job'.left = job.left /\ job'.repo = r
        /\ job'.start = job.start /\ job'.todo = job.todo /\ job'.fresh = job.fresh \cup {f}
        /\ job'.changed = job.changed /\ job'.faulty = job.faulty
    BY <1>6 DEF IInv, JobFields
  <2>2. /\ row \in Row /\ row[part] = size /\ row.at = LastUpdated(now)
        /\ \A other \in Parts \ {part} : row[other] = rows[r][f][other]
    BY <1>4, <1>5, WrittenRow
  <2>3. LastUpdated(now) >= job.start
    <3>1. LastUpdated(now) \in 0..Horizon /\ now - Second < LastUpdated(now)
      BY <1>4, SecondOf
    <3> QED BY <1>4, <3>1, Constants
  <2>4. /\ rows' \in [Repos -> [Folders -> Row]] /\ rows'[r][f] = row
        /\ \A g \in Folders \ {f} : rows'[r][g] = rows[r][g]
    BY <1>4, <1>5, <1>6, <2>2
  <2> HIDE DEF row
  <2>5. TypeOK' /\ Begun' /\ Got'
    BY <1>1, <1>2, <2>1, <2>4 DEF IInv, TypeOK
  <2>6. FreshRowsAreKept'
    BY <1>1, <2>1, <2>2, <2>3, <2>4 DEF IInv, TypeOK
  <2>7. Stored'
    <3> SUFFICES ASSUME ~job.changed, ~job.faulty, NEW p \in Parts, NEW g \in Folders,
                        <<p, g>> \notin job.todo, disk[r][<<p, g>>] # None
                 PROVE  rows'[r][g][p] = disk[r][<<p, g>>] /\ rows'[r][g].at >= job.start
      BY <1>1, <2>1
    <3>1. CASE p = part /\ g = f
      BY <1>3, <2>2, <2>3, <2>4, <3>1
    <3>2. CASE ~(p = part /\ g = f)
      <4>1. rows[r][g][p] = disk[r][<<p, g>>] /\ rows[r][g].at >= job.start
        BY <1>1, <1>3, <1>6, <3>2 DEF IInv, Accepted
      <4>2. CASE g # f
        BY <2>4, <4>1, <4>2
      <4>3. CASE g = f /\ p # part
        BY <2>2, <2>3, <2>4, <4>1, <4>3
      <4> QED BY <3>2, <4>2, <4>3
    <3> QED BY <3>1, <3>2
  <2> QED BY <2>1, <2>5, <2>6, <2>7 DEF IInv
<1>7. CASE /\ UNCHANGED rows
           /\ \/ ~Accepted(r) /\ job' = [job EXCEPT !.pc = "du", !.got = <<>>]
              \/ job' = [job EXCEPT !.pc = "du", !.got = <<>>, !.faulty = TRUE]
  <2>1. /\ JobFields' /\ job'.pc = "du" /\ job'.left = job.left /\ job'.repo = r
        /\ job'.start = job.start /\ job'.todo = job.todo /\ job'.fresh = job.fresh
        /\ job'.changed = job.changed /\ (~Accepted(r) \/ job'.faulty = TRUE)
    <3>1. JobFields
      BY DEF IInv
    <3>2. CASE ~Accepted(r) /\ job' = [job EXCEPT !.pc = "du", !.got = <<>>]
      BY <3>1, <3>2 DEF JobFields
    <3>3. CASE job' = [job EXCEPT !.pc = "du", !.got = <<>>, !.faulty = TRUE]
      BY <3>1, <3>3 DEF JobFields
    <3> QED BY <1>7, <3>2, <3>3
  <2>2. TypeOK' /\ Begun' /\ Got' /\ FreshRowsAreKept'
    BY <1>1, <1>2, <1>7, <2>1 DEF IInv, TypeOK
  <2>3. Stored'
    BY <1>1, <1>7, <2>1 DEF Accepted
  <2> QED BY <2>1, <2>2, <2>3 DEF IInv
<1>8. /\ job.got[1] = part /\ job.got[2] = f /\ job.got[3] = size
  BY <1>3
<1>9. JobFields
  BY DEF IInv
<1> DEFINE done == [job EXCEPT !.pc = "du", !.got = <<>>]
<1>10. /\ [done EXCEPT !.fresh = @ \cup {f}]
             = [job EXCEPT !.pc = "du", !.got = <<>>, !.fresh = @ \cup {f}]
       /\ [done EXCEPT !.faulty = TRUE] = [job EXCEPT !.pc = "du", !.got = <<>>, !.faulty = TRUE]
  BY <1>9 DEF JobFields
<1>11. \/ /\ Accepted(r) /\ rows' = [rows EXCEPT ![r][f] = Written(@, part, size, now)]
          /\ job' = [done EXCEPT !.fresh = @ \cup {f}]
       \/ ~Accepted(r) /\ UNCHANGED rows /\ job' = done
       \/ UNCHANGED rows /\ job' = [done EXCEPT !.faulty = TRUE]
  BY <1>8 DEF UpdateRow
<1>12. [rows EXCEPT ![r][f] = Written(@, part, size, now)] = [rows EXCEPT ![r][f] = row]
  BY <1>4, <1>5
<1> QED BY <1>6, <1>7, <1>10, <1>11, <1>12

\* What is pruned is neither fresh nor of another repository.
LEMMA PruneStep == ASSUME IInv, Prune PROVE IInv'
<1>1. UNCHANGED <<now, known, disk, pending, changes>> /\ job.pc = "du"
  BY DEF Prune
<1>2. faults' \in 0..MaxFaults
  <2>1. UNCHANGED faults \/ (faults < MaxFaults /\ faults' = faults + 1)
    BY CountStep DEF Prune
  <2>2. faults \in 0..MaxFaults /\ MaxFaults \in Nat
    BY BoundsAssumption DEF BoundsAssumption, IInv, TypeOK
  <2> QED BY <2>1, <2>2
<1>3. /\ JobFields' /\ job'.pc = "repos" /\ job'.left = job.left /\ job'.repo = None
      /\ job'.todo = job.todo /\ job'.fresh = {}
  BY DEF Prune, IInv, JobFields
<1>4. rows' \in [Repos -> [Folders -> Row]]
  <2>1. rows \in [Repos -> [Folders -> Row]] /\ job.repo \in Repos
    BY <1>1 DEF IInv, TypeOK, Begun, Scanning
  <2>2. Pruned(job.repo) \in [Folders -> Row]
    BY <2>1, NoRowIsRow DEF Pruned
  <2> QED BY <2>1, <2>2 DEF Prune
<1> QED
  BY <1>1, <1>2, <1>3, <1>4
     DEF IInv, TypeOK, Begun, Got, Stored, Scanning, FreshRowsAreKept

LEMMA InvStep == ASSUME IInv, [Next]_vars PROVE IInv'
<1>1. CASE UNCHANGED vars
  BY <1>1 DEF vars, IInv, TypeOK, JobFields, Begun, Got, Stored, Scanning, Pending, FreshRowsAreKept
<1>2. CASE Next
  BY <1>2, AroundStep, ChangeStep, ReadStep, UpdateStep, PruneStep DEF Next, ScanStep
<1> QED BY <1>1, <1>2

LEMMA Invariant == Spec => []IInv
<1>1. Init => IInv
  BY InvInit
<1>2. IInv /\ [Next]_vars => IInv'
  BY InvStep
<1> QED BY <1>1, <1>2, PTL DEF Spec

-----------------------------------------------------------------------------
(***************************************************************************)
(* The theorems                                                            *)
(***************************************************************************)
\* The type invariant, for any repositories, folders, sizes and faults: rows, disk
\* and job hold what the table, du and the thread can.
THEOREM TypeInvariant == Spec => []TypeOK
<1>1. IInv => TypeOK
  BY DEF IInv
<1> QED BY <1>1, Invariant, PTL

\* The prune at the end of a repository (diskusage.py) spares every row the scan
\* wrote, for any resolution of the column: the margin of one second is enough.
THEOREM FreshRows == Spec => []FreshRowsAreKept
<1>1. IInv => FreshRowsAreKept
  BY DEF IInv
<1> QED BY <1>1, Invariant, PTL

\* Only the prune ends the scan of a repository.
LEMMA PruneEnds ==
    ASSUME IInv, Next, job.pc = "du", job'.pc = "repos"
    PROVE  Prune
<1>1. JobFields
  BY DEF IInv
<1>2. ~(Tick \/ Daily \/ LoadRepos \/ UpdateRow \/ EndScan \/ \E r \in Repos : ScanRepo(r))
  BY DEF Tick, Daily, LoadRepos, UpdateRow, EndScan, ScanRepo
<1>3. ~Restart /\ ~DuFails
  <2>1. Idle.pc = "idle"
    BY DEF Idle
  <2>2. ~Restart
    BY <2>1 DEF Restart
  <2>3. [job EXCEPT !.todo = {}, !.faulty = TRUE].pc = job.pc
    BY <1>1 DEF JobFields
  <2> QED BY <2>2, <2>3 DEF DuFails
<1>4. ASSUME NEW t \in Triggers PROVE ~TryLock(t)
  BY DEF TryLock
<1>5. ASSUME NEW line \in Lines PROVE ~PrintLine(line)
  BY <1>1 DEF PrintLine, JobFields
<1>6. ASSUME NEW r \in Repos PROVE ~Touch(r)
  BY <1>1 DEF Touch, JobFields
<1>7. ASSUME NEW r \in Repos
      PROVE  /\ ~AddRepo(r) /\ ~DeleteRepo(r)
             /\ \A line \in Lines, size \in {None} \cup Sizes : ~ChangeDisk(r, line, size)
  BY <1>6 DEF AddRepo, DeleteRepo, ChangeDisk
<1> QED BY <1>2, <1>3, <1>4, <1>5, <1>7 DEF Next, ScanStep

\* What the browser shows after the scan of a repository that nobody changed is
\* what du printed of each folder (RepoObject.listdir), for any number of folders,
\* repositories and failures elsewhere.
THEOREM Accurate == Spec => ScanIsAccurate
<1> DEFINE Shows(r) ==
      (job.pc = "du" /\ job.repo = r /\ job'.pc = "repos" /\ ~job.faulty /\ ~job.changed
         /\ faults' = faults)
        => \A f \in Folders : \A part \in Parts :
              disk[r][<<part, f>>] # None => Shown(r, f, part)' = disk[r][<<part, f>>]
<1>1. IInv /\ [Next]_vars => [\A r \in known : Shows(r)]_vars
  <2> SUFFICES ASSUME IInv, Next, NEW r \in known,
                      job.pc = "du", job.repo = r, job'.pc = "repos", ~job.faulty,
                      ~job.changed, faults' = faults,
                      NEW f \in Folders, NEW part \in Parts, disk[r][<<part, f>>] # None
               PROVE  Shown(r, f, part)' = disk[r][<<part, f>>]
    OBVIOUS
  <2>1. Prune
    BY PruneEnds
  <2>2. ~Count(faults, MaxFaults)
    <3>1. faults \in Nat
      BY BoundsAssumption DEF IInv, TypeOK, BoundsAssumption
    <3> QED BY <3>1 DEF Count
  <2>3. job.todo = {} /\ rows' = [rows EXCEPT ![r] = Pruned(r)]
    BY <2>1, <2>2 DEF Prune
  <2>4. /\ r \in Repos /\ rows \in [Repos -> [Folders -> Row]] /\ job.start \in Int
        /\ rows[r][f].at \in Int
    <3>1. r \in Repos /\ rows \in [Repos -> [Folders -> Row]] /\ job.start \in Int
      BY DEF IInv, TypeOK, Begun, Scanning
    <3>2. rows[r][f] \in Row
      BY <3>1
    <3> QED BY <3>1, <3>2, Constants DEF Row
  <2>5. rows[r][f][part] = disk[r][<<part, f>>] /\ rows[r][f].at >= job.start
    BY <2>3 DEF IInv, Stored, Scanning, Pending
  <2>6. rows'[r][f] = rows[r][f]
    BY <2>3, <2>4, <2>5 DEF Pruned
  <2> QED BY <2>5, <2>6 DEF Shown
<1> QED BY <1>1, Invariant, PTL DEF Spec, ScanIsAccurate
=============================================================================
