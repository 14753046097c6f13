--------------------------- MODULE ReportSchedule ---------------------------
(***************************************************************************)
(* The backup reports of one user (rdiffweb/core/notification.py):         *)
(* report_job() runs every evening at execution_time and send_report()     *)
(* decides, from the calendar and from the time of the last report,        *)
(* whether one is sent.  Time is counted in days: the job of day d runs    *)
(* at 23:00 and midnight of day d comes before it.                         *)
(***************************************************************************)
EXTENDS Integers

CONSTANTS
    FirstDays,      \* the days that are the first of a month
    Monday,         \* a day that is a Monday
    FirstDay,       \* bound: the day the instance begins,
    LastDay,        \*        and the day it ends
    TimeRanges,     \* values of report_time_range in this instance
    MaxFaults       \* bound: evenings without a job, and commits that fail

\* Before every day there are the first days of that month and of the one before,
\* and a month has 28 to 31 days.
ASSUME CalendarAssumption ==
    /\ FirstDays \subseteq Int /\ Monday \in Int
    /\ FirstDay \in Int /\ LastDay \in Int /\ FirstDay <= LastDay
    /\ \A d \in FirstDay..LastDay : \E x, y \in FirstDays : x <= d /\ d < x + 31 /\ y \in (x-31)..(x-28)
    /\ \A x, y \in FirstDays : x < y => x + 28 <= y
ASSUME TimeRangeAssumption == TimeRanges \subseteq {0, 1, 7, 30} /\ MaxFaults \in Nat

Never == FirstDay - 1000

VARIABLES
    today,          \* the day
    pending,        \* the job of today is still to run
    timeRange,      \* users.report_time_range; 0 is "never"
    lastSent,       \* users.report_last_sent: a day, or Never for NULL
    window,         \* the days the last report was about (not part of the program)
    kept,           \* timeRange has not changed since that (not part of the program)
    missed, lost    \* evenings without a job, reports whose time was not committed

reportVars == <<today, pending, timeRange, lastSent, window, kept, missed, lost>>

-----------------------------------------------------------------------------
(***************************************************************************)
(* The calendar                                                            *)
(***************************************************************************)
\* now - timedelta(days=now.weekday())
MondayOf(d) == d - ((d - Monday) % 7)

\* d.replace(day=1)
FirstOfMonth(d) == CHOOSE x \in FirstDays : x <= d /\ \A y \in FirstDays : y <= d => y <= x

EndTime(d) == CASE timeRange = 30 -> FirstOfMonth(d)
                [] timeRange = 7  -> MondayOf(d)
                [] OTHER          -> d

\* Mutant: a month has thirty days.
StartTimeThirty(d) == EndTime(d) - timeRange
StartTime(d) == IF timeRange = 30 THEN FirstOfMonth(EndTime(d) - 27)
                                  ELSE EndTime(d) - timeRange

-----------------------------------------------------------------------------
ReportInit ==
    /\ today = FirstDay
    /\ pending = TRUE
    /\ timeRange \in TimeRanges
    /\ lastSent = Never
    /\ window = [start |-> Never, end |-> Never]
    /\ kept = FALSE
    /\ missed = 0 /\ lost = 0

\* The user, or an administrator, chooses another time range.
SetTimeRange(n) ==
    /\ n # timeRange
    /\ timeRange' = n
    /\ kept' = FALSE
    /\ UNCHANGED <<today, pending, lastSent, window, missed, lost>>

\* The query of report_job: jobs start seconds apart from 23:00, so that a report
\* sent exactly timeRange days ago may be found old enough or not.
Selected == timeRange > 0 /\ (lastSent # Never => today - lastSent > timeRange)
Borderline == timeRange > 0 /\ today - lastSent = timeRange

\* Mutants: the last report is not looked at again; a day is counted twice.
AlwaysToSend == TRUE
ToSendLater  == lastSent = Never \/ lastSent + 1 < StartTime(today)
ToSend == lastSent = Never \/ lastSent < StartTime(today)

\* The value of report_last_sent.
SentAt == today

SendReport ==
    /\ pending
    /\ Selected \/ Borderline
    /\ ToSend
    /\ pending' = FALSE
    /\ lastSent' = SentAt
    /\ window' = [start |-> StartTime(today), end |-> EndTime(today)]
    /\ kept' = TRUE
    /\ UNCHANGED <<today, timeRange, missed, lost>>

\* The report is queued, but report_last_sent is not committed.
SendButNotCommit ==
    /\ pending
    /\ Selected \/ Borderline
    /\ ToSend
    /\ missed + lost < MaxFaults
    /\ lost' = lost + 1
    /\ pending' = FALSE
    /\ window' = [start |-> StartTime(today), end |-> EndTime(today)]
    /\ UNCHANGED <<today, timeRange, lastSent, kept, missed>>

SendNothing ==
    /\ pending
    /\ ~Selected \/ ~ToSend
    /\ pending' = FALSE
    /\ UNCHANGED <<today, timeRange, lastSent, window, kept, missed, lost>>

\* The server is down at 23:00, or an exception ends the job for this user.
NoJob ==
    /\ pending
    /\ missed + lost < MaxFaults
    /\ missed' = missed + 1
    /\ pending' = FALSE
    /\ UNCHANGED <<today, timeRange, lastSent, window, kept, lost>>

NextDay ==
    /\ ~pending
    /\ today < LastDay
    /\ today' = today + 1
    /\ pending' = TRUE
    /\ UNCHANGED <<timeRange, lastSent, window, kept, missed, lost>>

ReportNext ==
    \/ \E n \in TimeRanges : SetTimeRange(n)
    \/ SendReport \/ SendButNotCommit \/ SendNothing \/ NoJob
    \/ NextDay

ReportSpec == ReportInit /\ [][ReportNext]_reportVars

-----------------------------------------------------------------------------
(***************************************************************************)
(* Properties                                                              *)
(***************************************************************************)
ReportTypeOK ==
    /\ today \in FirstDay..LastDay
    /\ pending \in BOOLEAN
    /\ timeRange \in TimeRanges
    /\ lastSent \in {Never} \cup FirstDay..today
    /\ window.end \in {Never} \cup Int /\ window.start \in Int
    /\ kept \in BOOLEAN
    /\ missed \in Nat /\ lost \in Nat /\ missed + lost <= MaxFaults

Sent == window' # window

\* No day is part of two reports, whatever the user prefers meanwhile, as long as
\* the time of every report is committed (notification.py:406-408).
NoDayReportedTwice ==
    [][Sent /\ lost = 0 => window'.start >= window.end]_reportVars

\* A report is about a whole day, week or month that is over.
WholePeriod ==
    [][Sent => LET w == window' IN
         /\ w.start < w.end /\ w.end <= today
         /\ timeRange = 1 => w.end = w.start + 1
         /\ timeRange = 7 => w.end = w.start + 7 /\ (w.end - Monday) % 7 = 0
         /\ timeRange = 30 => /\ {w.start, w.end} \subseteq FirstDays
                              /\ FirstDays \cap ((w.start + 1)..(w.end - 1)) = {}]_reportVars

\* The day by which the code sends the next report, and the day for which the
\* preferences promise it.
Deadline == CASE timeRange = 1  -> lastSent + 2
              [] timeRange = 7  -> MondayOf(lastSent) + 14
              [] timeRange = 30 -> FirstOfMonth(lastSent) + 62
              [] OTHER          -> LastDay
Promised == CASE timeRange = 1  -> lastSent + 1
              [] timeRange = 7  -> MondayOf(lastSent) + 7
              [] timeRange = 30 -> CHOOSE x \in FirstDays : x > lastSent /\ \A y \in FirstDays : y > lastSent => x <= y
              [] OTHER          -> LastDay

\* A user who keeps a preference is sent a report in every other period at least;
\* an evening on which the job fails delays it by a day and not by a period.  It is less
\* than the preferences promise, see EveryPeriod: a report is too recent for the next
\* one when it was sent in the evening of the day on which that one begins
\* (notification.py:443).
EveryOtherPeriod == ~pending /\ kept => today < Deadline + missed + lost

\* "Daily - Receive a report every day", "Weekly - Receive a report every Monday
\* morning", "Monthly - Receive a report on the first day of each month"
\* (page_pref_notification.py:36-38), were it only in the evening of that day.
EveryPeriod == ~pending /\ kept => today < Promised + missed + lost
=============================================================================
