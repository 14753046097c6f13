--------------------------- MODULE MCNotification ---------------------------
(* The two jobs of core/notification.py, each explored while the other rests: *)
(* they share no variable.                                                    *)
EXTENDS MCRepoStatus, MCReportSchedule

StatusRests == Init /\ settings = CHOOSE s \in [Repos -> Settings] : TRUE
ReportRests == ReportInit /\ timeRange = CHOOSE n \in TimeRanges : TRUE

NotificationInit == Init /\ ReportInit /\ (StatusRests \/ ReportRests)
NotificationNext ==
    \/ ReportRests /\ Next /\ UNCHANGED reportVars
    \/ StatusRests /\ ReportNext /\ UNCHANGED vars
NotificationSpec == NotificationInit /\ [][NotificationNext]_<<vars, reportVars>>
=============================================================================
