------------------------- MODULE MCReportSchedule --------------------------
(* Small instances of ReportSchedule for TLC. *)
EXTENDS ReportSchedule

\* November to April of a year with a February of 28 days; day 1 is a Wednesday.
WinterFirstDays == {1, 31, 62, 93, 121, 152}
=============================================================================
