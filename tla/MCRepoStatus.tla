---------------------------- MODULE MCRepoStatus ----------------------------
(* Small instances of RepoStatus for TLC. *)
EXTENDS RepoStatus, TLC

\* No backup expected at weekends, or three days a week; short retention.
Weekends == [maxage |-> 2, inactivity |-> 3, ignored |-> {5, 6}, keepdays |-> 1]
MostDays == [maxage |-> 3, inactivity |-> 3, ignored |-> {0, 2, 3}, keepdays |-> 2]
EveryDay == [maxage |-> 1, inactivity |-> 2, ignored |-> {}, keepdays |-> -1]

SomeSettings == {Weekends, MostDays}
SomeGiven == {{"inactivity"}, {"maxage", "ignored", "keepdays"}}
WatchedOrNot == {EveryDay, [EveryDay EXCEPT !.inactivity = 0]}
Symmetry == Permutations(Pids) \cup Permutations(Repos)
=============================================================================
