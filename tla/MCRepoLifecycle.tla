-------------------------- MODULE MCRepoLifecycle --------------------------
(* Small instances of RepoLifecycle for TLC. *)
EXTENDS RepoLifecycle, TLC

\* Sound for invariants and action properties: no value of these sets is named.
Symmetry == Permutations(Users) \cup Permutations(Roots) \cup Permutations(Paths)
            \cup Permutations(Threads) \cup Permutations(Slots)
=============================================================================
