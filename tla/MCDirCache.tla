---------------------------- MODULE MCDirCache -----------------------------
(* Small instances of DirCache for TLC. *)
EXTENDS DirCache, TLC

\* Sound for invariants: no directory, name or thread is distinguished.
Symmetry == Permutations(Dirs) \cup Permutations(Names) \cup Permutations(Threads)
=============================================================================
