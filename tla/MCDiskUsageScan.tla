-------------------------- MODULE MCDiskUsageScan ---------------------------
(* Small instances of DiskUsageScan for TLC. *)
EXTENDS DiskUsageScan, TLC

Symmetry == Permutations(Repos)
=============================================================================
