----------------------------- MODULE MCRepoTree -----------------------------
(* Small instances of RepoTree for TLC. *)
EXTENDS RepoTree, TLC

\* Sound for invariants and action properties: no version is distinguished.
Symmetry == Permutations(Versions)

\* The disk waits for a page that has read everything.  Nothing is lost: Disturb only
\* weakens what is claimed of such a page, and no other step changes it.
PromptNext == Next /\ \A t \in Threads : Answered(req[t]) => Answer(t)
PromptSpec == Init /\ [][PromptNext]_vars
=============================================================================
