------------------------- MODULE MCAuthorizedKeys --------------------------
(* Small instances of AuthorizedKeys for TLC. *)
EXTENDS AuthorizedKeys, TLC

\* Sound for invariants: no user, directory, key or thread is distinguished.
Symmetry == Permutations(Accounts) \cup Permutations(Outside) \cup Permutations(PublicKeys)
            \cup Permutations(Workers)
=============================================================================
