--------------------------- MODULE MCRestorePipe ---------------------------
(* Small instances of RestorePipe for TLC. *)
EXTENDS RestorePipe, TLC

First == CHOOSE k \in Restores : TRUE

\* One user asks for a directory in a tar, another for one file in a zip.
DirectoryAndFile ==
    [k \in Restores |-> IF k = First THEN {<<TRUE, "tar">>} ELSE {<<FALSE, "zip">>}]
=============================================================================
