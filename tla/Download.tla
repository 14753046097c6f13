------------------------------ MODULE Download ------------------------------
(***************************************************************************)
(* What a user is promised when he downloads files of an earlier backup:   *)
(* files are put in an archive one by one, the archive arrives in order    *)
(* and without gaps, a download that ends by itself has all of it, and one *)
(* that was refused never had any, unless what makes the archive broke.    *)
(* Implemented by RestorePipe.                                             *)
(***************************************************************************)
EXTENDS Naturals, Sequences

CONSTANTS Restores,     \* the downloads
          File          \* what can be put in an archive

VARIABLES phase,        \* how far each download is
          archive,      \* files put in its archive so far
          body,         \* files that reached the client
          broken        \* what makes the archive broke: the end of it may be lost

vars == <<phase, archive, body, broken>>

Phases == {"idle", "busy", "sending", "refused", "complete", "cut"}

Init ==
    /\ phase = [k \in Restores |-> "idle"]
    /\ archive = [k \in Restores |-> <<>>]
    /\ body = [k \in Restores |-> <<>>]
    /\ broken = [k \in Restores |-> FALSE]

Move(k, from, to) ==
    /\ phase[k] = from
    /\ phase' = [phase EXCEPT ![k] = to]
    /\ UNCHANGED <<archive, body, broken>>

Ask(k) == Move(k, "idle", "busy")

\* One more file; also after the client went away.
Put(k, f) ==
    /\ phase[k] \in {"busy", "sending", "cut"}
    /\ ~broken[k]
    /\ archive' = [archive EXCEPT ![k] = Append(@, f)]
    /\ UNCHANGED <<phase, body, broken>>

Accept(k) == Move(k, "busy", "sending")
Refuse(k) == Move(k, "busy", "refused") /\ (archive[k] = <<>> \/ broken[k])

\* The next file of the archive, whichever it is.
Send(k) ==
    /\ phase[k] = "sending"
    /\ Len(body[k]) < Len(archive[k])
    /\ body' = [body EXCEPT ![k] = Append(@, archive[k][Len(@) + 1])]
    /\ UNCHANGED <<phase, archive, broken>>

Complete(k) == Move(k, "sending", "complete") /\ (body[k] = archive[k] \/ broken[k])
Cut(k)      == Move(k, "sending", "cut")

\* Nothing more is put in the archive, and what was not sent on yet is lost.
Break(k) ==
    /\ ~broken[k]
    /\ broken' = [broken EXCEPT ![k] = TRUE]
    /\ UNCHANGED <<phase, archive, body>>

Next == \E k \in Restores :
    \/ Ask(k) \/ Accept(k) \/ Refuse(k) \/ Send(k) \/ Complete(k) \/ Cut(k) \/ Break(k)
    \/ \E f \in File : Put(k, f)

Spec == Init /\ [][Next]_vars
=============================================================================
