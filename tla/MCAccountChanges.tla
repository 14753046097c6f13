-------------------------- MODULE MCAccountChanges ---------------------------
(* Small instances of AccountChanges for TLC. *)
EXTENDS AccountChanges, TLC

\* Two-factor authentication is only ever switched on, by the form that sets a
\* password, too; the API changes the email.
SwitchedOn(f) == \A o \in ToSet(f) : o.op = "set" /\ "mfa" \in DOMAIN o.values => o.values.mfa

Requested ==
    {f \in EditForms : SwitchedOn(f)} \cup TokenForms \cup SshForms \cup SessionForms
      \cup {a \o f : a \in ByToken(TRUE), f \in ApiUserForms} \cup ByPassword

Symmetry == Permutations(Threads) \cup Permutations(Emails) \cup Permutations(Passwords)
=============================================================================
