--------------------------- MODULE AuthorizedKeys ---------------------------
(***************************************************************************)
(* The authorized_keys file of the Minarca server                          *)
(* (minarca_server/plugins/minarca.py) beside the database it is made      *)
(* from.  A commit that changes the keys, the root or the status of a user *)
(* leaves a callback that rewrites the whole file: it reads the table,     *)
(* opens the file, which empties it, and writes.  Nothing keeps the        *)
(* callbacks of two threads apart.                                         *)
(***************************************************************************)
EXTENDS Naturals, FiniteSets

CONSTANTS
    Accounts,       \* users; u also stands for the directory of u in the base directory
    Outside,        \* directories whose path does not start with that of the base directory
    PublicKeys,     \* public keys
    Workers,        \* threads of requests and jobs
    Starter,        \* the thread that starts the server
    NoUser,         \* the user of a key that is in no account
    Restricted,     \* minarca-restricted-to-base-dir
    MaxChanges,     \* bound: commits
    MaxFaults,      \* bound: callbacks that fail
    MaxCrashes      \* bound: restarts of the server

ASSUME WorkersAssumption == Starter \notin Workers /\ NoUser \notin Accounts
ASSUME RootsAssumption   == Restricted \in BOOLEAN /\ Outside \cap Accounts = {}
ASSUME KeysBoundsAssumption == MaxChanges \in Nat /\ MaxFaults \in Nat /\ MaxCrashes \in Nat

VARIABLES
    status,         \* users.status, "new" before the INSERT, "gone" after the DELETE
    root,           \* users.UserRoot
    owner,          \* table sshkeys: the user of a key
    file,           \* the lines of authorized_keys
    sync,           \* where each thread is in _update_authorized_keys()
    unsure,         \* a rewrite was disturbed and none undisturbed began since
                    \* (not part of the program)
    changes, faults, crashes

tables == <<status, root, owner>>
keysVars == <<status, root, owner, file, sync, unsure, changes, faults, crashes>>

Writers == Workers \cup {Starter}
Roots   == Accounts \cup Outside
Line    == PublicKeys \X Accounts \X Roots

NoCallback == [pc |-> "idle"]
Due        == [pc |-> "due"]
Sync == {NoCallback, Due} \cup [pc : {"read", "open"}, lines : SUBSET Line]

-----------------------------------------------------------------------------
\* The keys of the users that may connect, with the root the key is bound to.
Wanted ==
    {<<k, owner[k], root[owner[k]]>> :
        k \in {x \in PublicKeys : owner[x] # NoUser /\ status[owner[x]] \notin {"disabled", "deleting"}}}

\* _get_user_root(): a root outside of the base directory is replaced.
\* Mutant: whatever was chosen is kept.
ConfineNot(u, dir) == dir
Confine(u, dir) == IF Restricted /\ dir \in Outside THEN u ELSE dir

\* The attributes whose change has the file rewritten.
\* Mutant: a change of the status is forgotten.
ConcernsButStatus(attr) == attr \in {"authorizedkeys", "user_root", "deleted"}
Concerns(attr) == attr \in {"authorizedkeys", "user_root", "status", "deleted"}

Live(u) == status[u] \notin {"new", "gone"}

Rewriting(t) == sync[t].pc \in {"read", "open"}

-----------------------------------------------------------------------------
KeysInit ==
    /\ status = [u \in Accounts |-> "new"]
    /\ root = [u \in Accounts |-> u]
    /\ owner = [k \in PublicKeys |-> NoUser]
    /\ file = {}
    /\ sync = [t \in Writers |-> IF t = Starter THEN Due ELSE NoCallback]
    /\ unsure = TRUE
    /\ changes = 0 /\ faults = 0 /\ crashes = 0

-----------------------------------------------------------------------------
(***************************************************************************)
(* Commits                                                                 *)
(***************************************************************************)
\* A transaction of thread t that changes attribute attr of a user is committed.
CommitChange(t, attr) ==
    /\ sync[t] = NoCallback
    /\ changes < MaxChanges
    /\ changes' = changes + 1
    /\ sync' = [sync EXCEPT ![t] = IF Concerns(attr) THEN Due ELSE NoCallback]
    /\ UNCHANGED <<file, unsure, faults, crashes>>

\* A new user has no key yet: the file stays as it is.
KeysAddUser(t, u, dir) ==
    /\ status[u] = "new"
    /\ status' = [status EXCEPT ![u] = ""]
    /\ root' = [root EXCEPT ![u] = Confine(u, dir)]
    /\ UNCHANGED owner
    /\ CommitChange(t, "added")

\* A key belongs to one account.
AddKey(t, u, k) ==
    /\ Live(u)
    /\ owner[k] = NoUser
    /\ owner' = [owner EXCEPT ![k] = u]
    /\ UNCHANGED <<status, root>>
    /\ CommitChange(t, "authorizedkeys")

DeleteKey(t, k) ==
    /\ owner[k] # NoUser
    /\ owner' = [owner EXCEPT ![k] = NoUser]
    /\ UNCHANGED <<status, root>>
    /\ CommitChange(t, "authorizedkeys")

\* Only a user that is disabled is made active.
SetStatus(t, u, s) ==
    /\ Live(u)
    /\ status[u] # s
    /\ s = "" => status[u] = "disabled"
    /\ status' = [status EXCEPT ![u] = s]
    /\ UNCHANGED <<root, owner>>
    /\ CommitChange(t, "status")

\* user_updating() corrects the root before it is stored.
SetRoot(t, u, dir) ==
    /\ Live(u)
    /\ Confine(u, dir) # root[u]
    /\ root' = [root EXCEPT ![u] = Confine(u, dir)]
    /\ UNCHANGED <<status, owner>>
    /\ CommitChange(t, "user_root")

\* The keys of a user are deleted with him.
DeleteUser(t, u) ==
    /\ Live(u)
    /\ status' = [status EXCEPT ![u] = "gone"]
    /\ owner' = [k \in PublicKeys |-> IF owner[k] = u THEN NoUser ELSE owner[k]]
    /\ UNCHANGED root
    /\ CommitChange(t, "deleted")

-----------------------------------------------------------------------------
(***************************************************************************)
(* _update_authorized_keys()                                               *)
(***************************************************************************)
\* The query.  A rewrite that nobody else is in the middle of can be relied upon.
Read(t) ==
    /\ sync[t] = Due
    /\ sync' = [sync EXCEPT ![t] = [pc |-> "read", lines |-> Wanted]]
    /\ unsure' = (\E o \in Writers \ {t} : Rewriting(o))
    /\ UNCHANGED <<tables, file, changes, faults, crashes>>

\* open(filename, 'w')
Open(t) ==
    /\ sync[t].pc = "read"
    /\ file' = {}
    /\ sync' = [sync EXCEPT ![t].pc = "open"]
    /\ UNCHANGED <<tables, unsure, changes, faults, crashes>>

\* The text is written from the start of the file.  What another thread wrote
\* after open() is overwritten in part or in full, or not at all by an empty text; a
\* line cut in two is no line.
Write(t) ==
    /\ sync[t].pc = "open"
    /\ \E tail \in SUBSET file :
         /\ sync[t].lines = {} => tail = file
         /\ sync[t].lines # {} /\ file # {} => tail # file
         /\ file' = sync[t].lines \cup tail
    /\ sync' = [sync EXCEPT ![t] = NoCallback]
    /\ UNCHANGED <<tables, unsure, changes, faults, crashes>>

\* A callback published before it raises and takes this one along, or this one
\* fails at any point: an error is logged and nothing tries again.
RewriteFails(t) ==
    /\ sync[t] # NoCallback
    /\ faults < MaxFaults
    /\ faults' = faults + 1
    /\ sync' = [sync EXCEPT ![t] = NoCallback]
    /\ unsure' = TRUE
    /\ UNCHANGED <<tables, file, changes, crashes>>

\* The server stops and starts: late_start() rewrites the file beside the requests.
Restart ==
    /\ crashes < MaxCrashes
    /\ crashes' = crashes + 1
    /\ sync' = [t \in Writers |-> IF t = Starter THEN Due ELSE NoCallback]
    /\ unsure' = TRUE
    /\ UNCHANGED <<tables, file, changes, faults>>

-----------------------------------------------------------------------------
Change(t) ==
    \/ \E u \in Accounts, dir \in Roots : KeysAddUser(t, u, dir) \/ SetRoot(t, u, dir)
    \/ \E u \in Accounts, k \in PublicKeys : AddKey(t, u, k)
    \/ \E k \in PublicKeys : DeleteKey(t, k)
    \/ \E u \in Accounts, s \in {"", "disabled", "deleting"} : SetStatus(t, u, s)
    \/ \E u \in Accounts : DeleteUser(t, u)

Rewrite(t) == Read(t) \/ Open(t) \/ Write(t)

KeysNext ==
    \/ \E t \in Workers : Change(t)
    \/ \E t \in Writers : Rewrite(t) \/ RewriteFails(t)
    \/ Restart

KeysSpec == KeysInit /\ [][KeysNext]_keysVars

-----------------------------------------------------------------------------
(***************************************************************************)
(* Properties                                                              *)
(***************************************************************************)
\* Every variable holds a value of its type; in particular a line, in the file
\* or on its way there, is for a user and a directory.
KeysTypeOK ==
    /\ status \in [Accounts -> {"new", "", "disabled", "deleting", "gone"}]
    /\ root \in [Accounts -> Roots]
    /\ owner \in [PublicKeys -> Accounts \cup {NoUser}]
    /\ file \in SUBSET Line
    /\ sync \in [Writers -> Sync]
    /\ unsure \in BOOLEAN
    /\ changes \in 0..MaxChanges /\ faults \in 0..MaxFaults /\ crashes \in 0..MaxCrashes

\* Once all callbacks have run the file holds the keys of the users that may
\* connect and no others, whatever was committed meanwhile and in whatever order
\* the callbacks ran; unless two of them overlapped or one failed, and only until
\* the next one that runs alone.
FileIsCurrent ==
    (\A t \in Writers : sync[t] = NoCallback) /\ ~unsure => file = Wanted

\* With the restriction no key is ever bound to a directory outside of the base
\* directory, not in the file and not in what a thread is about to write.
BoundToBaseDir ==
    Restricted =>
        \A line \in file \cup UNION {sync[t].lines : t \in {x \in Writers : Rewriting(x)}} :
            line[3] \notin Outside
=============================================================================
