---------------------------- MODULE SchemaUpdate ----------------------------
(***************************************************************************)
(* The start of the server on a database of an older version: columns,     *)
(* indexes and constraints are added, data is carried over and records of  *)
(* repositories are put in order, statement by statement.  The server may  *)
(* be killed at any of them, and is used between two starts.               *)
(*                                                                         *)
(* rdiffweb/core/model/_update.py and the after_create listeners of        *)
(* _user.py, _message.py, _repo.py, _session.py, _sshkey.py, _token.py, in *)
(* the order in which they are registered.                                 *)
(***************************************************************************)
EXTENDS Integers, Sequences, FiniteSets, SequencesExt

CONSTANTS
    Users,      \* records of users
    Names,      \* usernames, but for upper and lower case
    BadNames,   \* those the pattern refuses
    Emails,     \* email addresses, but for upper and lower case
    Repos,      \* records of repositories
    Paths,      \* a sequence: paths, in the order in which the database sorts them
    Below,      \* pairs <<p, q>> of them: q begins with p and a slash
    Versions,   \* bound: databases of older versions, but for their users
    MaxStarts,  \* bound: starts of the server
    MaxEdits    \* bound: changes by its users

ASSUME NamesAssumption == BadNames \subseteq Names /\ "" \notin Emails \cup Names
ASSUME ReposAssumption == IsFiniteSet(Repos)
ASSUME PathsAssumption ==
    /\ Paths \in Seq(ToSet(Paths)) /\ IsInjective(Paths)
    /\ \A pq \in Below : \E i, j \in DOMAIN Paths : pq = <<Paths[i], Paths[j]>> /\ i < j
ASSUME BoundsAssumption == MaxStarts \in Nat /\ MaxEdits \in Nat

VARIABLES
    engine,     \* the database: "sqlite" or "postgresql"
    saved,      \* the database, as it is on the disk
    db,         \* the database, as the connection of the update sees it
    tx,         \* that connection is in a transaction
    pc,         \* the statement the update is at; 0 when the server is stopped
    cfg,        \* option login-with-email
    before,     \* the database as the update that is running or has run last found it
    last,       \* the database as the last update that was completed left it
    starts, edits

vars == <<engine, saved, db, tx, pc, cfg, before, last, starts, edits>>
rest == <<engine, cfg, before, last, starts, edits>>

\* A column is not there, there with NULLs, there with its default, or there
\* with what older columns say.
Column  == {"missing", "null", "default", "carried"}
\* One stands for those of its kind.
UserColumns    == {"role", "lang", "status"}
MessageColumns == {"author"}
RepoColumns    == {"inactivity"}
KeyColumns     == {"access_time"}
TokenColumns   == {"scope"}
Columns == UserColumns \cup MessageColumns \cup RepoColumns \cup KeyColumns \cup TokenColumns
Carried == {"role", "author", "scope"}  \* their values come from other columns
Filled  == {"role", "lang"}             \* a column that is there gets rid of its NULLs

Gone == [user |-> "none"]
Repo == [user : Users, path : ToSet(Paths), clean : BOOLEAN]

Database == [cols : [Columns -> Column], repos : [Repos -> Repo \cup {Gone}],
             names : [Users -> Names \cup {""}], emails : [Users -> Emails \cup {""}],
             index : BOOLEAN, emailindex : BOOLEAN, pattern : BOOLEAN, ondelete : BOOLEAN,
             sessions : BOOLEAN, fingerprint : BOOLEAN, keys : BOOLEAN]

\* What a column was made to hold it holds; those that are filled allowed NULL once.
ASSUME VersionsAssumption ==
    \A v \in Versions :
        /\ v \in Database
        /\ \A c \in Columns : v.cols[c] = "null" => c \in Filled
        /\ \A c \in Carried \ Filled : v.cols[c] \in {"missing", "carried"}

\* The listeners, one after the other.
Script == <<"role", "lang", "status", "username", "pattern", "email", "author", "on delete",
            "inactivity", "strip", "nested", "sessions", "fingerprint", "access_time", "scope",
            "commit">>

Serving == Len(Script) + 1

Twice(f)   == \E u, v \in Users : u # v /\ f[u] = f[v] /\ f[u] # ""

\* What older versions left: without an index names and addresses may be there
\* twice, without the constraint any name may.
Legacy(v) ==
    [names  : {f \in [Users -> Names \cup {""}] :
                   /\ v.index => ~Twice(f)
                   /\ v.pattern => \A u \in Users : f[u] \notin BadNames},
     emails : {f \in [Users -> Emails \cup {""}] : v.emailindex => ~Twice(f)},
     keys   : IF v.fingerprint THEN {FALSE} ELSE BOOLEAN]

Init ==
    /\ engine \in {"sqlite", "postgresql"}
    /\ \E v \in Versions : \E old \in Legacy(v) :
         saved = [v EXCEPT !.names = old.names, !.emails = old.emails, !.keys = old.keys]
    /\ db = saved /\ before = saved /\ last = <<>>
    /\ tx = FALSE /\ pc = 0 /\ cfg = FALSE
    /\ starts = 0 /\ edits = 0

-----------------------------------------------------------------------------
(***************************************************************************)
(* Statements                                                              *)
(***************************************************************************)
At(step) == pc \in DOMAIN Script /\ Script[pc] = step
Found(c) == db.cols[c] # "missing"

\* One statement: SQLite commits a change of the schema at once unless a
\* transaction is open, which only a change of data opens; PostgreSQL has the
\* whole update in one transaction.
Opens(kind) == kind = "data" \/ engine = "postgresql"

Execute(new, kind) ==
    /\ db' = new
    /\ tx' = (tx \/ Opens(kind))
    /\ saved' = IF tx' THEN saved ELSE new
    /\ UNCHANGED rest

Next1 == pc' = pc + 1

\* The step has nothing to do.
Skip == Next1 /\ UNCHANGED <<saved, db, tx, rest>>

\* column_exists, column_add.
\* Mutant: a column that is added keeps its default.
AddedLast(c) == Next1
Added(c) == IF c \in Carried THEN pc' = pc ELSE Next1

AddColumn(c) ==
    /\ At(c) /\ ~Found(c)
    /\ Execute([db EXCEPT !.cols[c] = "default"], "schema")
    /\ Added(c)

\* The update was at this column when it added it: its values are carried over.
\* A column that was there when the update came to it is left, but for NULLs.
JustAdded(c) == Found(c) /\ c \in Carried /\ before.cols[c] = "missing"

CarryOver(c) ==
    /\ At(c) /\ JustAdded(c)
    /\ Execute([db EXCEPT !.cols[c] = "carried"], "data")
    /\ Next1

FillNulls(c) ==
    /\ At(c) /\ Found(c) /\ ~JustAdded(c) /\ c \in Filled
    /\ Execute([db EXCEPT !.cols[c] = IF @ = "null" THEN "default" ELSE @], "data")
    /\ Next1

KeepColumn(c) == At(c) /\ Found(c) /\ ~JustAdded(c) /\ c \notin Filled /\ Skip

\* What is left of the work of a connection that is closed.
RolledBack == saved

\* RuntimeError or SystemExit: the transaction is rolled back, the server stops.
Stop ==
    /\ db' = RolledBack
    /\ tx' = FALSE
    /\ pc' = 0
    /\ UNCHANGED <<saved, rest>>

\* index_exists, the search for duplicates, and the index.
UsernameIndex ==
    /\ At("username")
    /\ IF db.index THEN Skip
       ELSE IF Twice(db.names) THEN Stop
       ELSE Execute([db EXCEPT !.index = TRUE], "schema") /\ Next1

\* constraint_add: SQLite needs the table again, without the indexes it had.
Recreated(d) ==
    [d EXCEPT !.pattern = TRUE,
              !.index = @ /\ engine # "sqlite", !.emailindex = @ /\ engine # "sqlite"]

\* Mutant: nobody looks for names the pattern refuses.
RefusedNamesNot(names) == {}
RefusedNames(names) == {u \in Users : names[u] \in BadNames}

UsernamePattern ==
    /\ At("pattern")
    /\ IF db.pattern THEN Skip
       ELSE IF RefusedNames(db.names) # {} THEN Stop
       ELSE Execute(Recreated(db), IF engine = "sqlite" THEN "data" ELSE "schema") /\ Next1

\* Only with login-with-email.
\* Mutant: an index that was there when the update began is taken for granted.
EmailIndexedBefore == before.emailindex
EmailIndexed == db.emailindex

EmailIndex ==
    /\ At("email")
    /\ IF ~cfg \/ EmailIndexed THEN Skip
       ELSE IF Twice(db.emails) THEN Stop
       ELSE Execute([db EXCEPT !.emailindex = TRUE], "schema") /\ Next1

\* fk_messages_author_id, "ON DELETE SET NULL".
AuthorConstraint ==
    /\ At("on delete")
    /\ IF db.ondelete THEN Skip
       ELSE /\ Execute([db EXCEPT !.ondelete = TRUE], IF engine = "sqlite" THEN "data" ELSE "schema")
            /\ Next1

\* "Remove preceding and leading slash (/)"
StripSlashes ==
    /\ At("strip")
    /\ LET clean(x) == IF x = Gone THEN x ELSE [x EXCEPT !.clean = TRUE]
           new == [db EXCEPT !.repos = [i \in Repos |-> clean(db.repos[i])]]
       IN IF new = db THEN Skip ELSE Execute(new, "data") /\ Next1

\* "Remove duplicates and nested repositories": each record, in the order of users
\* and paths, is compared with the one that was kept last.
Position(x) == CHOOSE i \in DOMAIN Paths : Paths[i] = x.path

\* Mutant: in any order.
Unsorted(repos) == SetToSeqs({i \in Repos : repos[i] # Gone})
Sorted(repos) ==
    {s \in SetToSeqs({i \in Repos : repos[i] # Gone}) :
        \A a, b \in DOMAIN s : a < b /\ repos[s[a]].user = repos[s[b]].user
             => /\ Position(repos[s[a]]) <= Position(repos[s[b]])
                /\ \A c \in a..b : repos[s[c]].user = repos[s[a]].user}

\* Mutant: a path of another user is one, too.
CoversAnyones(x, y) == x.path = y.path \/ <<x.path, y.path>> \in Below
Covers(x, y) == x.user = y.user /\ (x.path = y.path \/ <<x.path, y.path>> \in Below)

\* The places in that order of those that are kept, one after the other.
Kept(repos, s) ==
    {kept \in SUBSET DOMAIN s :
        \A b \in DOMAIN s :
            b \notin kept <=> \E a \in kept : /\ a < b /\ \A c \in kept : c < b => c <= a
                                          /\ Covers(repos[s[a]], repos[s[b]])}

RemoveNested ==
    /\ At("nested")
    /\ \E s \in Sorted(db.repos) : \E kept \in Kept(db.repos, s) :
         LET stay == {s[a] : a \in kept}
             new  == [db EXCEPT !.repos = [i \in Repos |-> IF i \in stay THEN db.repos[i] ELSE Gone]]
         IN IF new = db THEN Skip ELSE Execute(new, "data") /\ Next1

\* The table of sessions is made again when its column is missing: all log in again.
SessionsTable ==
    /\ At("sessions")
    /\ IF db.sessions THEN Skip ELSE Execute([db EXCEPT !.sessions = TRUE], "schema") /\ Next1

\* The index is tried, and fails on keys that are there twice.
FingerprintIndex ==
    /\ At("fingerprint")
    /\ IF db.fingerprint THEN Skip
       ELSE IF db.keys THEN Stop
       ELSE Execute([db EXCEPT !.fingerprint = TRUE], "schema") /\ Next1

Commit ==
    /\ At("commit")
    /\ saved' = db /\ last' = db /\ tx' = FALSE
    /\ Next1
    /\ UNCHANGED <<engine, db, cfg, before, starts, edits>>

-----------------------------------------------------------------------------
(***************************************************************************)
(* The server                                                              *)
(***************************************************************************)
Start(email) ==
    /\ pc = 0 /\ starts < MaxStarts
    /\ pc' = 1 /\ starts' = starts + 1
    /\ cfg' = email /\ before' = saved
    /\ UNCHANGED <<engine, saved, db, tx, last, edits>>

\* It is killed, or stopped when it serves.
Kill == pc # 0 /\ Stop

Edit(new) ==
    /\ pc = Serving /\ edits < MaxEdits
    /\ db' = new /\ saved' = new
    /\ edits' = edits + 1
    /\ UNCHANGED <<engine, tx, pc, cfg, before, last, starts>>

\* add_user looks for nobody of that name: the index does.
AddUser(u, name) ==
    /\ db.names[u] = ""
    /\ db.index => \A v \in Users : db.names[v] # name
    /\ db.pattern => name \notin BadNames
    /\ Edit([db EXCEPT !.names[u] = name])

SetEmail(u, email) ==
    /\ db.names[u] # "" /\ db.emails[u] # email
    /\ db.emailindex => \A v \in Users : db.emails[v] # email
    /\ Edit([db EXCEPT !.emails[u] = email])

\* refresh_repos, which two requests may do at once.
AddRepo(i, u, p) ==
    /\ db.repos[i] = Gone /\ db.names[u] # ""
    /\ Edit([db EXCEPT !.repos[i] = [user |-> u, path |-> p, clean |-> TRUE]])

Update ==
    \/ \E c \in Columns : AddColumn(c) \/ CarryOver(c) \/ FillNulls(c) \/ KeepColumn(c)
    \/ UsernameIndex \/ UsernamePattern \/ EmailIndex \/ AuthorConstraint
    \/ StripSlashes \/ RemoveNested \/ SessionsTable \/ FingerprintIndex \/ Commit

Next ==
    \/ Update \/ Kill
    \/ \E email \in BOOLEAN : Start(email)
    \/ \E u \in Users : \/ \E n \in Names : AddUser(u, n)
                        \/ \E e \in Emails : SetEmail(u, e)
                        \/ \E i \in Repos, p \in ToSet(Paths) : AddRepo(i, u, p)

Spec == Init /\ [][Next]_vars
-----------------------------------------------------------------------------
(***************************************************************************)
(* Properties                                                              *)
(***************************************************************************)
\* The variables have the types of the tables, options and connections they
\* model, and while no update is at work there is only what was saved.
TypeOK ==
    /\ pc \in 0..Serving
    /\ db \in Database /\ saved \in Database
    /\ tx => pc \in DOMAIN Script
    /\ pc \in {0, Serving} => db = saved

\* A server that serves has every column without NULLs, the constraints, the
\* index of the keys and no name the pattern refuses, whatever version the
\* database is of and wherever earlier starts were killed or gave up.
ServedIsUpdated ==
    pc = Serving =>
        /\ \A c \in Columns : db.cols[c] \in {"default", "carried"}
        /\ db.pattern /\ db.ondelete /\ db.sessions /\ db.fingerprint /\ ~db.keys
        /\ \A u \in Users : db.names[u] \notin BadNames

\* No two users have one address when it is used to log in.  No two have one name,
\* but where this start added the constraint and SQLite lost the index with the
\* table, until the next start ("Fix username case insensitive unique").
UniqueWhenServing ==
    pc = Serving =>
        /\ cfg => ~Twice(db.emails)
        /\ Twice(db.names) => engine = "sqlite" /\ ~before.pattern

\* What the columns an update adds stand for is carried over from the older ones:
\* administrators stay administrators, tokens keep their scope.  The exception is
\* the role, when SQLite has saved the column and the server is killed before it
\* is filled: the next start finds it and leaves it.
CarriedOver ==
    pc = Serving => \A c \in Carried :
        db.cols[c] = "carried" \/ (c = "role" /\ before.cols[c] \in {"null", "default"})

\* A start removes the record of a repository only when another of the same user
\* stays for its path, or for a path above; and it leaves one for each path.
StaysCovered(i) ==
    \E j \in Repos :
        /\ db'.repos[j] # Gone /\ db'.repos[j].user = db.repos[i].user
        /\ \/ db'.repos[j].path = db.repos[i].path
           \/ <<db'.repos[j].path, db.repos[i].path>> \in Below

OnePerPath ==
    \A i, j \in Repos :
        i # j /\ db.repos[i] # Gone /\ db.repos[j] # Gone =>
            \/ db.repos[i].user # db.repos[j].user
            \/ db.repos[i].path # db.repos[j].path

RemovedAreCovered ==
    [][pc' > pc /\ pc < Serving =>
         /\ \A i \in Repos : db.repos[i] # Gone /\ db'.repos[i] = Gone => StaysCovered(i)
         /\ At("commit") => OnePerPath]_vars

\* A start that finds what the last one left changes nothing, but for the indexes
\* of the users that one may have lost.
SecondStartIsIdle ==
    pc = Serving - 1 /\ before = last =>
        db = [before EXCEPT !.index = db.index, !.emailindex = db.emailindex]
=============================================================================
