---------------------------- MODULE AccountChanges ----------------------------
(***************************************************************************)
(* The changes of one account: the forms of the preferences and of the     *)
(* administration, the requests of the API, its tokens, keys and sessions, *)
(* what a transaction of theirs writes, what the audit log says of it and  *)
(* which mails follow.                                                     *)
(*                                                                         *)
(* A form is a list of operations on the objects of a session; SQLAlchemy  *)
(* flushes them, listeners write messages and line up tasks, and the tasks *)
(* run after the commit.                                                   *)
(*                                                                         *)
(* rdiffweb/controller/formdb.py, page_pref_*.py, page_admin_users.py,     *)
(* page_admin_session.py, page_login.py, api.py, api_currentuser.py,       *)
(* tools/required_scope.py, core/model/_user.py, _token.py, _sshkey.py,    *)
(* _session.py, _message.py and _callbacks.py, core/notification.py.       *)
(***************************************************************************)
EXTENDS Integers, Sequences, FiniteSets, SequencesExt

CONSTANTS
    Threads,    \* web threads; each has a session in the browser of its own
    Emails,     \* addresses
    Passwords,  \* passwords
    Tokens,     \* names of tokens
    Keys,       \* fingerprints of SSH keys
    Requests    \* bound: the forms and requests that arrive

Names == Tokens \cup Keys
Attributes == {"email", "password", "mfa"}

\* What a message is about tells an attribute, a token and a key apart.
ASSUME NamesAssumption == Tokens \cap Keys = {} /\ Names \cap Attributes = {}
ASSUME ThreadsAssumption == IsFiniteSet(Threads)

Values(a)  == CASE a = "email" -> Emails [] a = "password" -> Passwords [] OTHER -> BOOLEAN
Logged     == {"email", "mfa"} \cup Names
Kinds      == Attributes \cup {"token", "key"}    \* of mails
KindOf(n)  == IF n \in Tokens THEN "token" ELSE "key"

VARIABLES
    row,        \* the record of the account
    objects,    \* its tokens and keys
    scoped,     \* its tokens that may write
    expired,    \* those whose expiration time is over
    sessions,   \* threads whose browser has a session of the account
    logged,     \* for attributes and tokens, the newest value in the audit messages
    writer,     \* the thread with statements that are not committed
    req,        \* what each thread is doing
    owed        \* changes that are committed less the mails about them

vars == <<row, objects, scoped, expired, sessions, logged, writer, req, owed>>

Nobody == "nobody"

\* What the session holds that is not flushed, and what its transaction wrote.
Clean == [set |-> <<>>, add |-> {}, write |-> {}, del |-> {}, access |-> {}, end |-> {}]
NoTx  == [set |-> <<>>, log |-> <<>>, add |-> {}, write |-> {}, del |-> {}, revoke |-> {}]
Idle  == [pc |-> "idle", form |-> <<>>, todo |-> <<>>, seen |-> <<>>, old |-> {},
          new |-> Clean, tx |-> NoTx, tasks |-> <<>>]

-----------------------------------------------------------------------------
(***************************************************************************)
(* The forms: what populate_obj does, step by step                         *)
(***************************************************************************)
Set(values) == [op |-> "set", values |-> values]
Do(op, n)   == [op |-> op, name |-> n]
Add(n, w)   == [op |-> "add", name |-> n, write |-> w]
End(s)      == [op |-> "end", session |-> s]
SetUser(e, m) == Set([email |-> e, mfa |-> m])
SetPw(p)    == [op |-> "set_password", value |-> p]
CheckPw(p)  == [op |-> "check", value |-> p]
Basic(p)    == [op |-> "basic", value |-> p]
Save        == [op |-> "save"]
Scope(n, w) == [op |-> "scope", name |-> n, write |-> w]

ProfileForms  == {<<Set([email |-> e])>> : e \in Emails}
PasswordForms == {<<CheckPw(p[1]), SetPw(p[2])>> :
                     p \in {q \in Passwords \X Passwords : q[1] # q[2]}}
EditForms     == {<<SetPw(p), SetUser(e, m)>> :
                     p \in Passwords, e \in Emails, m \in BOOLEAN}
MfaForms      == {<<Set([mfa |-> m])>> : m \in BOOLEAN}
TokenForms    == {<<Add(n, w)>> : n \in Tokens, w \in BOOLEAN} \cup {<<Do("delete", n)>> : n \in Tokens}
SshForms      == {<<Add(n, FALSE)>> : n \in Keys} \cup {<<Do("delete", n)>> : n \in Keys}
SessionForms  == {<<End(s)>> : s \in Threads}
\* The page of the administration lists the sessions of everybody.
AdminSessionForms == SessionForms
AdminForms    == EditForms \cup TokenForms \cup SshForms \cup AdminSessionForms

\* A request of the API shows a token, whose use is saved before its scope is
\* read, or the password of an account without two-factor authentication.
ByToken(w)    == {<<Do("access", n), Save, Scope(n, w)>> : n \in Tokens}
ByPassword    == {<<Basic(p)>> : p \in Passwords}
ApiUserForms  == ProfileForms
ApiSshForms   == SshForms
ApiTokenForms == TokenForms
ApiAdminForms == EditForms
ApiWrites     == ApiUserForms \cup ApiSshForms \cup ApiTokenForms \cup ApiAdminForms
ApiWriters    == ByToken(TRUE) \cup ByPassword
ApiReaders    == ByToken(FALSE) \cup ByPassword
ApiRequests   == {a \o f : a \in ApiWriters, f \in ApiWrites} \cup ApiReaders

Forms == ProfileForms \cup PasswordForms \cup MfaForms \cup SessionForms \cup AdminForms \cup ApiRequests

ASSUME RequestsAssumption == Requests \subseteq Forms

Init ==
    /\ row \in [Attributes -> UNION {Values(a) : a \in Attributes}]
    /\ \A a \in Attributes : row[a] \in Values(a)
    /\ objects = {} /\ scoped = {} /\ expired = {} /\ sessions = Threads
    /\ logged = [k \in Logged |-> IF k \in Names THEN FALSE ELSE row[k]]
    /\ writer = Nobody
    /\ req = [t \in Threads |-> Idle]
    /\ owed = [k \in Kinds |-> 0]

\* Newer values laid over older ones.
Over(new, old) ==
    [a \in DOMAIN new \cup DOMAIN old |-> IF a \in DOMAIN new THEN new[a] ELSE old[a]]

-----------------------------------------------------------------------------
(***************************************************************************)
(* Transactions                                                            *)
(***************************************************************************)
\* Assigning the value an attribute has is no change, but for the hash of a password.
Changed(r) == {a \in DOMAIN r.new.set : a = "password" \/ r.new.set[a] # r.seen[a]}
Dirty(r)   == Changed(r) # {} \/ r.new.add \cup r.new.del \cup r.new.access \cup r.new.end # {}

\* user_after_flush, token_after_flush and sshkey_after_flush: the mails of a flush.
Tasks(r) == SetToSeq(Changed(r) \cup {KindOf(n) : n \in r.new.add})

\* create_messages: a message per flush; the password is not told.
\* Mutant: the value before the change is told.
MessagesBefore(r) == Over([a \in Changed(r) \ {"password"} |-> r.seen[a]], r.tx.log)
Messages(r) == Over([a \in Changed(r) \ {"password"} |-> r.new.set[a]], r.tx.log)

\* A flush: messages and statements join the transaction, the session is clean.
Written(r) ==
    [r.tx EXCEPT !.set = Over([a \in Changed(r) |-> r.new.set[a]], @),
                 !.log = Messages(r),
                 !.add = @ \cup r.new.add,
                 !.write = @ \cup r.new.write,
                 !.del = @ \cup r.new.del,
                 !.revoke = @ \cup r.new.end]

Flushed(r) ==
    [r EXCEPT !.seen = Over(r.new.set, @), !.new = Clean, !.tasks = @ \o Tasks(r), !.tx = Written(r)]

\* A token's name or a key is taken, or the token that was used is gone: StaleDataError.
FlushFails(r) == r.new.add \cap objects # {} \/ ~(r.new.access \subseteq objects)

\* rollback: what the session held and the tasks it had lined up are forgotten.
\* Mutants: the tasks stay; the objects stay as they are.
RolledBackTasks(r) == [Idle EXCEPT !.tasks = r.tasks]
RolledBackDirty(r) == [Idle EXCEPT !.new = r.new, !.seen = r.seen]
RolledBack(r) == Idle

Fails(t) ==
    /\ req' = [req EXCEPT ![t] = RolledBack(@)]
    /\ writer' = IF writer = t THEN Nobody ELSE writer
    /\ UNCHANGED <<row, objects, scoped, expired, sessions, logged, owed>>

-----------------------------------------------------------------------------
(***************************************************************************)
(* Requests                                                                *)
(***************************************************************************)
FromApi(f) == Head(f).op \in {"access", "basic"}
Revokes(f) == \E o \in ToSet(f) : o.op = "set_password"

\* What a form looks at: the attributes it assigns or checks.
Looks(f) == UNION ({DOMAIN o.values : o \in {q \in ToSet(f) : q.op = "set"}}
                     \cup {{"password", "mfa"} : o \in {q \in ToSet(f) : q.op \in {"check", "basic"}}})

\* A thread takes a request; the account is read for it.
Begin(t, f) ==
    /\ req[t].pc = "idle" /\ (FromApi(f) \/ t \in sessions)
    /\ req' = [req EXCEPT ![t].pc = "run", ![t].form = f, ![t].todo = f,
                          ![t].seen = Over([a \in Looks(f) |-> row[a]], @),
                          ![t].old = IF Revokes(f) THEN sessions ELSE {}]
    /\ UNCHANGED <<row, objects, scoped, expired, sessions, logged, writer, owed>>

Op(t) == Head(req[t].todo)
Running(t, op) == req[t].pc = "run" /\ req[t].todo # <<>> /\ Op(t).op = op

\* validate_access_token: a token that is expired is not looked at.
ValidToken(n) == n \in objects \ expired

\* authenticate, by a password, of an account that is active throughout.
Authenticates(seen, p) == p = seen["password"]

\* What a step needs: the current password, a token or key that is there, a token
\* that is not expired, one that may write, a session that is not the own one.
Passes(t) ==
    LET o == Op(t)
        seen == req[t].seen
    IN CASE o.op = "check"  -> o.value = seen["password"]
         [] o.op = "basic"  -> Authenticates(seen, o.value) /\ ~seen["mfa"]
         [] o.op = "delete" -> o.name \in objects
         [] o.op = "access" -> ValidToken(o.name)
         [] o.op = "scope"  -> o.name \in objects /\ (o.write => o.name \in scoped)
         [] o.op = "end"    -> o.session \in sessions \ {t}
         [] OTHER           -> TRUE

Refused(t) == req[t].pc = "run" /\ req[t].todo # <<>> /\ ~Passes(t) /\ Fails(t)

Next1(r) == [r EXCEPT !.todo = Tail(@)]

\* The objects of the session change; the account is read once the use of the
\* token is saved.
Populate(t) ==
    /\ req[t].pc = "run" /\ req[t].todo # <<>> /\ Op(t).op \notin {"set_password", "save"} /\ Passes(t)
    /\ LET r == Next1(req[t])
           o == Op(t)
       IN req' = [req EXCEPT ![t] =
            CASE o.op = "set"    -> [r EXCEPT !.new.set = Over(o.values, @)]
              [] o.op = "add"    -> [r EXCEPT !.new.add = {o.name},
                                              !.new.write = IF o.write THEN {o.name} ELSE {}]
              [] o.op = "delete" -> [r EXCEPT !.new.del = {o.name}]
              [] o.op = "access" -> [r EXCEPT !.new.access = {o.name}]
              [] o.op = "end"    -> [r EXCEPT !.new.end = {o.session}]
              [] o.op = "scope"  -> [r EXCEPT !.seen = [a \in Looks(r.form) |-> row[a]]]
              [] OTHER           -> r]
    /\ UNCHANGED <<row, objects, scoped, expired, sessions, logged, writer, owed>>

\* The sessions of the account but the one that asks; the API has none.
\* Mutant: the one that asks.
OthersSelf(t) == sessions \cap {t}
Others(t) == IF FromApi(req[t].form) THEN sessions ELSE sessions \ {t}

\* set_password deletes sessions with a query, which flushes the new hash first.
SetPassword(t) ==
    /\ Running(t, "set_password") /\ writer \in {Nobody, t}
    /\ LET r == [req[t] EXCEPT !.new.set = Over([password |-> Op(t).value], @)] IN
       \/ /\ ~FlushFails(r)
          /\ writer' = t
          /\ req' = [req EXCEPT ![t] = [Next1(Flushed(r)) EXCEPT !.tx.revoke = Others(t)]]
          /\ UNCHANGED <<row, objects, scoped, expired, sessions, logged, owed>>
       \/ Fails(t)

\* commit is called: in the end, and when the use of a token is noted.
AtCommit(t) == Running(t, "save") \/ (req[t].pc = "run" /\ req[t].todo = <<>>)

\* The last flush before it; statements may fail.
Flush(t) ==
    /\ AtCommit(t) /\ Dirty(req[t]) /\ writer \in {Nobody, t}
    /\ \/ /\ ~FlushFails(req[t])
          /\ writer' = t
          /\ req' = [req EXCEPT ![t] = Flushed(@)]
          /\ UNCHANGED <<row, objects, scoped, expired, sessions, logged, owed>>
       \/ Fails(t)

\* The tasks that are left once the transaction is over.
Published(tasks) == IF tasks = <<>> THEN Idle ELSE [Idle EXCEPT !.pc = "publish", !.tasks = tasks]

\* The expiration time goes with its token.
\* Mutant: it stays when the token is deleted.
StillExpiredDeleted(tx) == expired \ tx.add
StillExpired(tx) == expired \ (tx.add \cup tx.del)

\* The commit makes the statements and the messages visible; the tasks follow, or
\* the rest of the request.
Commit(t) ==
    /\ AtCommit(t) /\ ~Dirty(req[t])
    /\ LET tx == req[t].tx IN
       /\ row' = [a \in Attributes |-> IF a \in DOMAIN tx.set THEN tx.set[a] ELSE row[a]]
       /\ objects' = (objects \cup tx.add) \ tx.del
       /\ scoped' = (scoped \cup tx.write) \ tx.del
       /\ expired' = StillExpired(tx)
       /\ sessions' = sessions \ tx.revoke
       /\ logged' = [k \in Logged |->
                        IF k \in DOMAIN tx.log THEN tx.log[k]
                        ELSE IF k \in tx.add \cup tx.del THEN k \in tx.add ELSE logged[k]]
       /\ owed' = [k \in Kinds |->
                      IF k \in DOMAIN tx.set \cup {KindOf(n) : n \in tx.add} THEN owed[k] + 1 ELSE owed[k]]
    /\ req' = [req EXCEPT ![t] = IF @.todo = <<>> THEN Published(@.tasks)
                                 ELSE [Next1(@) EXCEPT !.tx = NoTx]]
    /\ writer' = IF writer = t THEN Nobody ELSE writer

\* run_tasks, once the outermost transaction is over: a mail per task.
Publish(t) ==
    /\ req[t].pc = "publish"
    /\ owed' = [owed EXCEPT ![Head(req[t].tasks)] = @ - 1]
    /\ req' = [req EXCEPT ![t] = Published(Tail(@.tasks))]
    /\ UNCHANGED <<row, objects, scoped, expired, sessions, logged, writer>>

\* A listener raises: the tasks that are left are gone with it, and nobody will
\* send their mails.
PublishRaises(t) ==
    /\ req[t].pc = "publish"
    /\ req' = [req EXCEPT ![t] = Idle]
    /\ owed' = [k \in Kinds |-> owed[k] - Cardinality({i \in DOMAIN req[t].tasks : req[t].tasks[i] = k})]
    /\ UNCHANGED <<row, objects, scoped, expired, sessions, logged, writer>>

-----------------------------------------------------------------------------
\* The expiration time of a token is over.
Expire(n) ==
    /\ n \in (objects \cap Tokens) \ expired
    /\ expired' = expired \cup {n}
    /\ UNCHANGED <<row, objects, scoped, sessions, logged, writer, req, owed>>

\* TokenCleanup.clean_up: a query, so no listener hears of it.
CleanUp ==
    /\ writer = Nobody /\ expired # {}
    /\ objects' = objects \ expired /\ scoped' = scoped \ expired /\ expired' = {}
    /\ UNCHANGED <<row, sessions, logged, writer, req, owed>>

\* The browser of a thread logs in again, with a new session, or logs out.
Login(t) ==
    /\ t \notin sessions
    /\ sessions' = sessions \cup {t}
    /\ req' = [x \in Threads |-> [req[x] EXCEPT !.old = @ \ {t}]]
    /\ UNCHANGED <<row, objects, scoped, expired, logged, writer, owed>>

Logout(t) ==
    /\ t \in sessions /\ writer = Nobody
    /\ sessions' = sessions \ {t}
    /\ UNCHANGED <<row, objects, scoped, expired, logged, writer, req, owed>>

Next ==
    \/ \E t \in Threads :
         \/ \E f \in Requests : Begin(t, f)
         \/ Refused(t) \/ Populate(t) \/ SetPassword(t) \/ Flush(t) \/ Commit(t)
         \/ Publish(t) \/ PublishRaises(t) \/ Login(t) \/ Logout(t)
    \/ \E n \in Names : Expire(n)
    \/ CleanUp

Spec == Init /\ [][Next]_vars

-----------------------------------------------------------------------------
(***************************************************************************)
(* Properties                                                              *)
(***************************************************************************)
\* The variables have the types of the columns, sessions and tasks they model.
TypeOK ==
    /\ \A a \in Attributes : row[a] \in Values(a)
    /\ objects \subseteq Names /\ expired \cup scoped \subseteq objects \cap Tokens
    /\ sessions \subseteq Threads
    /\ writer \in Threads \cup {Nobody}
    /\ \A t \in Threads :
         /\ req[t].pc \in {"idle", "run", "publish"}
         /\ DOMAIN req[t].tx.set \subseteq Attributes
         /\ req[t].tx.add \cup req[t].tx.del \subseteq Names
         /\ \A i \in DOMAIN req[t].tasks : req[t].tasks[i] \in Kinds

\* A mail about a change is sent after the change is committed, once, and none is
\* sent about a change that was rolled back; none is missing but those of tasks
\* a listener cut short.
MailsAreTrue ==
    /\ \A k \in Kinds : owed[k] >= 0
    /\ (\A t \in Threads : req[t].pc # "publish") => \A k \in Kinds : owed[k] = 0

\* The newest audit message about an attribute tells its value, whatever requests
\* ran together and in whatever order they read and wrote; a token or key that
\* exists was announced (an expired one goes without a message).
AuditMatchesAccount ==
    /\ \A a \in {"email", "mfa"} : logged[a] = row[a]
    /\ \A n \in objects : logged[n]

\* A step commits for a thread: only a commit takes its request on from there.
Commits(t) ==
    AtCommit(t) /\ ~Dirty(req[t]) /\ <<req'[t].pc, req'[t].todo>> # <<req[t].pc, req[t].todo>>

\* What a commit changes is what its form asked for, never what a form before it
\* on the same thread had failed to save, and only once every check of the
\* request has passed, that of the scope included.
Asked(t) == ToSet(req[t].form)
AskedToSet(t, a) ==
    \E o \in Asked(t) : \/ o.op = "set" /\ a \in DOMAIN o.values /\ o.values[a] = row'[a]
                        \/ o = SetPw(row'[a]) /\ a = "password"
AskedToAdd(t, n) == \E w \in BOOLEAN : Add(n, w) \in Asked(t) /\ (n \in scoped' => w)

OnlyWhatWasAsked ==
    [][/\ \A a \in Attributes : row'[a] # row[a] =>
             \E t \in Threads : Commits(t) /\ req[t].todo = <<>> /\ AskedToSet(t, a)
       /\ \A n \in objects' \ objects :
             \E t \in Threads : Commits(t) /\ req[t].todo = <<>> /\ AskedToAdd(t, n)]_vars

\* After a change of password no session is left of those that were there when the
\* form arrived, except the one of the browser that sent it.
OthersAreLoggedOut ==
    [][\A t \in Threads :
          Commits(t) /\ req[t].todo = <<>> /\ Revokes(req[t].form)
             => /\ (sessions' \cap req[t].old) \subseteq (IF FromApi(req[t].form) THEN {} ELSE {t})
                /\ (t \in sessions \ sessions') => FromApi(req[t].form)]_vars
=============================================================================
