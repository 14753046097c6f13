---------------------------- MODULE AccountProofs ----------------------------
(***************************************************************************)
(* Theorems about the changes of an account, for any number of threads,    *)
(* values, tokens, keys and requests.  First AccountChanges: the types,    *)
(* that audit messages and mails follow what is committed, that a commit   *)
(* changes what its form asked for and that a new password ends the other  *)
(* sessions.  Then AuthorizedKeys: the file of the SSH server that         *)
(* follows the keys and the users.                                         *)
(***************************************************************************)
EXTENDS AccountChanges, AuthorizedKeys, TLAPS, SequenceTheorems, FiniteSetTheorems

-----------------------------------------------------------------------------
(***************************************************************************)
(* Forms                                                                   *)
(***************************************************************************)
Assigned == [email : Emails] \cup [mfa : BOOLEAN] \cup [email : Emails, mfa : BOOLEAN]

Ops ==
    [op : {"set"}, values : Assigned]
      \cup [op : {"delete"}, name : Names] \cup [op : {"access"}, name : Tokens]
      \cup [op : {"add"}, name : Tokens, write : BOOLEAN]
      \cup [op : {"add"}, name : Keys, write : {FALSE}]
      \cup [op : {"end"}, session : Threads]
      \cup [op : {"set_password", "check", "basic"}, value : Passwords]
      \cup [op : {"save"}] \cup [op : {"scope"}, name : Tokens, write : BOOLEAN]

\* The mails an operation leads to.
About(o) ==
    IF o.op = "set" THEN DOMAIN o.values
    ELSE IF o.op = "set_password" THEN {"password"}
    ELSE IF o.op = "add" THEN {KindOf(o.name)} ELSE {}

\* What is left of a form: no two operations are about the same, and what comes
\* before the use of a token is saved is that use.
Rest(f) ==
    /\ f \in Seq(Ops)
    /\ \A i, j \in DOMAIN f : i # j => About(f[i]) \cap About(f[j]) = {}
    /\ \A i, j \in DOMAIN f : j < i /\ f[i].op = "save" => f[j].op = "access"

Saves(f)  == \E o \in ToSet(f) : o.op = "save"

-----------------------------------------------------------------------------
(***************************************************************************)
(* The invariant                                                           *)
(***************************************************************************)
Kindred(set, add) == DOMAIN set \cup {KindOf(n) : n \in add}

\* A list of the elements of S, each once.
Lists(s, S) ==
    /\ s \in Seq(Kinds) /\ ToSet(s) = S
    /\ \A i, j \in DOMAIN s : s[i] = s[j] => i = j

\* What a session holds, or a transaction wrote, was asked for.
Wished(form, set, add, write) ==
    /\ \A a \in DOMAIN set :
          \E o \in ToSet(form) : \/ o.op = "set" /\ a \in DOMAIN o.values /\ o.values[a] = set[a]
                                 \/ o = SetPw(set[a]) /\ a = "password"
    /\ \A n \in add : \E w \in BOOLEAN : Add(n, w) \in ToSet(form)
    /\ \A n \in write : Add(n, TRUE) \in ToSet(form)
    /\ write \subseteq add

Shaped(r) ==
    /\ r = [pc |-> r.pc, form |-> r.form, todo |-> r.todo, seen |-> r.seen, old |-> r.old,
            new |-> r.new, tx |-> r.tx, tasks |-> r.tasks]
    /\ r.new = [set |-> r.new.set, add |-> r.new.add, write |-> r.new.write, del |-> r.new.del,
                access |-> r.new.access, end |-> r.new.end]
    /\ r.tx = [set |-> r.tx.set, log |-> r.tx.log, add |-> r.tx.add, write |-> r.tx.write,
               del |-> r.tx.del, revoke |-> r.tx.revoke]

\* A request at work: its messages are those of its statements, its tasks those of
\* the mails they are worth, and what is left to do is about something else.
Content(r) ==
    /\ Shaped(r) /\ r.pc = "run"
    /\ r.form \in Seq(Ops) /\ Rest(r.todo) /\ ToSet(r.todo) \subseteq ToSet(r.form)
    /\ Wished(r.form, r.new.set, r.new.add, r.new.write)
    /\ Wished(r.form, r.tx.set, r.tx.add, r.tx.write)
    /\ r.new.del \subseteq Names /\ r.tx.del \subseteq Names
    /\ DOMAIN r.tx.log = DOMAIN r.tx.set \ {"password"}
    /\ \A a \in DOMAIN r.tx.log : r.tx.log[a] = r.tx.set[a]
    /\ Lists(r.tasks, Kindred(r.tx.set, r.tx.add))
    /\ Kindred(r.new.set, r.new.add) \cap Kindred(r.tx.set, r.tx.add) = {}
    /\ \A o \in ToSet(r.todo) :
          About(o) \cap (Kindred(r.new.set, r.new.add) \cup Kindred(r.tx.set, r.tx.add)) = {}
    /\ Saves(r.todo) => /\ Kindred(r.new.set, r.new.add) = {} /\ Kindred(r.tx.set, r.tx.add) = {}
                        /\ Revokes(r.form) => Revokes(r.todo)

\* Once the new password is set, the sessions there were are to be deleted.
Revoked(t, r, ss) ==
    /\ t \notin r.new.end
    /\ t \in r.tx.revoke => FromApi(r.form)
    /\ Revokes(r.form) /\ ~Revokes(r.todo) =>
          (ss \cap r.old) \subseteq (r.tx.revoke \cup (IF FromApi(r.form) THEN {} ELSE {t}))

ThreadOK(t, r, ss) ==
    \/ r = Idle
    \/ r = [Idle EXCEPT !.pc = "publish", !.tasks = r.tasks] /\ r.tasks # <<>> /\ Lists(r.tasks, ToSet(r.tasks))
    \/ Content(r) /\ Revoked(t, r, ss)

Account ==
    /\ DOMAIN row = Attributes /\ \A a \in Attributes : row[a] \in Values(a)
    /\ objects \subseteq Names /\ expired \cup scoped \subseteq objects \cap Tokens
    /\ sessions \subseteq Threads
    /\ writer \in Threads \cup {Nobody}
    /\ AuditMatchesAccount

\* The threads that have a mail to send.
Senders(k) == {t \in Threads : req[t].pc = "publish" /\ k \in ToSet(req[t].tasks)}
Owed == DOMAIN owed = Kinds /\ \A k \in Kinds : owed[k] = Cardinality(Senders(k))

Working == DOMAIN req = Threads /\ \A t \in Threads : ThreadOK(t, req[t], sessions)

IInv == Account /\ Working /\ Owed

-----------------------------------------------------------------------------
(***************************************************************************)
(* Operations                                                              *)
(***************************************************************************)
LEMMA AssignedValues ==
    ASSUME NEW v \in Assigned
    PROVE  DOMAIN v \subseteq {"email", "mfa"} /\ \A a \in DOMAIN v : v[a] \in Values(a)
<1>1. CASE v \in [email : Emails]
  BY <1>1 DEF Values
<1>2. CASE v \in [mfa : BOOLEAN]
  BY <1>2 DEF Values
<1>3. CASE v \in [email : Emails, mfa : BOOLEAN]
  <2>1. DOMAIN v = {"email", "mfa"} /\ v["email"] \in Emails /\ v["mfa"] \in BOOLEAN
    BY <1>3
  <2> QED BY <2>1 DEF Values
<1> QED BY <1>1, <1>2, <1>3 DEF Assigned

LEMMA OpFields ==
    ASSUME NEW o \in Ops
    PROVE  /\ o.op \in {"set", "delete", "access", "add", "end", "set_password", "check", "basic",
                        "save", "scope"}
           /\ o.op = "set" => o.values \in Assigned
           /\ o.op = "add" => /\ o.name \in Names /\ o.write \in BOOLEAN /\ o = Add(o.name, o.write)
                              /\ o.write => o.name \in Tokens
           /\ o.op = "set_password" => o = SetPw(o.value) /\ o.value \in Passwords
           /\ o.op \in {"delete", "access", "scope"} => o.name \in Names
           /\ o.op = "end" => o.session \in Threads
<1>1. CASE o \in [op : {"set"}, values : Assigned]
  BY <1>1
<1>2. CASE o \in [op : {"delete"}, name : Names] \cup [op : {"access"}, name : Tokens]
  BY <1>2 DEF Names
<1>3. CASE o \in [op : {"add"}, name : Tokens, write : BOOLEAN]
  BY <1>3 DEF Names, Add
<1>4. CASE o \in [op : {"add"}, name : Keys, write : {FALSE}]
  BY <1>4 DEF Names, Add
<1>5. CASE o \in [op : {"end"}, session : Threads] \cup [op : {"save"}]
  BY <1>5
<1>6. CASE o \in [op : {"set_password", "check", "basic"}, value : Passwords]
  BY <1>6 DEF SetPw
<1>7. CASE o \in [op : {"scope"}, name : Tokens, write : BOOLEAN]
  BY <1>7 DEF Names
<1> QED BY <1>1, <1>2, <1>3, <1>4, <1>5, <1>6, <1>7 DEF Ops

LEMMA AboutKinds == ASSUME NEW o \in Ops PROVE About(o) \subseteq Kinds
BY OpFields, AssignedValues DEF About, Kinds, Attributes, KindOf

\* What was asked for has the types of the columns.
LEMMA WishedTypes ==
    ASSUME NEW form \in Seq(Ops), NEW set, NEW add, NEW write, Wished(form, set, add, write)
    PROVE  /\ DOMAIN set \subseteq Attributes /\ \A a \in DOMAIN set : set[a] \in Values(a)
           /\ add \subseteq Names /\ write \subseteq add \cap Tokens
           /\ Kindred(set, add) \subseteq Kinds
<1>1. ToSet(form) \subseteq Ops
  BY DEF ToSet
<1>2. ASSUME NEW a \in DOMAIN set PROVE a \in Attributes /\ set[a] \in Values(a)
  <2>1. PICK o \in ToSet(form) : \/ o.op = "set" /\ a \in DOMAIN o.values /\ o.values[a] = set[a]
                                 \/ o = SetPw(set[a]) /\ a = "password"
    BY DEF Wished
  <2>2. CASE o.op = "set" /\ a \in DOMAIN o.values /\ o.values[a] = set[a]
    <3>1. o.values \in Assigned
      BY <1>1, <2>2, OpFields
    <3> QED BY <2>2, <3>1, AssignedValues DEF Attributes
  <2>3. CASE o = SetPw(set[a]) /\ a = "password"
    <3>1. o.op = "set_password" /\ o.value = set[a]
      BY <2>3 DEF SetPw
    <3>2. set[a] \in Passwords
      BY <1>1, <3>1, OpFields
    <3> QED BY <2>3, <3>2 DEF Attributes, Values
  <2> QED BY <2>1, <2>2, <2>3
<1>3. ASSUME NEW n \in add PROVE n \in Names
  <2>1. PICK w \in BOOLEAN : Add(n, w) \in ToSet(form)
    BY DEF Wished
  <2>2. Add(n, w).op = "add" /\ Add(n, w).name = n
    BY DEF Add
  <2> QED BY <1>1, <2>1, <2>2, OpFields
<1>4. ASSUME NEW n \in write PROVE n \in add /\ n \in Tokens
  <2>1. Add(n, TRUE) \in ToSet(form) /\ n \in add
    BY DEF Wished
  <2>2. Add(n, TRUE).op = "add" /\ Add(n, TRUE).name = n /\ Add(n, TRUE).write = TRUE
    BY DEF Add
  <2> QED BY <1>1, <2>1, <2>2, OpFields
<1> QED BY <1>2, <1>3, <1>4 DEF Kindred, Kinds, KindOf

-----------------------------------------------------------------------------
(***************************************************************************)
(* Lists of tasks                                                          *)
(***************************************************************************)
LEMMA Heads ==
    ASSUME NEW S, NEW s \in Seq(S), s # <<>>
    PROVE  /\ Len(s) \in Nat \ {0} /\ DOMAIN s = 1..Len(s) /\ Head(s) = s[1] /\ Head(s) \in S
           /\ Tail(s) \in Seq(S) /\ DOMAIN Tail(s) = 1..(Len(s) - 1)
           /\ \A i \in 1..(Len(s) - 1) : Tail(s)[i] = s[i + 1]
<1>1. /\ Len(s) \in Nat \ {0} /\ Head(s) = s[1] /\ Head(s) \in S
      /\ Tail(s) \in Seq(S) /\ Len(Tail(s)) = Len(s) - 1
      /\ \A i \in 1..Len(Tail(s)) : Tail(s)[i] = s[i + 1]
  BY EmptySeq, HeadTailProperties
<1> QED BY <1>1, LenProperties

LEMMA TailSet ==
    ASSUME NEW S, NEW s \in Seq(S), s # <<>>
    PROVE  /\ ToSet(s) = {Head(s)} \cup ToSet(Tail(s))
           /\ (\A i, j \in DOMAIN s : s[i] = s[j] => i = j) =>
                 /\ Head(s) \notin ToSet(Tail(s))
                 /\ \A i, j \in DOMAIN Tail(s) : Tail(s)[i] = Tail(s)[j] => i = j
<1>1. /\ Len(s) \in Nat \ {0} /\ DOMAIN s = 1..Len(s) /\ Head(s) = s[1]
      /\ DOMAIN Tail(s) = 1..(Len(s) - 1) /\ \A i \in 1..(Len(s) - 1) : Tail(s)[i] = s[i + 1]
  BY Heads
<1>2. ToSet(s) = {s[i] : i \in 1..Len(s)} /\ ToSet(Tail(s)) = {Tail(s)[i] : i \in 1..(Len(s) - 1)}
  BY <1>1 DEF ToSet
<1>3. ASSUME NEW x \in ToSet(s) PROVE x \in {Head(s)} \cup ToSet(Tail(s))
  <2>1. PICK i \in 1..Len(s) : x = s[i]
    BY <1>2
  <2>2. CASE i = 1
    BY <1>1, <2>1, <2>2
  <2>3. CASE i # 1
    <3>1. i - 1 \in 1..(Len(s) - 1) /\ (i - 1) + 1 = i
      BY <1>1, <2>1, <2>3
    <3>2. Tail(s)[i - 1] = x
      BY <1>1, <2>1, <3>1
    <3> QED BY <1>2, <3>1, <3>2
  <2> QED BY <2>2, <2>3
<1>4. ASSUME NEW x \in ToSet(Tail(s)) PROVE \E i \in 2..Len(s) : x = s[i]
  <2>1. PICK i \in 1..(Len(s) - 1) : x = Tail(s)[i]
    BY <1>2
  <2>2. i + 1 \in 2..Len(s) /\ x = s[i + 1]
    BY <1>1, <2>1
  <2> QED BY <2>2
<1>5. Head(s) \in ToSet(s) /\ \A i \in 2..Len(s) : i \in 1..Len(s) /\ i # 1
  BY <1>1, <1>2
<1>6. ToSet(s) = {Head(s)} \cup ToSet(Tail(s))
  BY <1>2, <1>3, <1>4, <1>5
<1>7. ASSUME \A i, j \in DOMAIN s : s[i] = s[j] => i = j
      PROVE  /\ Head(s) \notin ToSet(Tail(s))
             /\ \A i, j \in DOMAIN Tail(s) : Tail(s)[i] = Tail(s)[j] => i = j
  <2>1. Head(s) \notin ToSet(Tail(s))
    <3> SUFFICES ASSUME Head(s) \in ToSet(Tail(s)) PROVE FALSE
      OBVIOUS
    <3>1. PICK i \in 2..Len(s) : Head(s) = s[i]
      BY <1>4
    <3>2. i \in DOMAIN s /\ 1 \in DOMAIN s /\ i # 1 /\ s[i] = s[1]
      BY <1>1, <3>1
    <3> QED BY <1>7, <3>2
  <2>2. ASSUME NEW i \in DOMAIN Tail(s), NEW j \in DOMAIN Tail(s), Tail(s)[i] = Tail(s)[j] PROVE i = j
    <3>1. i \in Int /\ j \in Int /\ i + 1 \in DOMAIN s /\ j + 1 \in DOMAIN s /\ s[i + 1] = s[j + 1]
      BY <1>1, <2>2
    <3>2. i + 1 = j + 1
      BY <1>7, <3>1
    <3> QED BY <3>1, <3>2
  <2> QED BY <2>1, <2>2
<1> QED BY <1>6, <1>7

LEMMA ListsTail ==
    ASSUME NEW S, NEW s, Lists(s, S), s # <<>>
    PROVE  Head(s) \in Kinds /\ Head(s) \in S /\ Lists(Tail(s), S \ {Head(s)})
BY Heads, TailSet DEF Lists

LEMMA KindsFinite == ASSUME NEW S \in SUBSET Kinds PROVE IsFiniteSet(S)
<1>1. IsFiniteSet({}) /\ Kinds = {} \cup {"email"} \cup {"password"} \cup {"mfa"} \cup {"token"} \cup {"key"}
  BY FS_EmptySet DEF Kinds, Attributes
<1>2. IsFiniteSet({} \cup {"email"} \cup {"password"} \cup {"mfa"} \cup {"token"} \cup {"key"})
  <2>1. \A T, x : IsFiniteSet(T) => IsFiniteSet(T \cup {x})
    BY FS_AddElement
  <2> QED BY <1>1, <2>1
<1> QED BY <1>1, <1>2, FS_Subset

LEMMA ListOfSet ==
    ASSUME NEW T \in SUBSET Kinds
    PROVE  Lists(SetToSeq(T), T)
<1> DEFINE D == 1..Cardinality(T)
           q == SetToSeq(T)
<1>1. IsFiniteSet(T) /\ Cardinality(T) \in Nat /\ ExistsBijection(D, T)
  BY KindsFinite, FS_CardinalityType
<1>2. \E f \in [D -> T] : IsInjective(f)
  BY <1>1 DEF ExistsBijection, Bijection, Injection, Surjection
<1>3. q \in [D -> T] /\ IsInjective(q)
  BY <1>2 DEF SetToSeq
<1> HIDE DEF q
<1>4. q \in Seq(Kinds) /\ DOMAIN q = D
  <2>1. q \in [D -> Kinds]
    BY <1>3
  <2> QED BY <1>1, <2>1
<1>5. IsFiniteSet(D) /\ Cardinality(D) = Cardinality(T)
  <2>1. 1 \in Int /\ Cardinality(T) \in Int
    BY <1>1
  <2>2. IsFiniteSet(D) /\ Cardinality(D) = IF 1 > Cardinality(T) THEN 0 ELSE Cardinality(T) - 1 + 1
    BY <2>1, FS_Interval
  <2> QED BY <1>1, <2>2
<1>6. q \in Surjection(D, T)
  <2>1. q \in Injection(D, T)
    BY <1>3 DEF Injection
  <2> QED BY <1>1, <1>5, <2>1, FS_Injection
<1>7. ToSet(q) = T
  BY <1>3, <1>4, <1>6 DEF ToSet, Surjection
<1>8. \A i, j \in DOMAIN q : q[i] = q[j] => i = j
  BY <1>3 DEF IsInjective
<1> QED BY <1>4, <1>7, <1>8 DEF Lists, q

LEMMA ListsAppend ==
    ASSUME NEW s, NEW S, NEW q, NEW T, Lists(s, S), Lists(q, T), S \cap T = {}
    PROVE  Lists(s \o q, S \cup T)
<1> DEFINE l == s \o q
           m == Len(s)
           n == Len(q)
<1>1. s \in Seq(Kinds) /\ q \in Seq(Kinds) /\ m \in Nat /\ n \in Nat /\ DOMAIN s = 1..m /\ DOMAIN q = 1..n
  BY LenProperties DEF Lists
<1>2. l \in Seq(Kinds) /\ Len(l) = m + n /\ \A i \in 1..(m + n) : l[i] = IF i <= m THEN s[i] ELSE q[i - m]
  BY <1>1, ConcatProperties
<1>3. DOMAIN l = 1..(m + n)
  BY <1>2, LenProperties
<1>4. S = {s[i] : i \in 1..m} /\ T = {q[i] : i \in 1..n}
  BY <1>1 DEF Lists, ToSet
<1> HIDE DEF l, m, n
<1>5. \A i \in 1..m : i \in 1..(m + n) /\ l[i] = s[i]
  BY <1>1, <1>2
<1>6. \A i \in 1..n : i + m \in 1..(m + n) /\ l[i + m] = q[i]
  BY <1>1, <1>2
<1>7. \A i \in 1..(m + n) : \/ i \in 1..m /\ l[i] = s[i]
                            \/ i - m \in 1..n /\ l[i] = q[i - m]
  BY <1>1, <1>2
<1>8. ToSet(l) = S \cup T
  <2>1. ToSet(l) = {l[i] : i \in 1..(m + n)}
    BY <1>3 DEF ToSet
  <2>2. ASSUME NEW x \in S PROVE x \in ToSet(l)
    BY <1>4, <1>5, <2>1
  <2>3. ASSUME NEW x \in T PROVE x \in ToSet(l)
    <3>1. PICK i \in 1..n : x = q[i]
      BY <1>4
    <3> QED BY <1>6, <2>1, <3>1
  <2>4. ASSUME NEW x \in ToSet(l) PROVE x \in S \cup T
    BY <1>4, <1>7, <2>1
  <2> QED BY <2>2, <2>3, <2>4
<1>9. ASSUME NEW i \in 1..(m + n), NEW j \in 1..(m + n), l[i] = l[j] PROVE i = j
  <2>1. CASE i \in 1..m /\ j \in 1..m
    BY <1>1, <1>5, <1>9, <2>1 DEF Lists
  <2>2. CASE i - m \in 1..n /\ j - m \in 1..n /\ l[i] = q[i - m] /\ l[j] = q[j - m]
    <3>1. i - m = j - m
      BY <1>1, <1>9, <2>2 DEF Lists
    <3> QED BY <1>1, <3>1
  <2>3. \A a \in 1..m, b \in 1..n : s[a] # q[b]
    BY <1>4
  <2> QED BY <1>7, <1>9, <2>1, <2>2, <2>3
<1> QED BY <1>2, <1>3, <1>8, <1>9 DEF Lists, l

-----------------------------------------------------------------------------
(***************************************************************************)
(* Every form is a list of operations without repetition                   *)
(***************************************************************************)
Body(f) ==
    /\ f \in Seq(Ops) /\ f # <<>>
    /\ \A i, j \in DOMAIN f : i # j => About(f[i]) \cap About(f[j]) = {}
    /\ \A i \in DOMAIN f : f[i].op # "save"

Prelude(f) ==
    /\ f \in Seq(Ops) /\ f # <<>>
    /\ \A i \in DOMAIN f : About(f[i]) = {}
    /\ \A i, j \in DOMAIN f : j < i /\ f[i].op = "save" => f[j].op = "access"

LEMMA OpsAre ==
    /\ \A e \in Emails, m \in BOOLEAN :
          /\ Set([email |-> e]) \in Ops /\ Set([mfa |-> m]) \in Ops /\ Set([email |-> e, mfa |-> m]) \in Ops
    /\ \A p \in Passwords : SetPw(p) \in Ops /\ CheckPw(p) \in Ops /\ Basic(p) \in Ops
    /\ \A n \in Tokens, w \in BOOLEAN :
          /\ Add(n, w) \in Ops /\ Do("delete", n) \in Ops /\ Do("access", n) \in Ops /\ Scope(n, w) \in Ops
    /\ \A n \in Keys : Add(n, FALSE) \in Ops /\ Do("delete", n) \in Ops
    /\ \A s \in Threads : End(s) \in Ops
    /\ Save \in Ops
<1>1. \A e \in Emails, m \in BOOLEAN :
         [email |-> e] \in Assigned /\ [mfa |-> m] \in Assigned /\ [email |-> e, mfa |-> m] \in Assigned
  BY DEF Assigned
<1>2. \A v \in Assigned : Set(v) \in Ops
  BY DEF Ops, Set
<1>3. \A p \in Passwords : SetPw(p) \in Ops /\ CheckPw(p) \in Ops /\ Basic(p) \in Ops
  BY DEF Ops, SetPw, CheckPw, Basic
<1>4. \A n \in Tokens, w \in BOOLEAN : Add(n, w) \in Ops /\ Scope(n, w) \in Ops /\ Do("access", n) \in Ops
  BY DEF Ops, Add, Scope, Do
<1>5. \A n \in Names : Do("delete", n) \in Ops
  BY DEF Ops, Do
<1>6. \A n \in Keys : Add(n, FALSE) \in Ops
  BY DEF Ops, Add
<1>7. (\A s \in Threads : End(s) \in Ops) /\ Save \in Ops
  BY DEF Ops, End, Save
<1> QED BY <1>1, <1>2, <1>3, <1>4, <1>5, <1>6, <1>7 DEF Names

LEMMA OneOp == ASSUME NEW o \in Ops, o.op # "save" PROVE Body(<<o>>)
BY DEF Body

LEMMA TwoOps ==
    ASSUME NEW o \in Ops, NEW q \in Ops, o.op # "save", q.op # "save", About(o) \cap About(q) = {}
    PROVE  Body(<<o, q>>)
<1>1. <<o, q>> \in Seq(Ops) /\ <<o, q>> # <<>> /\ DOMAIN <<o, q>> = {1, 2}
  OBVIOUS
<1>2. <<o, q>>[1] = o /\ <<o, q>>[2] = q /\ About(q) \cap About(o) = {}
  OBVIOUS
<1> QED BY <1>1, <1>2 DEF Body

LEMMA Bodies == ASSUME NEW f \in ApiWrites \cup PasswordForms \cup MfaForms \cup SessionForms \cup AdminForms
                PROVE  Body(f)
<1>1. CASE f \in ProfileForms \cup MfaForms
  <2>1. PICK v : f = <<Set(v)>> /\ Set(v) \in Ops
    <3>1. CASE f \in ProfileForms
      <4>1. PICK e \in Emails : f = <<Set([email |-> e])>>
        BY <3>1 DEF ProfileForms
      <4>2. TRUE \in BOOLEAN
        OBVIOUS
      <4> QED BY <4>1, <4>2, OpsAre
    <3>2. CASE f \in MfaForms
      <4>1. PICK m \in BOOLEAN : f = <<Set([mfa |-> m])>>
        BY <3>2 DEF MfaForms
      <4>2. Set([mfa |-> m]) \in Ops
        <5>1. [mfa |-> m] \in Assigned
          BY DEF Assigned
        <5> QED BY <5>1 DEF Ops, Set
      <4> QED BY <4>1, <4>2
    <3> QED BY <1>1, <3>1, <3>2
  <2> QED BY <2>1, OneOp DEF Set
<1>2. CASE f \in PasswordForms
  <2>1. PICK p \in Passwords, x \in Passwords : f = <<CheckPw(p), SetPw(x)>>
    BY <1>2 DEF PasswordForms
  <2>2. /\ CheckPw(p) \in Ops /\ SetPw(x) \in Ops /\ CheckPw(p).op # "save" /\ SetPw(x).op # "save"
        /\ About(CheckPw(p)) = {}
    BY OpsAre DEF CheckPw, SetPw, About
  <2> QED BY <2>1, <2>2, TwoOps
<1>3. CASE f \in EditForms
  <2>1. PICK p \in Passwords, e \in Emails, m \in BOOLEAN : f = <<SetPw(p), SetUser(e, m)>>
    BY <1>3 DEF EditForms
  <2> DEFINE v == [email |-> e, mfa |-> m]
  <2>2. SetPw(p) \in Ops /\ Set(v) \in Ops /\ SetPw(p).op # "save" /\ Set(v).op # "save"
    BY OpsAre DEF SetPw, Set
  <2>3. About(SetPw(p)) = {"password"} /\ About(Set(v)) = {"email", "mfa"}
    BY DEF About, SetPw, Set
  <2> QED BY <2>1, <2>2, <2>3, TwoOps DEF SetUser
<1>4. CASE f \in TokenForms \cup SshForms
  <2>1. PICK o \in Ops : f = <<o>> /\ o.op # "save"
    <3>1. CASE \E n \in Tokens, w \in BOOLEAN : f = <<Add(n, w)>>
      <4>1. PICK n \in Tokens, w \in BOOLEAN : f = <<Add(n, w)>>
        BY <3>1
      <4> QED BY <4>1, OpsAre DEF Add
    <3>2. CASE \E n \in Keys : f = <<Add(n, FALSE)>>
      <4>1. PICK n \in Keys : f = <<Add(n, FALSE)>>
        BY <3>2
      <4> QED BY <4>1, OpsAre DEF Add
    <3>3. CASE \E n \in Names : f = <<Do("delete", n)>>
      <4>1. PICK n \in Names : f = <<Do("delete", n)>>
        BY <3>3
      <4>2. Do("delete", n) \in Ops /\ Do("delete", n).op # "save"
        BY OpsAre DEF Do, Names
      <4> QED BY <4>1, <4>2
    <3>4. \/ \E n \in Tokens, w \in BOOLEAN : f = <<Add(n, w)>>
          \/ \E n \in Keys : f = <<Add(n, FALSE)>>
          \/ \E n \in Names : f = <<Do("delete", n)>>
      <4>1. ASSUME f \in TokenForms
            PROVE  (\E n \in Tokens, w \in BOOLEAN : f = <<Add(n, w)>>) \/ (\E n \in Tokens : f = <<Do("delete", n)>>)
        BY <4>1 DEF TokenForms
      <4>2. ASSUME f \in SshForms
            PROVE  (\E n \in Keys : f = <<Add(n, FALSE)>>) \/ (\E n \in Keys : f = <<Do("delete", n)>>)
        BY <4>2 DEF SshForms
      <4> QED BY <1>4, <4>1, <4>2 DEF Names
    <3> QED BY <3>1, <3>2, <3>3, <3>4
  <2> QED BY <2>1, OneOp
<1>5. CASE f \in SessionForms
  <2>1. PICK s \in Threads : f = <<End(s)>>
    BY <1>5 DEF SessionForms
  <2> QED BY <2>1, OneOp, OpsAre DEF End
<1> QED BY <1>1, <1>2, <1>3, <1>4, <1>5
    DEF ApiWrites, ApiUserForms, ApiSshForms, ApiTokenForms, ApiAdminForms, AdminForms, AdminSessionForms

LEMMA Preludes == ASSUME NEW w \in BOOLEAN, NEW f \in ByToken(w) \cup ByPassword PROVE Prelude(f)
<1>1. CASE f \in ByToken(w)
  <2>1. PICK n \in Tokens : f = <<Do("access", n), Save, Scope(n, w)>>
    BY <1>1 DEF ByToken
  <2> DEFINE x == Do("access", n)
             z == Scope(n, w)
  <2>2. x \in Ops /\ Save \in Ops /\ z \in Ops
    BY OpsAre
  <2>3. x.op = "access" /\ Save.op = "save" /\ z.op = "scope"
    BY DEF Do, Save, Scope
  <2>4. About(x) = {} /\ About(Save) = {} /\ About(z) = {}
    BY <2>3 DEF About
  <2> HIDE DEF x, z
  <2>5. f = <<x, Save, z>>
    BY <2>1 DEF x, z
  <2>6. /\ f \in Seq(Ops) /\ f # <<>> /\ DOMAIN f = {1, 2, 3}
        /\ f[1] = x /\ f[2] = Save /\ f[3] = z
    BY <2>2, <2>5
  <2>7. \A i, j \in DOMAIN f : j < i /\ f[i].op = "save" => f[j].op = "access"
    <3>1. SUFFICES ASSUME NEW i \in {1, 2, 3}, NEW j \in {1, 2, 3}, j < i, f[i].op = "save"
                   PROVE  f[j].op = "access"
      BY <2>6
    <3>2. i = 2
      BY <2>3, <2>6, <3>1
    <3>3. j = 1
      BY <3>1, <3>2
    <3> QED BY <2>3, <2>6, <3>3
  <2> QED BY <2>4, <2>6, <2>7 DEF Prelude
<1>2. CASE f \in ByPassword
  <2>1. PICK p \in Passwords : f = <<Basic(p)>>
    BY <1>2 DEF ByPassword
  <2>2. Basic(p) \in Ops /\ Basic(p).op = "basic" /\ About(Basic(p)) = {}
    BY OpsAre DEF Basic, About
  <2> QED BY <2>1, <2>2 DEF Prelude
<1> QED BY <1>1, <1>2

LEMMA Joined ==
    ASSUME NEW a, NEW f, Prelude(a), Body(f)
    PROVE  Rest(a \o f) /\ a \o f # <<>>
<1> DEFINE l == a \o f
           m == Len(a)
           n == Len(f)
<1>1. a \in Seq(Ops) /\ f \in Seq(Ops) /\ m \in Nat /\ n \in Nat /\ DOMAIN a = 1..m /\ DOMAIN f = 1..n
      /\ m # 0
  BY LenProperties, EmptySeq DEF Prelude, Body
<1>2. l \in Seq(Ops) /\ Len(l) = m + n /\ \A i \in 1..(m + n) : l[i] = IF i <= m THEN a[i] ELSE f[i - m]
  BY <1>1, ConcatProperties
<1>3. DOMAIN l = 1..(m + n)
  BY <1>2, LenProperties
<1>4. l # <<>>
  BY <1>1, <1>2, EmptySeq
<1> HIDE DEF l, m, n
<1>5. \A i \in 1..(m + n) : \/ i \in 1..m /\ l[i] = a[i]
                            \/ i - m \in 1..n /\ l[i] = f[i - m] /\ i > m
  BY <1>1, <1>2
<1>6. ASSUME NEW i \in 1..(m + n), NEW j \in 1..(m + n), i # j
      PROVE  About(l[i]) \cap About(l[j]) = {}
  <2>1. CASE i \in 1..m /\ l[i] = a[i]
    BY <1>1, <2>1 DEF Prelude
  <2>2. CASE j \in 1..m /\ l[j] = a[j]
    BY <1>1, <2>2 DEF Prelude
  <2>3. CASE i - m \in 1..n /\ l[i] = f[i - m] /\ j - m \in 1..n /\ l[j] = f[j - m]
    <3>1. i - m # j - m
      BY <1>1, <1>6
    <3> QED BY <1>1, <2>3, <3>1 DEF Body
  <2> QED BY <1>5, <2>1, <2>2, <2>3
<1>7. ASSUME NEW i \in 1..(m + n), NEW j \in 1..(m + n), j < i, l[i].op = "save"
      PROVE  l[j].op = "access"
  <2>1. i \in 1..m /\ l[i] = a[i]
    BY <1>1, <1>5, <1>7 DEF Body
  <2>2. j \in 1..m /\ l[j] = a[j]
    <3>1. j <= m
      BY <1>1, <1>7, <2>1
    <3> QED BY <1>1, <1>5, <3>1
  <2> QED BY <1>1, <1>7, <2>1, <2>2 DEF Prelude
<1> QED BY <1>2, <1>3, <1>4, <1>6, <1>7 DEF Rest, l

LEMMA FormsRest == ASSUME NEW f \in Requests PROVE Rest(f) /\ f \in Seq(Ops) /\ f # <<>>
<1>1. f \in Forms
  BY RequestsAssumption DEF RequestsAssumption
<1>2. \A g : Body(g) => Rest(g) /\ g # <<>>
  BY DEF Body, Rest
<1>3. \A g : Prelude(g) => Rest(g) /\ g # <<>>
  BY DEF Prelude, Rest
<1>4. ASSUME f \in ApiRequests PROVE Rest(f) /\ f # <<>>
  <2>1. CASE f \in ByToken(FALSE) \cup ByPassword
    <3>1. Prelude(f)
      BY <2>1, Preludes, Zenon
    <3> QED BY <1>3, <3>1
  <2>2. CASE \E a \in ByToken(TRUE) \cup ByPassword, g \in ApiWrites : f = a \o g
    <3>1. PICK a \in ByToken(TRUE) \cup ByPassword, g \in ApiWrites : f = a \o g
      BY <2>2
    <3>2. Prelude(a) /\ Body(g)
      BY Preludes, Bodies, Zenon
    <3> QED BY <3>1, <3>2, Joined
  <2>3. \/ f \in ByToken(FALSE) \cup ByPassword
        \/ \E a \in ByToken(TRUE) \cup ByPassword, g \in ApiWrites : f = a \o g
    <3>1. (\E a \in ApiWriters, g \in ApiWrites : f = a \o g) \/ f \in ApiReaders
      BY <1>4 DEF ApiRequests
    <3> QED BY <3>1, Zenon DEF ApiWriters, ApiReaders
  <2> QED BY <2>1, <2>2, <2>3
<1>5. ASSUME f \notin ApiRequests PROVE Rest(f) /\ f # <<>>
  <2>1. f \in ApiWrites \cup PasswordForms \cup MfaForms \cup SessionForms \cup AdminForms
    BY <1>1, <1>5 DEF Forms, ApiWrites, ApiUserForms
  <2> QED BY <1>2, <2>1, Bodies
<1>6. Rest(f) /\ f # <<>>
  BY <1>4, <1>5
<1> QED BY <1>6 DEF Rest

-----------------------------------------------------------------------------
(***************************************************************************)
(* A request at work                                                       *)
(***************************************************************************)
LEMMA Merge ==
    ASSUME NEW f, NEW g
    PROVE  /\ DOMAIN Over(f, g) = DOMAIN f \cup DOMAIN g
           /\ \A x \in DOMAIN f : Over(f, g)[x] = f[x]
           /\ \A x \in DOMAIN g \ DOMAIN f : Over(f, g)[x] = g[x]
BY DEF Over

LEMMA RestTail ==
    ASSUME NEW f, Rest(f), f # <<>>
    PROVE  /\ Rest(Tail(f)) /\ Head(f) \in Ops /\ ToSet(f) = {Head(f)} \cup ToSet(Tail(f))
           /\ \A o \in ToSet(Tail(f)) : About(o) \cap About(Head(f)) = {}
           /\ Saves(Tail(f)) => Head(f).op = "access"
<1>1. f \in Seq(Ops)
  BY DEF Rest
<1>2. /\ Len(f) \in Nat \ {0} /\ DOMAIN f = 1..Len(f) /\ Head(f) = f[1] /\ Head(f) \in Ops
      /\ Tail(f) \in Seq(Ops) /\ DOMAIN Tail(f) = 1..(Len(f) - 1)
      /\ \A i \in 1..(Len(f) - 1) : Tail(f)[i] = f[i + 1]
  BY <1>1, Heads
<1>3. \A i \in DOMAIN Tail(f) : /\ i + 1 \in DOMAIN f /\ Tail(f)[i] = f[i + 1] /\ i + 1 # 1 /\ 1 < i + 1
                                /\ i \in Nat
  BY <1>2
<1>4. 1 \in DOMAIN f
  BY <1>2
<1>5. \A o \in ToSet(Tail(f)) : \E i \in DOMAIN Tail(f) : o = f[i + 1]
  BY <1>3 DEF ToSet
<1>6. Rest(Tail(f))
  <2>1. ASSUME NEW i \in DOMAIN Tail(f), NEW j \in DOMAIN Tail(f), i # j
        PROVE  About(Tail(f)[i]) \cap About(Tail(f)[j]) = {}
    <3>1. i + 1 # j + 1
      BY <1>3, <2>1
    <3> QED BY <1>3, <3>1 DEF Rest
  <2>2. ASSUME NEW i \in DOMAIN Tail(f), NEW j \in DOMAIN Tail(f), j < i, Tail(f)[i].op = "save"
        PROVE  Tail(f)[j].op = "access"
    <3>1. j + 1 < i + 1
      BY <1>3, <2>2
    <3> QED BY <1>3, <2>2, <3>1 DEF Rest
  <2> QED BY <1>2, <2>1, <2>2 DEF Rest
<1>7. ASSUME NEW o \in ToSet(Tail(f)) PROVE About(o) \cap About(Head(f)) = {}
  BY <1>2, <1>3, <1>4, <1>5 DEF Rest
<1>8. ASSUME Saves(Tail(f)) PROVE Head(f).op = "access"
  <2>1. PICK o \in ToSet(Tail(f)) : o.op = "save"
    BY <1>8 DEF Saves
  <2> QED BY <1>2, <1>3, <1>4, <1>5, <2>1 DEF Rest
<1>9. ToSet(f) = {Head(f)} \cup ToSet(Tail(f))
  BY <1>1, TailSet
<1> QED BY <1>2, <1>6, <1>7, <1>8, <1>9

\* A step takes the next operation of a form.
LEMMA Taken ==
    ASSUME NEW r, NEW q, Content(r), r.todo # <<>>,
           Shaped(q), q.pc = "run", q.form = r.form, q.todo = Tail(r.todo), q.tx = r.tx, q.tasks = r.tasks,
           Wished(r.form, q.new.set, q.new.add, q.new.write), q.new.del \subseteq Names,
           Kindred(q.new.set, q.new.add) \subseteq Kindred(r.new.set, r.new.add) \cup About(Head(r.todo))
    PROVE  Content(q)
<1> DEFINE o == Head(r.todo)
           kn == Kindred(r.new.set, r.new.add)
           kt == Kindred(r.tx.set, r.tx.add)
           kq == Kindred(q.new.set, q.new.add)
<1>1. /\ Rest(q.todo) /\ ToSet(r.todo) = {o} \cup ToSet(q.todo)
      /\ \A p \in ToSet(q.todo) : About(p) \cap About(o) = {}
      /\ Saves(q.todo) => o.op = "access"
  BY RestTail DEF Content
<1>2. kn \cap kt = {} /\ kq \subseteq kn \cup About(o) /\ \A p \in ToSet(r.todo) : About(p) \cap (kn \cup kt) = {}
  BY DEF Content
<1>3. Saves(r.todo) => kn = {} /\ kt = {} /\ (Revokes(r.form) => Revokes(r.todo))
  BY DEF Content
<1>4. ToSet(r.todo) \subseteq ToSet(r.form)
  BY DEF Content
<1> HIDE DEF o, kn, kt, kq
<1>5. kq \cap kt = {}
  BY <1>1, <1>2
<1>6. \A p \in ToSet(q.todo) : About(p) \cap (kq \cup kt) = {}
  BY <1>1, <1>2
<1>7. Saves(q.todo) => kq = {} /\ kt = {} /\ (Revokes(q.form) => Revokes(q.todo))
  <2> SUFFICES ASSUME Saves(q.todo) PROVE kq = {} /\ kt = {} /\ (Revokes(q.form) => Revokes(q.todo))
    OBVIOUS
  <2>1. Saves(r.todo) /\ o.op = "access"
    BY <1>1 DEF Saves
  <2>2. About(o) = {}
    BY <2>1 DEF About
  <2>3. Revokes(r.form) => Revokes(q.todo)
    BY <1>1, <1>3, <2>1 DEF Revokes
  <2> QED BY <1>2, <1>3, <2>1, <2>2, <2>3
<1> QED BY <1>1, <1>4, <1>5, <1>6, <1>7 DEF Content, kn, kt, kq

LEMMA FlushFields ==
    ASSUME NEW r, Shaped(r)
    PROVE  LET q == Flushed(r) IN
           /\ Shaped(q) /\ q.pc = r.pc /\ q.form = r.form /\ q.todo = r.todo /\ q.old = r.old
           /\ q.new = Clean /\ q.tasks = r.tasks \o Tasks(r)
           /\ q.tx.set = Over([a \in Changed(r) |-> r.new.set[a]], r.tx.set)
           /\ q.tx.log = Messages(r)
           /\ q.tx.add = r.tx.add \cup r.new.add /\ q.tx.write = r.tx.write \cup r.new.write
           /\ q.tx.del = r.tx.del \cup r.new.del /\ q.tx.revoke = r.tx.revoke \cup r.new.end
<1> DEFINE set == Over([a \in Changed(r) |-> r.new.set[a]], r.tx.set)
           log == Messages(r)
           list == r.tasks \o Tasks(r)
           seen == Over(r.new.set, r.seen)
           tx == Written(r)
<1>1. Flushed(r) = [r EXCEPT !.seen = seen, !.new = Clean, !.tasks = list, !.tx = tx]
  BY DEF Flushed
<1>5. tx = [r.tx EXCEPT !.set = set, !.log = log, !.add = @ \cup r.new.add,
                        !.write = @ \cup r.new.write, !.del = @ \cup r.new.del,
                        !.revoke = @ \cup r.new.end]
  BY DEF Written
<1> HIDE DEF set, log, list, seen, tx
<1>2. tx = [set |-> set, log |-> log, add |-> r.tx.add \cup r.new.add,
            write |-> r.tx.write \cup r.new.write, del |-> r.tx.del \cup r.new.del,
            revoke |-> r.tx.revoke \cup r.new.end]
  <2>1. r.tx = [set |-> r.tx.set, log |-> r.tx.log, add |-> r.tx.add, write |-> r.tx.write,
                del |-> r.tx.del, revoke |-> r.tx.revoke]
    BY DEF Shaped
  <2> QED BY <1>5, <2>1
<1>3. Flushed(r) = [pc |-> r.pc, form |-> r.form, todo |-> r.todo, seen |-> seen, old |-> r.old,
                    new |-> Clean, tx |-> tx, tasks |-> list]
  <2>1. r = [pc |-> r.pc, form |-> r.form, todo |-> r.todo, seen |-> r.seen, old |-> r.old,
             new |-> r.new, tx |-> r.tx, tasks |-> r.tasks]
    BY DEF Shaped
  <2> QED BY <1>1, <2>1
<1>4. /\ Shaped(Flushed(r)) /\ Flushed(r).pc = r.pc /\ Flushed(r).form = r.form
      /\ Flushed(r).todo = r.todo /\ Flushed(r).old = r.old
      /\ Flushed(r).new = Clean /\ Flushed(r).tasks = list /\ Flushed(r).tx = tx
  <2>1. /\ Flushed(r).pc = r.pc /\ Flushed(r).form = r.form /\ Flushed(r).seen = seen
        /\ Flushed(r).todo = r.todo /\ Flushed(r).old = r.old
        /\ Flushed(r).new = Clean /\ Flushed(r).tasks = list /\ Flushed(r).tx = tx
    BY <1>3
  <2>2. tx = [set |-> tx.set, log |-> tx.log, add |-> tx.add, write |-> tx.write, del |-> tx.del,
              revoke |-> tx.revoke]
    BY <1>2
  <2>3. Clean = [set |-> Clean.set, add |-> Clean.add, write |-> Clean.write, del |-> Clean.del,
                 access |-> Clean.access, end |-> Clean.end]
    BY DEF Clean
  <2> QED BY <1>3, <2>1, <2>2, <2>3 DEF Shaped
<1> QED BY <1>2, <1>4 DEF set, log, list

\* A flush makes statements, messages and tasks of what the session holds.
LEMMA FlushContent ==
    ASSUME NEW r, Content(r)
    PROVE  Content(Flushed(r))
<1> DEFINE q == Flushed(r)
           new == [a \in Changed(r) |-> r.new.set[a]]
           kinds == Changed(r) \cup {KindOf(n) : n \in r.new.add}
           kn == Kindred(r.new.set, r.new.add)
           kt == Kindred(r.tx.set, r.tx.add)
<1>1. /\ Shaped(q) /\ q.pc = "run" /\ q.form = r.form /\ q.todo = r.todo
      /\ q.new = Clean /\ q.tasks = r.tasks \o Tasks(r)
      /\ q.tx.set = Over(new, r.tx.set) /\ q.tx.log = Messages(r)
      /\ q.tx.add = r.tx.add \cup r.new.add /\ q.tx.write = r.tx.write \cup r.new.write
      /\ q.tx.del = r.tx.del \cup r.new.del
  BY FlushFields DEF Content
<1>2. Changed(r) \subseteq DOMAIN r.new.set /\ DOMAIN new = Changed(r)
  BY DEF Changed
<1>3. /\ DOMAIN q.tx.set = Changed(r) \cup DOMAIN r.tx.set
      /\ \A a \in Changed(r) : q.tx.set[a] = r.new.set[a]
      /\ \A a \in DOMAIN r.tx.set \ Changed(r) : q.tx.set[a] = r.tx.set[a]
  <2> HIDE DEF q
  <2>1. \A a \in Changed(r) : new[a] = r.new.set[a]
    OBVIOUS
  <2> HIDE DEF new
  <2> DEFINE old == r.tx.set
  <2>2. q.tx.set = Over(new, old)
    BY <1>1
  <2> HIDE DEF new, old
  <2>3. /\ DOMAIN Over(new, old) = DOMAIN new \cup DOMAIN old
        /\ \A a \in DOMAIN new : Over(new, old)[a] = new[a]
        /\ \A a \in DOMAIN old \ DOMAIN new : Over(new, old)[a] = old[a]
    BY Merge
  <2>4. /\ DOMAIN q.tx.set = Changed(r) \cup DOMAIN old
        /\ \A a \in Changed(r) : q.tx.set[a] = r.new.set[a]
        /\ \A a \in DOMAIN old \ Changed(r) : q.tx.set[a] = old[a]
    BY <1>2, <2>1, <2>2, <2>3
  <2> QED BY <2>4 DEF old
<1>4. /\ DOMAIN q.tx.log = DOMAIN q.tx.set \ {"password"}
      /\ \A a \in DOMAIN q.tx.log : q.tx.log[a] = q.tx.set[a]
  <2> DEFINE told == [a \in Changed(r) \ {"password"} |-> r.new.set[a]]
  <2>1. q.tx.log = Over(told, r.tx.log)
    BY <1>1 DEF Messages
  <2>2. DOMAIN told = Changed(r) \ {"password"} /\ \A a \in DOMAIN told : told[a] = r.new.set[a]
    OBVIOUS
  <2>3. /\ DOMAIN r.tx.log = DOMAIN r.tx.set \ {"password"}
        /\ \A a \in DOMAIN r.tx.log : r.tx.log[a] = r.tx.set[a]
    BY DEF Content
  <2> DEFINE old == r.tx.log
  <2> HIDE DEF told, q, old
  <2>5. /\ DOMAIN Over(told, old) = DOMAIN told \cup DOMAIN old
        /\ \A a \in DOMAIN told : Over(told, old)[a] = told[a]
        /\ \A a \in DOMAIN old \ DOMAIN told : Over(told, old)[a] = old[a]
    BY Merge
  <2>4. /\ DOMAIN q.tx.log = DOMAIN told \cup DOMAIN r.tx.log
        /\ \A a \in DOMAIN told : q.tx.log[a] = told[a]
        /\ \A a \in DOMAIN r.tx.log \ DOMAIN told : q.tx.log[a] = r.tx.log[a]
    BY <2>1, <2>5 DEF old
  <2> QED BY <1>3, <2>2, <2>3, <2>4
<1>5. Wished(r.form, q.tx.set, q.tx.add, q.tx.write)
  <2>1. Wished(r.form, r.new.set, r.new.add, r.new.write) /\ Wished(r.form, r.tx.set, r.tx.add, r.tx.write)
    BY DEF Content
  <2> HIDE DEF q
  <2>2. ASSUME NEW a \in DOMAIN q.tx.set
        PROVE  \E o \in ToSet(r.form) : \/ o.op = "set" /\ a \in DOMAIN o.values /\ o.values[a] = q.tx.set[a]
                                        \/ o = SetPw(q.tx.set[a]) /\ a = "password"
    <3>1. CASE a \in Changed(r)
      BY <1>2, <1>3, <2>1, <3>1 DEF Wished
    <3>2. CASE a \in DOMAIN r.tx.set \ Changed(r)
      BY <1>3, <2>1, <3>2 DEF Wished
    <3> QED BY <1>3, <3>1, <3>2
  <2>3. \A n \in q.tx.add : \E w \in BOOLEAN : Add(n, w) \in ToSet(r.form)
    BY <1>1, <2>1 DEF Wished
  <2>4. (\A n \in q.tx.write : Add(n, TRUE) \in ToSet(r.form)) /\ q.tx.write \subseteq q.tx.add
    BY <1>1, <2>1 DEF Wished
  <2> QED BY <2>2, <2>3, <2>4 DEF Wished
<1>6. kinds \subseteq kn /\ Kindred(q.tx.set, q.tx.add) = kt \cup kinds
  <2> HIDE DEF q
  <2> QED BY <1>1, <1>2, <1>3 DEF Kindred
<1>7. kn \subseteq Kinds /\ kn \cap kt = {} /\ Lists(r.tasks, kt)
      /\ \A o \in ToSet(r.todo) : About(o) \cap (kn \cup kt) = {}
  BY WishedTypes DEF Content
<1>8. Lists(q.tasks, Kindred(q.tx.set, q.tx.add))
  <2>1. Lists(Tasks(r), kinds) /\ kt \cap kinds = {}
    BY <1>6, <1>7, ListOfSet DEF Tasks
  <2> HIDE DEF kinds, kt, q
  <2>2. Lists(r.tasks, kt)
    BY <1>7
  <2>3. Lists(r.tasks \o Tasks(r), kt \cup kinds)
    BY <2>1, <2>2, ListsAppend
  <2> QED BY <1>1, <1>6, <2>3
<1>9. Kindred(q.new.set, q.new.add) = {}
  BY <1>1 DEF Clean, Kindred
<1>10. Wished(r.form, q.new.set, q.new.add, q.new.write) /\ q.new.del = {}
  BY <1>1 DEF Clean, Wished
<1>11. Saves(r.todo) => kn = {} /\ kt = {} /\ (Revokes(r.form) => Revokes(r.todo))
  BY DEF Content
<1>12. r.form \in Seq(Ops) /\ Rest(r.todo) /\ ToSet(r.todo) \subseteq ToSet(r.form)
       /\ q.tx.del \subseteq Names
  BY <1>1 DEF Content
<1> HIDE DEF q, kinds, kn, kt
<1>13. /\ Kindred(q.new.set, q.new.add) \cap Kindred(q.tx.set, q.tx.add) = {}
       /\ \A o \in ToSet(q.todo) :
             About(o) \cap (Kindred(q.new.set, q.new.add) \cup Kindred(q.tx.set, q.tx.add)) = {}
  BY <1>1, <1>6, <1>7, <1>9
<1>14. Saves(q.todo) => /\ Kindred(q.new.set, q.new.add) = {} /\ Kindred(q.tx.set, q.tx.add) = {}
                        /\ Revokes(q.form) => Revokes(q.todo)
  BY <1>1, <1>6, <1>9, <1>11
<1>15. Content(q)
  BY <1>1, <1>4, <1>5, <1>8, <1>10, <1>12, <1>13, <1>14 DEF Content
<1> QED BY <1>15 DEF q
-----------------------------------------------------------------------------
(***************************************************************************)
(* Threads                                                                 *)
(***************************************************************************)
\* What Content says depends on these fields only.
LEMMA Like ==
    ASSUME NEW r, NEW q, Content(r), Shaped(q),
           q.pc = r.pc, q.form = r.form, q.todo = r.todo, q.new = r.new, q.tasks = r.tasks,
           q.tx.set = r.tx.set, q.tx.log = r.tx.log, q.tx.add = r.tx.add, q.tx.write = r.tx.write,
           q.tx.del = r.tx.del
    PROVE  Content(q)
BY DEF Content

LEMMA IdleFields ==
    /\ Idle.pc = "idle" /\ Idle.form = <<>> /\ Idle.todo = <<>> /\ Idle.seen = <<>> /\ Idle.old = {}
    /\ Idle.new = Clean /\ Idle.tx = NoTx /\ Idle.tasks = <<>>
    /\ Shaped(Idle)
<1>1. /\ Idle.pc = "idle" /\ Idle.form = <<>> /\ Idle.todo = <<>> /\ Idle.seen = <<>> /\ Idle.old = {}
      /\ Idle.new = Clean /\ Idle.tx = NoTx /\ Idle.tasks = <<>>
  BY DEF Idle
<1>2. Idle = [pc |-> Idle.pc, form |-> Idle.form, todo |-> Idle.todo, seen |-> Idle.seen,
              old |-> Idle.old, new |-> Idle.new, tx |-> Idle.tx, tasks |-> Idle.tasks]
  BY DEF Idle
<1>3. Clean = [set |-> Clean.set, add |-> Clean.add, write |-> Clean.write, del |-> Clean.del,
               access |-> Clean.access, end |-> Clean.end]
  BY DEF Clean
<1>4. NoTx = [set |-> NoTx.set, log |-> NoTx.log, add |-> NoTx.add, write |-> NoTx.write,
              del |-> NoTx.del, revoke |-> NoTx.revoke]
  BY DEF NoTx
<1> QED BY <1>1, <1>2, <1>3, <1>4 DEF Shaped

LEMMA Nothing ==
    /\ Clean.set = <<>> /\ Clean.add = {} /\ Clean.write = {} /\ Clean.del = {} /\ Clean.end = {}
    /\ NoTx.set = <<>> /\ NoTx.log = <<>> /\ NoTx.add = {} /\ NoTx.write = {} /\ NoTx.del = {}
    /\ NoTx.revoke = {}
    /\ Kindred(<<>>, {}) = {} /\ Lists(<<>>, {}) /\ DOMAIN <<>> = {}
    /\ \A form : Wished(form, <<>>, {}, {})
<1>1. DOMAIN <<>> = {} /\ ToSet(<<>>) = {} /\ <<>> \in Seq(Kinds)
  BY DEF ToSet
<1> QED BY <1>1 DEF Clean, NoTx, Kindred, Lists, Wished

\* A thread that has mails to send.
Sender(tasks) == [Idle EXCEPT !.pc = "publish", !.tasks = tasks]

LEMMA SenderFields ==
    ASSUME NEW tasks
    PROVE  /\ Sender(tasks).pc = "publish" /\ Sender(tasks).tasks = tasks /\ Sender(tasks).tx = NoTx
           /\ Sender(tasks).old = {} /\ Shaped(Sender(tasks))
<1>1. Sender(tasks) = [pc |-> "publish", form |-> <<>>, todo |-> <<>>, seen |-> <<>>, old |-> {},
                       new |-> Clean, tx |-> NoTx, tasks |-> tasks]
  <2>1. PICK r : r = Idle /\ Shaped(r)
    BY IdleFields
  <2>2. r = [pc |-> r.pc, form |-> r.form, todo |-> r.todo, seen |-> r.seen, old |-> r.old,
             new |-> r.new, tx |-> r.tx, tasks |-> r.tasks]
    BY <2>1 DEF Shaped
  <2>3. Sender(tasks) = [r EXCEPT !.pc = "publish", !.tasks = tasks]
    BY <2>1 DEF Sender
  <2>4. Sender(tasks) = [pc |-> "publish", form |-> r.form, todo |-> r.todo, seen |-> r.seen,
                         old |-> r.old, new |-> r.new, tx |-> r.tx, tasks |-> tasks]
    BY <2>2, <2>3
  <2> QED BY <2>1, <2>4, IdleFields
<1>2. Shaped(Idle) /\ Idle.new = Clean /\ Idle.tx = NoTx
  BY IdleFields
<1> HIDE DEF Sender
<1>3. /\ Sender(tasks).pc = "publish" /\ Sender(tasks).tasks = tasks /\ Sender(tasks).tx = NoTx
      /\ Sender(tasks).old = {} /\ Sender(tasks).new = Clean
      /\ Sender(tasks).form = <<>> /\ Sender(tasks).todo = <<>> /\ Sender(tasks).seen = <<>>
  BY <1>1
<1> QED BY <1>1, <1>2, <1>3 DEF Shaped

LEMMA Phases ==
    ASSUME NEW t, NEW r, NEW ss, ThreadOK(t, r, ss)
    PROVE  /\ r.pc \in {"idle", "run", "publish"} /\ Shaped(r)
           /\ r.pc = "idle" => r = Idle
           /\ r.pc = "run" => Content(r) /\ Revoked(t, r, ss)
           /\ r.pc = "publish" => /\ r = Sender(r.tasks) /\ r.tasks # <<>>
                                  /\ Lists(r.tasks, ToSet(r.tasks))
<1>1. CASE r = Idle
  BY <1>1, IdleFields
<1>2. CASE r = Sender(r.tasks) /\ r.tasks # <<>> /\ Lists(r.tasks, ToSet(r.tasks))
  <2>1. r.pc = "publish" /\ Shaped(r)
    BY <1>2, SenderFields
  <2> QED BY <1>2, <2>1
<1>3. CASE Content(r) /\ Revoked(t, r, ss)
  BY <1>3 DEF Content
<1> QED BY <1>1, <1>2, <1>3 DEF ThreadOK, Sender

LEMMA PublishedOK ==
    ASSUME NEW t, NEW tasks, NEW ss, NEW S, Lists(tasks, S)
    PROVE  /\ ThreadOK(t, Published(tasks), ss)
           /\ Published(tasks).pc # "run"
           /\ \A k : Published(tasks).pc = "publish" /\ k \in ToSet(Published(tasks).tasks) <=> k \in S
<1>1. CASE tasks = <<>>
  <2>1. Published(tasks) = Idle /\ S = {}
    BY <1>1 DEF Published, Lists, ToSet
  <2> QED BY <2>1, IdleFields DEF ThreadOK
<1>2. CASE tasks # <<>>
  <2>1. Published(tasks) = Sender(tasks) /\ S = ToSet(tasks)
    BY <1>2 DEF Published, Lists, Sender
  <2>2. ThreadOK(t, Sender(tasks), ss)
    BY <1>2, <2>1, SenderFields DEF ThreadOK, Sender
  <2> QED BY <2>1, <2>2, SenderFields
<1> QED BY <1>1, <1>2

\* When sessions end, what a thread was to do stays right.
LEMMA Weaken ==
    ASSUME NEW t, NEW r, NEW ss, NEW s2 \in SUBSET ss, ThreadOK(t, r, ss)
    PROVE  ThreadOK(t, r, s2)
BY DEF ThreadOK, Revoked

-----------------------------------------------------------------------------
(***************************************************************************)
(* The parts of a step                                                     *)
(***************************************************************************)
LEMMA OneThread ==
    ASSUME Working, NEW t \in Threads, NEW r, req' = [req EXCEPT ![t] = r],
           sessions' \subseteq sessions, ThreadOK(t, r, sessions')
    PROVE  Working'
<1>1. DOMAIN req' = Threads
  BY DEF Working
<1>2. ASSUME NEW u \in Threads PROVE ThreadOK(u, req'[u], sessions')
  <2>1. CASE u = t
    <3>1. req'[t] = r
      BY DEF Working
    <3> QED BY <2>1, <3>1
  <2>2. CASE u # t
    <3>1. req'[u] = req[u] /\ ThreadOK(u, req[u], sessions)
      BY <2>2 DEF Working
    <3> QED BY <3>1, Weaken
  <2> QED BY <2>1, <2>2
<1> QED BY <1>1, <1>2 DEF Working

Sends(r, k) == r.pc = "publish" /\ k \in ToSet(r.tasks)
One(b) == IF b THEN 1 ELSE 0

LEMMA Sending ==
    ASSUME Working, NEW t \in Threads, NEW r, req' = [req EXCEPT ![t] = r], NEW k
    PROVE  /\ Cardinality(Senders(k)) \in Nat
           /\ Cardinality(Senders(k)') = Cardinality(Senders(k)) + One(Sends(r, k)) - One(Sends(req[t], k))
<1> DEFINE S == Senders(k) \ {t}
<1>1. req'[t] = r /\ \A u \in Threads \ {t} : req'[u] = req[u]
  BY DEF Working
<1>2. Senders(k) = IF Sends(req[t], k) THEN S \cup {t} ELSE S
  BY DEF Senders, Sends
<1>3. Senders(k)' = IF Sends(r, k) THEN S \cup {t} ELSE S
  BY <1>1 DEF Senders, Sends
<1>4. IsFiniteSet(S) /\ t \notin S
  BY ThreadsAssumption, FS_Subset DEF ThreadsAssumption, Senders
<1> HIDE DEF S
<1>5. /\ Cardinality(S) \in Nat /\ Cardinality(S \cup {t}) = Cardinality(S) + 1
  BY <1>4, FS_CardinalityType, FS_AddElement
<1> QED BY <1>2, <1>3, <1>5 DEF One

LEMMA OwedStep ==
    ASSUME Working, Owed, NEW t \in Threads, NEW r, req' = [req EXCEPT ![t] = r],
           DOMAIN owed' = Kinds,
           \A k \in Kinds : owed'[k] = owed[k] + One(Sends(r, k)) - One(Sends(req[t], k))
    PROVE  Owed'
<1>1. ASSUME NEW k \in Kinds PROVE owed'[k] = Cardinality(Senders(k)')
  <2>1. /\ Cardinality(Senders(k)) \in Nat
        /\ Cardinality(Senders(k)') = Cardinality(Senders(k)) + One(Sends(r, k)) - One(Sends(req[t], k))
    BY Sending
  <2>2. owed[k] = Cardinality(Senders(k))
    BY DEF Owed
  <2> QED BY <2>1, <2>2
<1> QED BY <1>1 DEF Owed

LEMMA AccountStays ==
    ASSUME Account, UNCHANGED <<row, objects, scoped, expired, sessions, logged>>,
           writer' \in Threads \cup {Nobody}
    PROVE  Account'
BY DEF Account, AuditMatchesAccount

\* A step of a request that saves nothing.
LEMMA Step ==
    ASSUME IInv, NEW t \in Threads, NEW r, req' = [req EXCEPT ![t] = r],
           req[t].pc # "publish", r.pc # "publish", ThreadOK(t, r, sessions),
           UNCHANGED <<row, objects, scoped, expired, sessions, logged, owed>>,
           writer' \in Threads \cup {Nobody}
    PROVE  IInv'
<1>1. Account'
  BY AccountStays DEF IInv
<1>2. Working'
  BY OneThread DEF IInv
<1>3. Owed'
  <2>1. Working /\ Owed /\ owed' = owed /\ DOMAIN owed = Kinds
    BY DEF IInv, Owed
  <2>2. \A k : ~Sends(r, k) /\ ~Sends(req[t], k)
    BY DEF Sends
  <2>3. ASSUME NEW k \in Kinds PROVE owed'[k] = owed[k] + One(Sends(r, k)) - One(Sends(req[t], k))
    <3>1. owed[k] \in Nat
      BY <2>1, Sending DEF Owed
    <3> QED BY <2>1, <2>2, <3>1 DEF One
  <2> QED BY <2>1, <2>3, OwedStep
<1> QED BY <1>1, <1>2, <1>3 DEF IInv
-----------------------------------------------------------------------------
(***************************************************************************)
(* The steps of a request                                                  *)
(***************************************************************************)
LEMMA Whole ==
    ASSUME NEW r, r = [x \in DOMAIN r |-> r[x]],
           DOMAIN r = {"pc", "form", "todo", "seen", "old", "new", "tx", "tasks"}
    PROVE  r = [pc |-> r.pc, form |-> r.form, todo |-> r.todo, seen |-> r.seen, old |-> r.old,
                new |-> r.new, tx |-> r.tx, tasks |-> r.tasks]
OBVIOUS

LEMMA Works ==
    ASSUME IInv, NEW t \in Threads
    PROVE  /\ DOMAIN req = Threads /\ ThreadOK(t, req[t], sessions) /\ Shaped(req[t])
           /\ req[t].pc = "idle" => req[t] = Idle
           /\ req[t].pc = "run" => Content(req[t]) /\ Revoked(t, req[t], sessions)
           /\ req[t].pc = "publish" => /\ req[t] = Sender(req[t].tasks) /\ req[t].tasks # <<>>
                                       /\ Lists(req[t].tasks, ToSet(req[t].tasks))
           /\ writer \in Threads \cup {Nobody}
BY Phases DEF IInv, Working, Account

LEMMA InitInv == Init => IInv
<1> SUFFICES ASSUME Init PROVE IInv
  OBVIOUS
<1>1. /\ DOMAIN row = Attributes /\ \A a \in Attributes : row[a] \in Values(a)
      /\ objects = {} /\ expired = {} /\ scoped = {} /\ sessions = Threads /\ writer = Nobody
      /\ req = [t \in Threads |-> Idle] /\ owed = [k \in Kinds |-> 0]
  BY DEF Init
<1>2. AuditMatchesAccount
  <2>1. \A a \in {"email", "mfa"} : a \in Logged /\ a \notin Names
    BY NamesAssumption DEF NamesAssumption, Attributes, Logged
  <2>2. logged = [k \in Logged |-> IF k \in Names THEN FALSE ELSE row[k]]
    BY DEF Init
  <2> QED BY <1>1, <2>1, <2>2 DEF AuditMatchesAccount
<1>3. Account
  BY <1>1, <1>2 DEF Account
<1>4. Working
  BY <1>1 DEF Working, ThreadOK
<1>5. Owed
  <2>1. ASSUME NEW k \in Kinds PROVE Senders(k) = {}
    BY <1>1, IdleFields DEF Senders
  <2> QED BY <1>1, <2>1, FS_EmptySet DEF Owed
<1> QED BY <1>3, <1>4, <1>5 DEF IInv

LEMMA BeginStep == ASSUME IInv, NEW t \in Threads, NEW f \in Requests, Begin(t, f) PROVE IInv'
<1> DEFINE seen == Over([a \in Looks(f) |-> row[a]], req[t].seen)
           old == IF Revokes(f) THEN sessions ELSE {}
           r == [pc |-> "run", form |-> f, todo |-> f, seen |-> seen, old |-> old,
                 new |-> Clean, tx |-> NoTx, tasks |-> <<>>]
<1>1. req[t] = Idle /\ DOMAIN req = Threads
  BY Works DEF Begin
<1>2. req' = [req EXCEPT ![t].pc = "run", ![t].form = f, ![t].todo = f, ![t].seen = seen, ![t].old = old]
  BY DEF Begin
<1> HIDE DEF seen, old
<1>3. req' = [req EXCEPT ![t] = r]
  <2>1. PICK i : i = req[t]
    OBVIOUS
  <2>2. i = [pc |-> i.pc, form |-> i.form, todo |-> i.todo, seen |-> i.seen, old |-> i.old,
             new |-> i.new, tx |-> i.tx, tasks |-> i.tasks]
    BY <1>1, <2>1, IdleFields DEF Shaped
  <2>3. req' = [req EXCEPT ![t] = [i EXCEPT !.pc = "run", !.form = f, !.todo = f, !.seen = seen, !.old = old]]
    BY <1>1, <1>2, <2>1
  <2>4. [i EXCEPT !.pc = "run", !.form = f, !.todo = f, !.seen = seen, !.old = old]
        = [pc |-> "run", form |-> f, todo |-> f, seen |-> seen, old |-> old,
           new |-> i.new, tx |-> i.tx, tasks |-> i.tasks]
    <3> DEFINE k == [i EXCEPT !.pc = "run", !.form = f, !.todo = f, !.seen = seen, !.old = old]
    <3>1. /\ DOMAIN k = DOMAIN i /\ k.pc = "run" /\ k.form = f /\ k.todo = f /\ k.seen = seen
          /\ k.old = old /\ k.new = i.new /\ k.tx = i.tx /\ k.tasks = i.tasks
      BY <2>2
    <3>2. DOMAIN i = {"pc", "form", "todo", "seen", "old", "new", "tx", "tasks"}
      BY <2>2
    <3>3. k = [x \in DOMAIN k |-> k[x]]
      OBVIOUS
    <3> HIDE DEF k
    <3>4. k = [pc |-> k.pc, form |-> k.form, todo |-> k.todo, seen |-> k.seen, old |-> k.old,
               new |-> k.new, tx |-> k.tx, tasks |-> k.tasks]
      BY <3>1, <3>2, <3>3, Whole
    <3>5. k = [pc |-> "run", form |-> f, todo |-> f, seen |-> seen, old |-> old,
               new |-> i.new, tx |-> i.tx, tasks |-> i.tasks]
      BY <3>1, <3>4
    <3> QED BY <3>5 DEF k
  <2> QED BY <1>1, <2>1, <2>3, <2>4, IdleFields
<1>4. /\ r.pc = "run" /\ r.form = f /\ r.todo = f /\ r.old = old /\ r.new = Clean /\ r.tx = NoTx
      /\ r.tasks = <<>> /\ Shaped(r)
  <2>1. Shaped(Idle) /\ Idle.new = Clean /\ Idle.tx = NoTx
    BY IdleFields
  <2> QED BY <2>1 DEF Shaped
<1> HIDE DEF r
<1>5. Rest(f) /\ f \in Seq(Ops)
  BY FormsRest
<1>6. Content(r)
  <2>1. /\ Lists(r.tasks, Kindred(r.tx.set, r.tx.add)) /\ Kindred(r.new.set, r.new.add) = {}
        /\ Kindred(r.tx.set, r.tx.add) = {}
        /\ Wished(r.form, r.new.set, r.new.add, r.new.write)
        /\ Wished(r.form, r.tx.set, r.tx.add, r.tx.write)
        /\ r.new.del = {} /\ r.tx.del = {} /\ DOMAIN r.tx.log = {} /\ DOMAIN r.tx.set = {}
    BY <1>4, Nothing
  <2> QED BY <1>4, <1>5, <2>1 DEF Content
<1>7. Revoked(t, r, sessions)
  BY <1>4, Nothing DEF Revoked
<1>8. ThreadOK(t, r, sessions)
  BY <1>6, <1>7 DEF ThreadOK
<1>9. /\ UNCHANGED <<row, objects, scoped, expired, sessions, logged, owed>>
      /\ writer' \in Threads \cup {Nobody}
  BY Works DEF Begin
<1>10. req[t].pc # "publish" /\ r.pc # "publish"
  BY <1>4 DEF Begin
<1> QED BY <1>3, <1>8, <1>9, <1>10, Step

LEMMA FailsStep == ASSUME IInv, NEW t \in Threads, req[t].pc = "run", Fails(t) PROVE IInv'
<1>1. req' = [req EXCEPT ![t] = Idle]
  BY DEF Fails, RolledBack
<1>2. ThreadOK(t, Idle, sessions) /\ Idle.pc = "idle"
  BY IdleFields DEF ThreadOK
<1>3. /\ UNCHANGED <<row, objects, scoped, expired, sessions, logged, owed>>
      /\ writer' \in Threads \cup {Nobody}
  BY Works DEF Fails
<1> QED BY <1>1, <1>2, <1>3, Step

\* What becomes of the session of a request that takes its next operation.
LEMMA Taking ==
    ASSUME NEW t \in Threads, NEW r, NEW q, NEW ss, Content(r), Revoked(t, r, ss), r.todo # <<>>,
           Head(r.todo).op # "set_password",
           Shaped(q), q.pc = "run", q.form = r.form, q.todo = Tail(r.todo), q.tx = r.tx, q.tasks = r.tasks,
           q.old = r.old,
           Wished(r.form, q.new.set, q.new.add, q.new.write), q.new.del \subseteq Names,
           t \notin q.new.end,
           Kindred(q.new.set, q.new.add) \subseteq Kindred(r.new.set, r.new.add) \cup About(Head(r.todo))
    PROVE  ThreadOK(t, q, ss)
<1>1. Content(q)
  BY Taken
<1>2. ToSet(r.todo) = {Head(r.todo)} \cup ToSet(q.todo)
  BY RestTail DEF Content
<1>3. Revokes(r.todo) <=> Revokes(q.todo)
  BY <1>2 DEF Revokes
<1>4. Revoked(t, q, ss)
  BY <1>3 DEF Revoked
<1> QED BY <1>1, <1>4 DEF ThreadOK
Fun(f) == f = [x \in DOMAIN f |-> f[x]]

\* Updates keep the shape of a record.
LEMMA Reshaped ==
    ASSUME NEW r, NEW q, Shaped(r), Fun(q), DOMAIN q = DOMAIN r, Fun(q.new), DOMAIN q.new = DOMAIN r.new,
           Fun(q.tx), DOMAIN q.tx = DOMAIN r.tx
    PROVE  Shaped(q)
<1>1. /\ DOMAIN q = {"pc", "form", "todo", "seen", "old", "new", "tx", "tasks"}
      /\ DOMAIN q.new = {"set", "add", "write", "del", "access", "end"}
      /\ DOMAIN q.tx = {"set", "log", "add", "write", "del", "revoke"}
  <2>1. DOMAIN q = {"pc", "form", "todo", "seen", "old", "new", "tx", "tasks"}
    BY DEF Shaped
  <2>2. DOMAIN q.new = {"set", "add", "write", "del", "access", "end"}
    BY DEF Shaped
  <2>3. DOMAIN q.tx = {"set", "log", "add", "write", "del", "revoke"}
    BY DEF Shaped
  <2> QED BY <2>1, <2>2, <2>3
<1>2. q = [pc |-> q.pc, form |-> q.form, todo |-> q.todo, seen |-> q.seen, old |-> q.old,
           new |-> q.new, tx |-> q.tx, tasks |-> q.tasks]
  BY <1>1, Whole DEF Fun
<1>3. q.new = [set |-> q.new.set, add |-> q.new.add, write |-> q.new.write, del |-> q.new.del,
               access |-> q.new.access, end |-> q.new.end]
  <2>1. PICK f : f = q.new
    OBVIOUS
  <2>2. f = [set |-> f.set, add |-> f.add, write |-> f.write, del |-> f.del, access |-> f.access, end |-> f.end]
    BY <1>1, <2>1 DEF Fun
  <2> QED BY <2>1, <2>2
<1>4. q.tx = [set |-> q.tx.set, log |-> q.tx.log, add |-> q.tx.add, write |-> q.tx.write,
              del |-> q.tx.del, revoke |-> q.tx.revoke]
  <2>1. PICK f : f = q.tx
    OBVIOUS
  <2>2. f = [set |-> f.set, log |-> f.log, add |-> f.add, write |-> f.write, del |-> f.del, revoke |-> f.revoke]
    BY <1>1, <2>1 DEF Fun
  <2> QED BY <2>1, <2>2
<1> QED BY <1>2, <1>3, <1>4 DEF Shaped

\* What an operation does to a session, or a query to its transaction.
SetNew(r, v) == [r EXCEPT !.new.set = v]
AddNew(r, v, w) == [r EXCEPT !.new.add = v, !.new.write = w]
DelNew(r, v) == [r EXCEPT !.new.del = v]
AccessNew(r, v) == [r EXCEPT !.new.access = v]
EndNew(r, v) == [r EXCEPT !.new.end = v]
SeenNew(r, v) == [r EXCEPT !.seen = v]
RevokeTx(r, v) == [r EXCEPT !.tx.revoke = v]

\* The fields that the next operation of a form leaves alone.
Kept(q, r) ==
    /\ Shaped(q) /\ q.pc = r.pc /\ q.form = r.form /\ q.old = r.old
    /\ q.tx = r.tx /\ q.tasks = r.tasks

LEMMA NextFields ==
    ASSUME NEW r, Shaped(r)
    PROVE  Kept(Next1(r), r) /\ Next1(r).todo = Tail(r.todo) /\ Next1(r).new = r.new /\ Next1(r).seen = r.seen
<1> DEFINE q == Next1(r)
<1>1. /\ Fun(q) /\ DOMAIN q = DOMAIN r /\ q.new = r.new /\ q.tx = r.tx /\ Fun(r.new) /\ Fun(r.tx)
  BY DEF Shaped, Next1, Fun
<1>2. /\ q.pc = r.pc /\ q.form = r.form /\ q.old = r.old /\ q.tasks = r.tasks
      /\ q.todo = Tail(r.todo) /\ q.seen = r.seen
  BY DEF Shaped, Next1
<1> HIDE DEF q
<1>3. Shaped(q)
  BY <1>1, Reshaped
<1> QED BY <1>1, <1>2, <1>3 DEF Kept, q

LEMMA SetFields ==
    ASSUME NEW r, Shaped(r), NEW v, NEW q, q = SetNew(r, v)
    PROVE  /\ Kept(q, r) /\ q.todo = r.todo /\ q.seen = r.seen
           /\ q.new.set = v /\ q.new.add = r.new.add /\ q.new.write = r.new.write /\ q.new.del = r.new.del
           /\ q.new.access = r.new.access /\ q.new.end = r.new.end
<1>1. Fun(q) /\ DOMAIN q = DOMAIN r /\ Fun(q.new) /\ DOMAIN q.new = DOMAIN r.new /\ q.tx = r.tx /\ Fun(q.tx)
  BY DEF Shaped, Fun, SetNew
<1>2. /\ q.pc = r.pc /\ q.form = r.form /\ q.old = r.old /\ q.tasks = r.tasks
      /\ q.todo = r.todo /\ q.seen = r.seen
      /\ q.new.set = v /\ q.new.add = r.new.add /\ q.new.write = r.new.write /\ q.new.del = r.new.del
      /\ q.new.access = r.new.access /\ q.new.end = r.new.end
  BY DEF Shaped, SetNew
<1>3. Shaped(q)
  BY <1>1, Reshaped
<1> QED BY <1>1, <1>2, <1>3 DEF Kept

LEMMA AddFields ==
    ASSUME NEW r, Shaped(r), NEW v, NEW w, NEW q, q = AddNew(r, v, w)
    PROVE  /\ Kept(q, r) /\ q.todo = r.todo
           /\ q.new.set = r.new.set /\ q.new.add = v /\ q.new.write = w /\ q.new.del = r.new.del
           /\ q.new.end = r.new.end
<1>1. Fun(q) /\ DOMAIN q = DOMAIN r /\ Fun(q.new) /\ DOMAIN q.new = DOMAIN r.new /\ q.tx = r.tx /\ Fun(q.tx)
  BY DEF Shaped, Fun, AddNew
<1>2. /\ q.pc = r.pc /\ q.form = r.form /\ q.old = r.old /\ q.tasks = r.tasks /\ q.todo = r.todo
      /\ q.new.set = r.new.set /\ q.new.add = v /\ q.new.write = w /\ q.new.del = r.new.del
      /\ q.new.end = r.new.end
  BY DEF Shaped, AddNew
<1>3. Shaped(q)
  BY <1>1, Reshaped
<1> QED BY <1>1, <1>2, <1>3 DEF Kept

LEMMA DelFields ==
    ASSUME NEW r, Shaped(r), NEW v, NEW q, q = DelNew(r, v)
    PROVE  /\ Kept(q, r) /\ q.todo = r.todo
           /\ q.new.set = r.new.set /\ q.new.add = r.new.add /\ q.new.write = r.new.write
           /\ q.new.del = v /\ q.new.end = r.new.end
<1>1. Fun(q) /\ DOMAIN q = DOMAIN r /\ Fun(q.new) /\ DOMAIN q.new = DOMAIN r.new /\ q.tx = r.tx /\ Fun(q.tx)
  BY DEF Shaped, Fun, DelNew
<1>2. /\ q.pc = r.pc /\ q.form = r.form /\ q.old = r.old /\ q.tasks = r.tasks /\ q.todo = r.todo
      /\ q.new.set = r.new.set /\ q.new.add = r.new.add /\ q.new.write = r.new.write
      /\ q.new.del = v /\ q.new.end = r.new.end
  BY DEF Shaped, DelNew
<1>3. Shaped(q)
  BY <1>1, Reshaped
<1> QED BY <1>1, <1>2, <1>3 DEF Kept

LEMMA AccessFields ==
    ASSUME NEW r, Shaped(r), NEW v, NEW q, q = AccessNew(r, v)
    PROVE  /\ Kept(q, r) /\ q.todo = r.todo
           /\ q.new.set = r.new.set /\ q.new.add = r.new.add /\ q.new.write = r.new.write
           /\ q.new.del = r.new.del /\ q.new.end = r.new.end
<1>1. Fun(q) /\ DOMAIN q = DOMAIN r /\ Fun(q.new) /\ DOMAIN q.new = DOMAIN r.new /\ q.tx = r.tx /\ Fun(q.tx)
  BY DEF Shaped, Fun, AccessNew
<1>2. /\ q.pc = r.pc /\ q.form = r.form /\ q.old = r.old /\ q.tasks = r.tasks /\ q.todo = r.todo
      /\ q.new.set = r.new.set /\ q.new.add = r.new.add /\ q.new.write = r.new.write
      /\ q.new.del = r.new.del /\ q.new.end = r.new.end
  BY DEF Shaped, AccessNew
<1>3. Shaped(q)
  BY <1>1, Reshaped
<1> QED BY <1>1, <1>2, <1>3 DEF Kept

LEMMA EndFields ==
    ASSUME NEW r, Shaped(r), NEW v, NEW q, q = EndNew(r, v)
    PROVE  /\ Kept(q, r) /\ q.todo = r.todo
           /\ q.new.set = r.new.set /\ q.new.add = r.new.add /\ q.new.write = r.new.write
           /\ q.new.del = r.new.del /\ q.new.end = v
<1>1. Fun(q) /\ DOMAIN q = DOMAIN r /\ Fun(q.new) /\ DOMAIN q.new = DOMAIN r.new /\ q.tx = r.tx /\ Fun(q.tx)
  BY DEF Shaped, Fun, EndNew
<1>2. /\ q.pc = r.pc /\ q.form = r.form /\ q.old = r.old /\ q.tasks = r.tasks /\ q.todo = r.todo
      /\ q.new.set = r.new.set /\ q.new.add = r.new.add /\ q.new.write = r.new.write
      /\ q.new.del = r.new.del /\ q.new.end = v
  BY DEF Shaped, EndNew
<1>3. Shaped(q)
  BY <1>1, Reshaped
<1> QED BY <1>1, <1>2, <1>3 DEF Kept

LEMMA SeenFields ==
    ASSUME NEW r, Shaped(r), NEW v, NEW q, q = SeenNew(r, v)
    PROVE  /\ Kept(q, r) /\ q.todo = r.todo
           /\ q.new.set = r.new.set /\ q.new.add = r.new.add /\ q.new.write = r.new.write
           /\ q.new.del = r.new.del /\ q.new.end = r.new.end
<1>1. Fun(q) /\ DOMAIN q = DOMAIN r /\ Fun(q.new) /\ DOMAIN q.new = DOMAIN r.new /\ q.tx = r.tx /\ Fun(q.tx)
  BY DEF Shaped, Fun, SeenNew
<1>2. /\ q.pc = r.pc /\ q.form = r.form /\ q.old = r.old /\ q.tasks = r.tasks /\ q.todo = r.todo
      /\ q.new.set = r.new.set /\ q.new.add = r.new.add /\ q.new.write = r.new.write
      /\ q.new.del = r.new.del /\ q.new.end = r.new.end
  BY DEF Shaped, SeenNew
<1>3. Shaped(q)
  BY <1>1, Reshaped
<1> QED BY <1>1, <1>2, <1>3 DEF Kept

LEMMA RevokeFields ==
    ASSUME NEW r, Shaped(r), NEW v, NEW q, q = RevokeTx(r, v)
    PROVE  /\ Shaped(q) /\ q.pc = r.pc /\ q.form = r.form /\ q.old = r.old /\ q.tasks = r.tasks
           /\ q.todo = r.todo /\ q.new = r.new
           /\ q.tx.set = r.tx.set /\ q.tx.log = r.tx.log /\ q.tx.add = r.tx.add
           /\ q.tx.write = r.tx.write /\ q.tx.del = r.tx.del /\ q.tx.revoke = v
<1>1. Fun(q) /\ DOMAIN q = DOMAIN r /\ q.new = r.new /\ Fun(q.new) /\ Fun(q.tx) /\ DOMAIN q.tx = DOMAIN r.tx
  BY DEF Shaped, Fun, RevokeTx
<1>2. /\ q.pc = r.pc /\ q.form = r.form /\ q.old = r.old /\ q.tasks = r.tasks /\ q.todo = r.todo
      /\ q.tx.set = r.tx.set /\ q.tx.log = r.tx.log /\ q.tx.add = r.tx.add
      /\ q.tx.write = r.tx.write /\ q.tx.del = r.tx.del /\ q.tx.revoke = v
  BY DEF Shaped, RevokeTx
<1>3. Shaped(q)
  BY <1>1, Reshaped
<1> QED BY <1>1, <1>2, <1>3

LEMMA NoTxFields ==
    ASSUME NEW r, Shaped(r), NEW q, q = [r EXCEPT !.tx = NoTx]
    PROVE  /\ Shaped(q) /\ q.pc = r.pc /\ q.form = r.form /\ q.old = r.old /\ q.tasks = r.tasks
           /\ q.todo = r.todo /\ q.new = r.new /\ q.tx = NoTx
<1>1. q.tx = NoTx /\ Fun(q) /\ DOMAIN q = DOMAIN r /\ q.new = r.new /\ Fun(q.new)
  BY DEF Shaped, Fun
<1>2. /\ q.pc = r.pc /\ q.form = r.form /\ q.old = r.old /\ q.tasks = r.tasks /\ q.todo = r.todo
  BY DEF Shaped
<1>4. DOMAIN r.tx = DOMAIN NoTx /\ Fun(NoTx)
  BY DEF NoTx, Shaped, Fun
<1>3. Shaped(q)
  BY <1>1, <1>4, Reshaped
<1> QED BY <1>1, <1>2, <1>3
\* A request at its next operation.
LEMMA AtOp ==
    ASSUME IInv, NEW t \in Threads, req[t].pc = "run", req[t].todo # <<>>
    PROVE  LET r == req[t]
               o == Op(t)
           IN /\ Content(r) /\ Revoked(t, r, sessions) /\ Shaped(r) /\ o = Head(r.todo)
              /\ o \in Ops /\ o \in ToSet(r.form)
              /\ Wished(r.form, r.new.set, r.new.add, r.new.write) /\ r.new.del \subseteq Names
              /\ t \notin r.new.end
<1>1. Content(req[t]) /\ Revoked(t, req[t], sessions) /\ Shaped(req[t])
  BY Works
<1>2. Head(req[t].todo) \in Ops /\ Head(req[t].todo) \in ToSet(req[t].todo)
  BY <1>1, RestTail DEF Content
<1> QED BY <1>1, <1>2 DEF Content, Revoked, Op

LEMMA PopulateStep == ASSUME IInv, NEW t \in Threads, Populate(t) PROVE IInv'
<1> DEFINE r == req[t]
           n == Next1(r)
           o == Op(t)
<1>1. r.pc = "run" /\ r.todo # <<>> /\ o.op \notin {"set_password", "save"} /\ Passes(t)
  BY DEF Populate
<1>2. /\ Content(r) /\ Revoked(t, r, sessions) /\ Shaped(r) /\ o = Head(r.todo)
      /\ o \in Ops /\ o \in ToSet(r.form)
      /\ Wished(r.form, r.new.set, r.new.add, r.new.write) /\ r.new.del \subseteq Names
      /\ t \notin r.new.end
  BY <1>1, AtOp
<1>3. Kept(n, r) /\ n.todo = Tail(r.todo) /\ n.new = r.new
  BY <1>2, NextFields
<1>4. Shaped(n) /\ n.form = r.form
  BY <1>3 DEF Kept
<1> DEFINE q == CASE o.op = "set"    -> [n EXCEPT !.new.set = Over(o.values, @)]
                  [] o.op = "add"    -> [n EXCEPT !.new.add = {o.name},
                                                  !.new.write = IF o.write THEN {o.name} ELSE {}]
                  [] o.op = "delete" -> [n EXCEPT !.new.del = {o.name}]
                  [] o.op = "access" -> [n EXCEPT !.new.access = {o.name}]
                  [] o.op = "end"    -> [n EXCEPT !.new.end = {o.session}]
                  [] o.op = "scope"  -> [n EXCEPT !.seen = [a \in Looks(n.form) |-> row[a]]]
                  [] OTHER           -> n
<1>5. req' = [req EXCEPT ![t] = q]
  BY DEF Populate
<1>6. /\ Kept(q, n) /\ q.todo = n.todo
      /\ Wished(r.form, q.new.set, q.new.add, q.new.write) /\ q.new.del \subseteq Names
      /\ t \notin q.new.end
      /\ Kindred(q.new.set, q.new.add) \subseteq Kindred(r.new.set, r.new.add) \cup About(o)
  <2>1. CASE o.op = "set"
    <3> DEFINE old == r.new.set
               v == Over(o.values, old)
    <3>1. q = SetNew(n, v)
      BY <1>3, <2>1 DEF SetNew
    <3> HIDE DEF q, n, v, r
    <3>2. /\ Kept(q, n) /\ q.todo = n.todo /\ q.new.set = v /\ q.new.add = n.new.add
          /\ q.new.write = n.new.write /\ q.new.del = n.new.del /\ q.new.end = n.new.end
      BY <1>4, <3>1, SetFields
    <3>3. /\ DOMAIN v = DOMAIN o.values \cup DOMAIN old
          /\ \A a \in DOMAIN o.values : v[a] = o.values[a]
          /\ \A a \in DOMAIN old \ DOMAIN o.values : v[a] = old[a]
      <4>1. PICK f : f = o.values
        OBVIOUS
      <4>2. v = Over(f, old)
        BY <4>1 DEF v
      <4> HIDE DEF old
      <4>3. /\ DOMAIN Over(f, old) = DOMAIN f \cup DOMAIN old
            /\ \A a \in DOMAIN f : Over(f, old)[a] = f[a]
            /\ \A a \in DOMAIN old \ DOMAIN f : Over(f, old)[a] = old[a]
        BY Merge
      <4> QED BY <4>1, <4>2, <4>3
    <3>4. Wished(r.form, v, r.new.add, r.new.write)
      <4>1. ASSUME NEW a \in DOMAIN v
            PROVE  \E p \in ToSet(r.form) : \/ p.op = "set" /\ a \in DOMAIN p.values /\ p.values[a] = v[a]
                                            \/ p = SetPw(v[a]) /\ a = "password"
        <5>1. CASE a \in DOMAIN o.values
          BY <1>2, <2>1, <3>3, <5>1
        <5>2. CASE a \in DOMAIN old \ DOMAIN o.values
          BY <1>2, <3>3, <5>2 DEF Wished
        <5> QED BY <3>3, <4>1, <5>1, <5>2
      <4> QED BY <1>2, <4>1 DEF Wished
    <3>5. Kindred(v, r.new.add) \subseteq Kindred(r.new.set, r.new.add) \cup About(o)
      BY <2>1, <3>3 DEF Kindred, About
    <3> QED BY <1>2, <1>3, <3>2, <3>4, <3>5
  <2>2. CASE o.op = "add"
    <3> DEFINE w == IF o.write THEN {o.name} ELSE {}
    <3>1. q = AddNew(n, {o.name}, w)
      BY <2>2 DEF AddNew
    <3>2. o = Add(o.name, o.write) /\ o.write \in BOOLEAN
      BY <1>2, <2>2, OpFields
    <3> HIDE DEF q, n, w, r
    <3>3. /\ Kept(q, n) /\ q.todo = n.todo /\ q.new.set = n.new.set /\ q.new.add = {o.name}
          /\ q.new.write = w /\ q.new.del = n.new.del /\ q.new.end = n.new.end
      BY <1>4, <3>1, AddFields
    <3>4. Wished(r.form, r.new.set, {o.name}, w)
      <4>1. \A x \in {o.name} : \E y \in BOOLEAN : Add(x, y) \in ToSet(r.form)
        BY <1>2, <3>2
      <4>2. (\A x \in w : Add(x, TRUE) \in ToSet(r.form)) /\ w \subseteq {o.name}
        <5>1. CASE o.write
          <6>1. o.write = TRUE
            BY <3>2, <5>1
          <6>2. w = {o.name} /\ o = Add(o.name, TRUE)
            BY <3>2, <5>1, <6>1 DEF w
          <6> QED BY <1>2, <6>2
        <5>2. CASE ~o.write
          BY <5>2 DEF w
        <5> QED BY <5>1, <5>2
      <4> QED BY <1>2, <4>1, <4>2 DEF Wished
    <3>5. Kindred(r.new.set, {o.name}) \subseteq Kindred(r.new.set, r.new.add) \cup About(o)
      BY <2>2 DEF Kindred, About
    <3> QED BY <1>2, <1>3, <3>3, <3>4, <3>5
  <2>3. CASE o.op \notin {"set", "add"}
    <3>1. \/ o.op = "delete" /\ q = DelNew(n, {o.name})
          \/ q = AccessNew(n, {o.name})
          \/ o.op = "end" /\ q = EndNew(n, {o.session})
          \/ q = SeenNew(n, [a \in Looks(n.form) |-> row[a]])
          \/ q = n
      BY <2>3 DEF DelNew, AccessNew, EndNew, SeenNew
    <3>2. o.op = "delete" => o.name \in Names
      BY <1>2, OpFields
    <3>3. o.op = "end" => o.session # t
      BY <1>1 DEF Passes
    <3> DEFINE now == [a \in Looks(n.form) |-> row[a]]
    <3> HIDE DEF q, n, r, now
    <3>4. /\ Kept(q, n) /\ q.todo = n.todo
          /\ q.new.set = n.new.set /\ q.new.add = n.new.add /\ q.new.write = n.new.write
          /\ q.new.del \subseteq n.new.del \cup (IF o.op = "delete" THEN {o.name} ELSE {})
          /\ q.new.end \subseteq n.new.end \cup (IF o.op = "end" THEN {o.session} ELSE {})
      <4>1. CASE o.op = "delete" /\ q = DelNew(n, {o.name})
        BY <1>4, <4>1, DelFields
      <4>2. CASE q = AccessNew(n, {o.name})
        BY <1>4, <4>2, AccessFields
      <4>3. CASE o.op = "end" /\ q = EndNew(n, {o.session})
        BY <1>4, <4>3, EndFields
      <4>4. CASE q = SeenNew(n, now)
        BY <1>4, <4>4, SeenFields
      <4>5. CASE q = n
        BY <1>4, <4>5 DEF Kept
      <4> QED BY <3>1, <4>1, <4>2, <4>3, <4>4, <4>5 DEF now
    <3> QED BY <1>2, <1>3, <3>2, <3>3, <3>4
  <2> QED BY <2>1, <2>2, <2>3
<1> HIDE DEF q
<1>7. ThreadOK(t, q, sessions)
  <2>1. /\ Shaped(q) /\ q.pc = "run" /\ q.form = r.form /\ q.todo = Tail(r.todo) /\ q.tx = r.tx
        /\ q.tasks = r.tasks /\ q.old = r.old
    BY <1>1, <1>3, <1>6 DEF Kept
  <2> HIDE DEF n, r
  <2> QED BY <1>1, <1>2, <1>6, <2>1, Taking
<1>8. q.pc = "run"
  BY <1>1, <1>3, <1>6 DEF Kept
<1>9. /\ UNCHANGED <<row, objects, scoped, expired, sessions, logged, owed>>
      /\ writer' \in Threads \cup {Nobody}
  BY Works DEF Populate
<1> QED BY <1>1, <1>5, <1>7, <1>8, <1>9, Step
LEMMA RefusedStep == ASSUME IInv, NEW t \in Threads, Refused(t) PROVE IInv'
BY FailsStep DEF Refused

\* A flush comes to the same before and after the form's operation is ticked off.
LEMMA FlushedLike ==
    ASSUME NEW r, Shaped(r), NEW q, Kept(q, r), q.new = r.new, q.seen = r.seen
    PROVE  /\ Flushed(q).tx = Flushed(r).tx /\ Flushed(q).tasks = Flushed(r).tasks
           /\ Flushed(q).new = Flushed(r).new
<1>1. Changed(q) = Changed(r)
  BY DEF Changed
<1>2. Tasks(q) = Tasks(r) /\ Written(q) = Written(r)
  BY <1>1 DEF Tasks, Written, Messages, Kept
<1>3. /\ Flushed(q).tx = Written(q) /\ Flushed(q).tasks = q.tasks \o Tasks(q) /\ Flushed(q).new = Clean
  BY DEF Kept, Shaped, Flushed
<1>4. /\ Flushed(r).tx = Written(r) /\ Flushed(r).tasks = r.tasks \o Tasks(r) /\ Flushed(r).new = Clean
  BY DEF Shaped, Flushed
<1> QED BY <1>2, <1>3, <1>4 DEF Kept

LEMMA SetPasswordStep == ASSUME IInv, NEW t \in Threads, SetPassword(t) PROVE IInv'
<1> DEFINE i == req[t]
           o == Op(t)
           v == Over([password |-> o.value], i.new.set)
           r == SetNew(i, v)
           n == Next1(r)
           f == Flushed(r)
           g == Next1(f)
           h == Flushed(n)
           q == RevokeTx(g, Others(t))
<1>1. i.pc = "run" /\ i.todo # <<>> /\ o.op = "set_password"
  BY DEF SetPassword, Running
<1>2. /\ Content(i) /\ Revoked(t, i, sessions) /\ Shaped(i) /\ o = Head(i.todo)
      /\ o \in Ops /\ o \in ToSet(i.form)
      /\ Wished(i.form, i.new.set, i.new.add, i.new.write) /\ i.new.del \subseteq Names
  BY <1>1, AtOp
<1>3. o = SetPw(o.value)
  BY <1>1, <1>2, OpFields
<1>4. CASE req' = [req EXCEPT ![t] = q] /\ UNCHANGED <<row, objects, scoped, expired, sessions, logged, owed>>
           /\ writer' = t
  <2> HIDE DEF i, o, v, r, n, f, g, h, q
  <2>1. /\ Kept(r, i) /\ r.todo = i.todo /\ r.seen = i.seen /\ r.new.set = v /\ r.new.add = i.new.add
        /\ r.new.write = i.new.write /\ r.new.del = i.new.del /\ r.new.end = i.new.end
    BY <1>2, SetFields DEF r
  <2>2. Shaped(r)
    BY <2>1 DEF Kept
  <2>3. Kept(n, r) /\ n.todo = Tail(r.todo) /\ n.new = r.new /\ n.seen = r.seen
    BY <2>2, NextFields DEF n
  <2>4. DOMAIN v = {"password"} \cup DOMAIN i.new.set /\ v["password"] = o.value
        /\ \A a \in DOMAIN i.new.set \ {"password"} : v[a] = i.new.set[a]
    <3> DEFINE pw == [password |-> o.value]
               old == i.new.set
    <3>1. v = Over(pw, old)
      BY DEF v
    <3>2. DOMAIN pw = {"password"} /\ pw["password"] = o.value
      OBVIOUS
    <3> HIDE DEF pw, old
    <3>3. /\ DOMAIN Over(pw, old) = DOMAIN pw \cup DOMAIN old
          /\ \A a \in DOMAIN pw : Over(pw, old)[a] = pw[a]
          /\ \A a \in DOMAIN old \ DOMAIN pw : Over(pw, old)[a] = old[a]
      BY Merge
    <3>4. /\ DOMAIN v = {"password"} \cup DOMAIN old /\ v["password"] = o.value
          /\ \A a \in DOMAIN old \ {"password"} : v[a] = old[a]
      BY <3>1, <3>2, <3>3
    <3> QED BY <3>4 DEF old
  <2>5. Wished(i.form, v, i.new.add, i.new.write)
    <3>1. ASSUME NEW a \in DOMAIN v
          PROVE  \E p \in ToSet(i.form) : \/ p.op = "set" /\ a \in DOMAIN p.values /\ p.values[a] = v[a]
                                          \/ p = SetPw(v[a]) /\ a = "password"
      <4>1. CASE a = "password"
        BY <1>2, <1>3, <2>4, <4>1
      <4>2. CASE a \in DOMAIN i.new.set \ {"password"}
        BY <1>2, <2>4, <4>2 DEF Wished
      <4> QED BY <2>4, <3>1, <4>1, <4>2
    <3> QED BY <1>2, <3>1 DEF Wished
  <2>6. Kindred(v, i.new.add) \subseteq Kindred(i.new.set, i.new.add) \cup About(o)
    BY <1>1, <2>4 DEF Kindred, About
  <2>7. /\ Shaped(n) /\ n.pc = "run" /\ n.form = i.form /\ n.todo = Tail(i.todo) /\ n.tx = i.tx
        /\ n.tasks = i.tasks /\ n.old = i.old
    BY <1>1, <2>1, <2>3 DEF Kept
  <2>8. Content(n)
    <3>1. /\ Wished(i.form, n.new.set, n.new.add, n.new.write) /\ n.new.del \subseteq Names
          /\ Kindred(n.new.set, n.new.add) \subseteq Kindred(i.new.set, i.new.add) \cup About(o)
      BY <1>2, <2>1, <2>3, <2>5, <2>6
    <3> QED BY <1>1, <1>2, <2>7, <3>1, Taken
  <2>9. Content(h) /\ Shaped(h) /\ h.pc = "run" /\ h.form = i.form /\ h.todo = Tail(i.todo) /\ h.old = i.old
    BY <2>7, <2>8, FlushContent, FlushFields DEF h
  <2>10. /\ Shaped(f) /\ f.pc = "run" /\ f.form = i.form /\ f.todo = i.todo /\ f.old = i.old /\ f.new = Clean
    <3>1. r.pc = "run" /\ r.form = i.form /\ r.old = i.old
      BY <1>1, <2>1 DEF Kept
    <3> QED BY <2>1, <2>2, <3>1, FlushFields DEF f
  <2>11. h.tx = f.tx /\ h.tasks = f.tasks /\ h.new = f.new
    BY <2>2, <2>3, FlushedLike DEF f, h
  <2>12. Kept(g, f) /\ g.todo = Tail(f.todo) /\ g.new = f.new
    BY <2>10, NextFields DEF g
  <2>13. Shaped(g) /\ g.pc = "run" /\ g.form = i.form /\ g.old = i.old /\ g.tx = h.tx /\ g.tasks = h.tasks
         /\ g.todo = h.todo /\ g.new = h.new
    BY <2>9, <2>10, <2>11, <2>12 DEF Kept
  <2>14. /\ Shaped(q) /\ q.pc = g.pc /\ q.form = g.form /\ q.old = g.old /\ q.tasks = g.tasks
         /\ q.todo = g.todo /\ q.new = g.new
         /\ q.tx.set = g.tx.set /\ q.tx.log = g.tx.log /\ q.tx.add = g.tx.add
         /\ q.tx.write = g.tx.write /\ q.tx.del = g.tx.del /\ q.tx.revoke = Others(t)
    BY <2>13, RevokeFields DEF q
  <2>15. Content(q)
    BY <2>9, <2>13, <2>14, Like
  <2>16. Revoked(t, q, sessions)
    <3>1. t \notin q.new.end
      BY <2>10, <2>12, <2>14, Nothing
    <3>2. Others(t) = (IF FromApi(i.form) THEN sessions ELSE sessions \ {t})
      BY DEF Others, i
    <3> QED BY <2>13, <2>14, <3>1, <3>2 DEF Revoked
  <2>17. ThreadOK(t, q, sessions) /\ q.pc # "publish" /\ writer' \in Threads \cup {Nobody}
    BY <1>4, <2>13, <2>14, <2>15, <2>16 DEF ThreadOK
  <2>18. req[t].pc # "publish"
    BY <1>1 DEF i
  <2> QED BY <1>4, <2>17, <2>18, Step
<1>5. \/ Fails(t)
      \/ /\ req' = [req EXCEPT ![t] = q] /\ UNCHANGED <<row, objects, scoped, expired, sessions, logged, owed>>
         /\ writer' = t
  <2>1. r = [req[t] EXCEPT !.new.set = Over([password |-> Op(t).value], @)]
    BY DEF SetNew
  <2>2. q = [Next1(Flushed(r)) EXCEPT !.tx.revoke = Others(t)]
    BY DEF RevokeTx
  <2> HIDE DEF r, q
  <2> QED BY <2>1, <2>2 DEF SetPassword
<1> QED BY <1>1, <1>4, <1>5, FailsStep

LEMMA FlushStep == ASSUME IInv, NEW t \in Threads, Flush(t) PROVE IInv'
<1> DEFINE r == req[t]
           q == Flushed(r)
<1>1. r.pc = "run"
  BY DEF Flush, AtCommit, Running
<1>2. Content(r) /\ Revoked(t, r, sessions) /\ Shaped(r) /\ t \in Threads \cup {Nobody}
  BY <1>1, Works
<1>3. CASE req' = [req EXCEPT ![t] = q] /\ UNCHANGED <<row, objects, scoped, expired, sessions, logged, owed>>
           /\ writer' = t
  <2> HIDE DEF q
  <2>1. Content(q)
    BY <1>2, FlushContent DEF q
  <2>2. /\ q.pc = r.pc /\ q.form = r.form /\ q.todo = r.todo /\ q.old = r.old /\ q.new = Clean
        /\ q.tx.revoke = r.tx.revoke \cup r.new.end
    BY <1>2, FlushFields DEF q
  <2>3. Revoked(t, q, sessions)
    <3>1. t \notin q.new.end
      BY <2>2, Nothing
    <3> QED BY <1>2, <2>2, <3>1 DEF Revoked
  <2>4. ThreadOK(t, q, sessions) /\ q.pc # "publish"
    BY <1>1, <2>1, <2>2, <2>3 DEF ThreadOK
  <2> QED BY <1>1, <1>2, <1>3, <2>4, Step
<1>4. \/ Fails(t)
      \/ /\ req' = [req EXCEPT ![t] = q] /\ UNCHANGED <<row, objects, scoped, expired, sessions, logged, owed>>
         /\ writer' = t
  BY DEF Flush
<1> QED BY <1>1, <1>3, <1>4, FailsStep
\* What a transaction that is about to be saved may hold.
LEMMA AtSave ==
    ASSUME IInv, NEW t \in Threads, AtCommit(t)
    PROVE  LET r == req[t]
               tx == r.tx
           IN /\ r.pc = "run" /\ Content(r) /\ Revoked(t, r, sessions) /\ Shaped(r)
              /\ DOMAIN tx.set \subseteq Attributes /\ \A a \in DOMAIN tx.set : tx.set[a] \in Values(a)
              /\ tx.add \subseteq Names /\ tx.write \subseteq tx.add \cap Tokens
              /\ DOMAIN tx.log = DOMAIN tx.set \ {"password"}
              /\ \A a \in DOMAIN tx.log : tx.log[a] = tx.set[a]
              /\ Kindred(tx.set, tx.add) \subseteq Kinds /\ Lists(r.tasks, Kindred(tx.set, tx.add))
              /\ r.todo # <<>> => /\ DOMAIN tx.set = {} /\ tx.add = {} /\ tx.write = {}
                                  /\ Kindred(tx.set, tx.add) = {} /\ Head(r.todo).op = "save"
                                  /\ Revokes(r.form) => Revokes(Tail(r.todo))
<1> DEFINE r == req[t]
<1>1. r.pc = "run" /\ (r.todo # <<>> => Head(r.todo).op = "save")
  BY DEF AtCommit, Running, Op
<1>2. Content(r) /\ Revoked(t, r, sessions) /\ Shaped(r)
  BY <1>1, Works
<1> HIDE DEF r
<1>3. /\ DOMAIN r.tx.set \subseteq Attributes /\ \A a \in DOMAIN r.tx.set : r.tx.set[a] \in Values(a)
      /\ r.tx.add \subseteq Names /\ r.tx.write \subseteq r.tx.add \cap Tokens
      /\ Kindred(r.tx.set, r.tx.add) \subseteq Kinds
  BY <1>2, WishedTypes DEF Content
<1>4. ASSUME r.todo # <<>>
      PROVE  /\ DOMAIN r.tx.set = {} /\ r.tx.add = {} /\ r.tx.write = {} /\ Kindred(r.tx.set, r.tx.add) = {}
             /\ Revokes(r.form) => Revokes(Tail(r.todo))
  <2>1. ToSet(r.todo) = {Head(r.todo)} \cup ToSet(Tail(r.todo))
    BY <1>2, <1>4, RestTail DEF Content
  <2>2. Saves(r.todo) /\ (Revokes(r.todo) => Revokes(Tail(r.todo)))
    BY <1>1, <1>4, <2>1 DEF Saves, Revokes
  <2>3. Kindred(r.tx.set, r.tx.add) = {} /\ (Revokes(r.form) => Revokes(r.todo))
    BY <1>2, <2>2 DEF Content
  <2> QED BY <1>3, <2>2, <2>3 DEF Kindred
<1>5. /\ DOMAIN r.tx.log = DOMAIN r.tx.set \ {"password"}
      /\ \A a \in DOMAIN r.tx.log : r.tx.log[a] = r.tx.set[a]
      /\ Lists(r.tasks, Kindred(r.tx.set, r.tx.add))
  BY <1>2 DEF Content
<1> QED BY <1>1, <1>2, <1>3, <1>4, <1>5 DEF r

LEMMA CommitStep == ASSUME IInv, NEW t \in Threads, Commit(t) PROVE IInv'
<1> DEFINE r == req[t]
           tx == r.tx
           K == Kindred(tx.set, tx.add)
           n == Next1(r)
           q == IF r.todo = <<>> THEN Published(r.tasks) ELSE [n EXCEPT !.tx = NoTx]
<1>1. AtCommit(t)
  BY DEF Commit
<1>2. /\ r.pc = "run" /\ Content(r) /\ Revoked(t, r, sessions) /\ Shaped(r)
      /\ DOMAIN tx.set \subseteq Attributes /\ \A a \in DOMAIN tx.set : tx.set[a] \in Values(a)
      /\ tx.add \subseteq Names /\ tx.write \subseteq tx.add \cap Tokens
      /\ DOMAIN tx.log = DOMAIN tx.set \ {"password"}
      /\ \A a \in DOMAIN tx.log : tx.log[a] = tx.set[a]
      /\ K \subseteq Kinds /\ Lists(r.tasks, K)
      /\ r.todo # <<>> => /\ K = {} /\ Head(r.todo).op = "save"
                          /\ Revokes(r.form) => Revokes(Tail(r.todo))
  BY <1>1, AtSave
<1>3. /\ row' = [a \in Attributes |-> IF a \in DOMAIN tx.set THEN tx.set[a] ELSE row[a]]
      /\ objects' = (objects \cup tx.add) \ tx.del
      /\ scoped' = (scoped \cup tx.write) \ tx.del
      /\ expired' = expired \ (tx.add \cup tx.del)
      /\ sessions' = sessions \ tx.revoke
      /\ logged' = [k \in Logged |->
                       IF k \in DOMAIN tx.log THEN tx.log[k]
                       ELSE IF k \in tx.add \cup tx.del THEN k \in tx.add ELSE logged[k]]
      /\ owed' = [k \in Kinds |-> IF k \in K THEN owed[k] + 1 ELSE owed[k]]
      /\ writer' = IF writer = t THEN Nobody ELSE writer
  BY DEF Commit, StillExpired, Kindred
<1>4. req' = [req EXCEPT ![t] = q]
  BY DEF Commit
<1>5. Account /\ Working /\ Owed
  BY DEF IInv
<1>6. Account'
  <2> HIDE DEF r, K
  <2>1. /\ DOMAIN row' = Attributes /\ \A a \in Attributes : row'[a] \in Values(a)
    BY <1>2, <1>3, <1>5 DEF Account
  <2>2. /\ objects' \subseteq Names /\ expired' \cup scoped' \subseteq objects' \cap Tokens
        /\ sessions' \subseteq Threads /\ writer' \in Threads \cup {Nobody}
    BY <1>2, <1>3, <1>5 DEF Account
  <2>3. ASSUME NEW a \in {"email", "mfa"} PROVE logged'[a] = row'[a]
    <3>1. a \in Attributes /\ a \in Logged /\ a \notin Names /\ a # "password"
      BY <2>3, NamesAssumption DEF NamesAssumption, Attributes, Logged
    <3>2. a \notin tx.add /\ a \in DOMAIN tx.log <=> a \in DOMAIN tx.set
      BY <1>2, <3>1
    <3>3. a \notin tx.add \cup tx.del
      <4>1. tx.del \subseteq Names
        BY <1>2 DEF Content
      <4> QED BY <1>2, <3>1, <4>1
    <3>4. logged[a] = row[a]
      BY <1>5, <2>3 DEF Account, AuditMatchesAccount
    <3> QED BY <1>2, <1>3, <3>1, <3>2, <3>3, <3>4
  <2>4. ASSUME NEW x \in objects' PROVE logged'[x]
    <3>1. x \in Names /\ x \in Logged /\ x \notin DOMAIN tx.log
      BY <1>2, <1>3, <1>5, NamesAssumption DEF NamesAssumption, Logged, Account
    <3>2. logged'[x] = IF x \in tx.add \cup tx.del THEN x \in tx.add ELSE logged[x]
      BY <1>3, <3>1
    <3>3. CASE x \in tx.add \cup tx.del
      BY <1>3, <2>4, <3>2, <3>3
    <3>4. CASE x \notin tx.add \cup tx.del
      <4>1. x \in objects
        BY <1>3, <2>4, <3>4
      <4> QED BY <1>5, <3>2, <3>4, <4>1 DEF Account, AuditMatchesAccount
    <3> QED BY <3>3, <3>4
  <2> QED BY <2>1, <2>2, <2>3, <2>4 DEF Account, AuditMatchesAccount
<1>7. ThreadOK(t, q, sessions') /\ \A k \in Kinds : Sends(q, k) <=> k \in K
  <2>1. CASE r.todo = <<>>
    <3>1. q = Published(r.tasks)
      BY <2>1
    <3> HIDE DEF q, r, K
    <3> QED BY <1>2, <3>1, PublishedOK DEF Sends
  <2>2. CASE r.todo # <<>>
    <3>1. q = [n EXCEPT !.tx = NoTx]
      BY <2>2
    <3> HIDE DEF q, n, r, K
    <3>2. Kept(n, r) /\ n.todo = Tail(r.todo) /\ n.new = r.new
      BY <1>2, NextFields DEF n
    <3>3. Shaped(n)
      BY <3>2 DEF Kept
    <3>4. /\ Shaped(q) /\ q.pc = n.pc /\ q.form = n.form /\ q.old = n.old /\ q.tasks = n.tasks
          /\ q.todo = n.todo /\ q.new = n.new /\ q.tx = NoTx
      BY <3>1, <3>3, NoTxFields
    <3>5. /\ q.pc = "run" /\ q.form = r.form /\ q.old = r.old /\ q.tasks = r.tasks
          /\ q.todo = Tail(r.todo) /\ q.new = r.new
      BY <1>2, <3>2, <3>4 DEF Kept
    <3>6. /\ Rest(q.todo) /\ ToSet(r.todo) = {Head(r.todo)} \cup ToSet(q.todo) /\ Saves(r.todo)
      <4>1. /\ Rest(Tail(r.todo)) /\ ToSet(r.todo) = {Head(r.todo)} \cup ToSet(Tail(r.todo))
        BY <1>2, <2>2, RestTail DEF Content
      <4> QED BY <1>2, <2>2, <3>5, <4>1 DEF Saves
    <3>7. Kindred(q.tx.set, q.tx.add) = {} /\ Kindred(q.new.set, q.new.add) = {}
      BY <1>2, <3>4, <3>5, <3>6, Nothing DEF Content
    <3>8. Wished(q.form, q.tx.set, q.tx.add, q.tx.write) /\ DOMAIN q.tx.set = {} /\ DOMAIN q.tx.log = {}
          /\ q.tx.del = {}
      BY <3>4, Nothing
    <3>9. Lists(q.tasks, {})
      BY <1>2, <2>2, <3>5
    <3>10. Revokes(q.form) => Revokes(q.todo)
      BY <1>2, <2>2, <3>5
    <3>11. ToSet(q.todo) \subseteq ToSet(q.form)
      BY <1>2, <3>5, <3>6 DEF Content
    <3>12. q.form \in Seq(Ops) /\ Wished(q.form, q.new.set, q.new.add, q.new.write) /\ q.new.del \subseteq Names
      BY <1>2, <3>5 DEF Content
    <3>13. Content(q)
      BY <3>4, <3>5, <3>6, <3>7, <3>8, <3>9, <3>10, <3>11, <3>12 DEF Content
    <3>14. Revoked(t, q, sessions')
      BY <1>2, <3>4, <3>5, <3>10, Nothing DEF Revoked
    <3> QED BY <1>2, <2>2, <3>5, <3>13, <3>14 DEF ThreadOK, Sends
  <2> QED BY <2>1, <2>2
<1>8. Working'
  <2>1. sessions' \subseteq sessions
    BY <1>3
  <2> HIDE DEF q
  <2> QED BY <1>4, <1>5, <1>7, <2>1, OneThread
<1>9. Owed'
  <2> HIDE DEF q, K
  <2>1. ASSUME NEW k \in Kinds PROVE owed'[k] = owed[k] + One(Sends(q, k)) - One(Sends(req[t], k))
    <3>1. owed[k] \in Nat
      BY <1>4, <1>5, Sending DEF Owed
    <3>2. ~Sends(req[t], k)
      BY <1>2 DEF Sends
    <3>3. owed'[k] = IF k \in K THEN owed[k] + 1 ELSE owed[k]
      BY <1>3
    <3> QED BY <1>7, <3>1, <3>2, <3>3 DEF One
  <2>2. DOMAIN owed' = Kinds
    BY <1>3
  <2> QED BY <1>4, <1>5, <2>1, <2>2, OwedStep
<1> QED BY <1>6, <1>8, <1>9 DEF IInv
LEMMA PublishStep == ASSUME IInv, NEW t \in Threads, Publish(t) PROVE IInv'
<1> DEFINE s == req[t].tasks
           q == Published(Tail(s))
           S == ToSet(s)
<1>1. req[t].pc = "publish" /\ s # <<>> /\ Lists(s, S)
  BY Works DEF Publish
<1>2. /\ req' = [req EXCEPT ![t] = q] /\ owed' = [owed EXCEPT ![Head(s)] = @ - 1]
      /\ UNCHANGED <<row, objects, scoped, expired, sessions, logged, writer>>
  BY DEF Publish
<1>3. Account /\ Working /\ Owed /\ DOMAIN owed = Kinds /\ writer \in Threads \cup {Nobody}
  BY DEF IInv, Owed, Account
<1>4. \A k : Sends(req[t], k) <=> k \in S
  BY <1>1 DEF Sends
<1> HIDE DEF s, q, S
<1>5. Head(s) \in Kinds /\ Head(s) \in S /\ Lists(Tail(s), S \ {Head(s)})
  BY <1>1, ListsTail
<1>6. ThreadOK(t, q, sessions) /\ \A k : Sends(q, k) <=> k \in S \ {Head(s)}
  BY <1>5, PublishedOK DEF q, Sends
<1>7. Owed'
  <2>1. ASSUME NEW k \in Kinds PROVE owed'[k] = owed[k] + One(Sends(q, k)) - One(Sends(req[t], k))
    <3>1. owed[k] \in Nat
      BY <1>2, <1>3, Sending DEF Owed
    <3>2. owed'[k] = IF k = Head(s) THEN owed[k] - 1 ELSE owed[k]
      BY <1>2, <1>3, <1>5
    <3>3. CASE k = Head(s)
      BY <1>4, <1>5, <1>6, <3>1, <3>2, <3>3 DEF One
    <3>4. CASE k # Head(s)
      <4>1. Sends(q, k) <=> Sends(req[t], k)
        BY <1>4, <1>6, <3>4
      <4> QED BY <3>1, <3>2, <3>4, <4>1 DEF One
    <3> QED BY <3>3, <3>4
  <2>2. DOMAIN owed' = Kinds
    BY <1>2, <1>3
  <2> QED BY <1>2, <1>3, <2>1, <2>2, OwedStep
<1>8. Account'
  BY <1>2, <1>3, AccountStays
<1>9. Working'
  BY <1>2, <1>3, <1>6, OneThread
<1> QED BY <1>7, <1>8, <1>9 DEF IInv

\* A list that names nothing twice has one place for each of its elements.
LEMMA Once ==
    ASSUME NEW s, NEW S, Lists(s, S), NEW k
    PROVE  Cardinality({i \in DOMAIN s : s[i] = k}) = One(k \in S)
<1>1. CASE k \in S
  <2>1. PICK i \in DOMAIN s : s[i] = k
    BY <1>1 DEF Lists, ToSet
  <2>2. {j \in DOMAIN s : s[j] = k} = {i}
    BY <2>1 DEF Lists
  <2> QED BY <1>1, <2>2, FS_Singleton DEF One
<1>2. CASE k \notin S
  <2>1. {j \in DOMAIN s : s[j] = k} = {}
    BY <1>2 DEF Lists, ToSet
  <2> QED BY <1>2, <2>1, FS_EmptySet DEF One
<1> QED BY <1>1, <1>2

LEMMA PublishRaisesStep == ASSUME IInv, NEW t \in Threads, PublishRaises(t) PROVE IInv'
<1> DEFINE s == req[t].tasks
           S == ToSet(s)
<1>1. req[t].pc = "publish" /\ Lists(s, S)
  BY Works DEF PublishRaises
<1>2. /\ req' = [req EXCEPT ![t] = Idle]
      /\ owed' = [k \in Kinds |-> owed[k] - Cardinality({i \in DOMAIN s : s[i] = k})]
      /\ UNCHANGED <<row, objects, scoped, expired, sessions, logged, writer>>
  BY DEF PublishRaises
<1>3. Account /\ Working /\ Owed /\ writer \in Threads \cup {Nobody}
  BY DEF IInv, Account
<1>4. \A k : Sends(req[t], k) <=> k \in S
  BY <1>1 DEF Sends
<1>5. ThreadOK(t, Idle, sessions) /\ \A k : ~Sends(Idle, k)
  BY IdleFields DEF ThreadOK, Sends
<1> HIDE DEF s, S
<1>6. Owed'
  <2>1. ASSUME NEW k \in Kinds PROVE owed'[k] = owed[k] + One(Sends(Idle, k)) - One(Sends(req[t], k))
    <3>1. owed[k] \in Nat
      BY <1>2, <1>3, Sending DEF Owed
    <3>2. owed'[k] = owed[k] - One(k \in S)
      BY <1>1, <1>2, Once
    <3>3. CASE k \in S
      BY <1>4, <1>5, <3>1, <3>2, <3>3 DEF One
    <3>4. CASE k \notin S
      BY <1>4, <1>5, <3>1, <3>2, <3>4 DEF One
    <3> QED BY <3>3, <3>4
  <2>2. DOMAIN owed' = Kinds
    BY <1>2
  <2> QED BY <1>2, <1>3, <2>1, <2>2, OwedStep
<1>7. Account'
  BY <1>2, <1>3, AccountStays
<1>8. Working'
  BY <1>2, <1>3, <1>5, OneThread
<1> QED BY <1>6, <1>7, <1>8 DEF IInv

-----------------------------------------------------------------------------
(***************************************************************************)
(* Sessions that start and end, tokens that expire                         *)
(***************************************************************************)
SinceLogin(r, t) == [r EXCEPT !.old = @ \ {t}]

LEMMA SinceLoginFields ==
    ASSUME NEW r, Shaped(r), NEW t, NEW q, q = SinceLogin(r, t)
    PROVE  /\ Shaped(q) /\ q.pc = r.pc /\ q.form = r.form /\ q.old = r.old \ {t} /\ q.tasks = r.tasks
           /\ q.todo = r.todo /\ q.new = r.new /\ q.tx = r.tx
           /\ r.old = {} => q = r
<1>1. Fun(q) /\ DOMAIN q = DOMAIN r /\ Fun(q.new) /\ q.new = r.new /\ q.tx = r.tx /\ Fun(q.tx)
  BY DEF Shaped, Fun, SinceLogin
<1>2. /\ q.pc = r.pc /\ q.form = r.form /\ q.old = r.old \ {t} /\ q.tasks = r.tasks
      /\ q.todo = r.todo
  BY DEF Shaped, SinceLogin
<1>3. Shaped(q)
  BY <1>1, Reshaped
<1>4. ASSUME r.old = {} PROVE q = r
  <2>1. Fun(r) /\ q.seen = r.seen
    BY DEF Shaped, Fun, SinceLogin
  <2>2. q.old = r.old
    BY <1>2, <1>4
  <2>3. \A x \in DOMAIN r : q[x] = r[x]
    <3>1. DOMAIN r = {"pc", "form", "todo", "seen", "old", "new", "tx", "tasks"}
      BY DEF Shaped
    <3> QED BY <1>1, <1>2, <2>1, <2>2, <3>1
  <2> QED BY <1>1, <2>1, <2>3 DEF Fun
<1> QED BY <1>1, <1>2, <1>3, <1>4

LEMMA LoginStep == ASSUME IInv, NEW t \in Threads, Login(t) PROVE IInv'
<1>1. /\ sessions' = sessions \cup {t} /\ req' = [x \in Threads |-> SinceLogin(req[x], t)]
      /\ UNCHANGED <<row, objects, scoped, expired, logged, writer, owed>>
  BY DEF Login, SinceLogin
<1>2. Account'
  BY <1>1 DEF IInv, Account, AuditMatchesAccount
<1>3. ASSUME NEW x \in Threads
      PROVE  /\ ThreadOK(x, req'[x], sessions')
             /\ req'[x].pc = req[x].pc /\ req'[x].tasks = req[x].tasks
  <2> DEFINE r == req[x]
             q == req'[x]
  <2>1. ThreadOK(x, r, sessions) /\ Shaped(r) /\ q = SinceLogin(r, t)
    BY <1>1, Works
  <2> HIDE DEF r, q
  <2>2. /\ Shaped(q) /\ q.pc = r.pc /\ q.form = r.form /\ q.old = r.old \ {t} /\ q.tasks = r.tasks
        /\ q.todo = r.todo /\ q.new = r.new /\ q.tx = r.tx
        /\ r.old = {} => q = r
    BY <2>1, SinceLoginFields
  <2>3. CASE r.pc = "idle"
    <3>1. r = Idle /\ r.old = {}
      BY <2>1, <2>3, Phases, IdleFields
    <3> QED BY <2>2, <3>1 DEF ThreadOK, r, q
  <2>4. CASE r.pc = "publish"
    <3>1. r = Sender(r.tasks) /\ r.tasks # <<>> /\ Lists(r.tasks, ToSet(r.tasks))
      BY <2>1, <2>4, Phases
    <3>2. r.old = {} /\ q = r
      BY <2>2, <3>1, SenderFields
    <3> QED BY <2>2, <3>1, <3>2 DEF ThreadOK, Sender, r, q
  <2>5. CASE r.pc = "run"
    <3>1. Content(r) /\ Revoked(x, r, sessions)
      BY <2>1, <2>5, Phases
    <3>2. Content(q)
      BY <2>2, <3>1, Like
    <3>3. Revoked(x, q, sessions')
      BY <1>1, <2>2, <3>1 DEF Revoked
    <3> QED BY <2>2, <3>2, <3>3 DEF ThreadOK, r, q
  <2> QED BY <2>1, <2>3, <2>4, <2>5, Phases
<1>4. Working'
  BY <1>1, <1>3 DEF Working
<1>5. Owed'
  <2>1. ASSUME NEW k PROVE Senders(k)' = Senders(k)
    BY <1>3 DEF Senders
  <2> QED BY <1>1, <2>1 DEF IInv, Owed
<1> QED BY <1>2, <1>4, <1>5 DEF IInv

\* What the requests of the threads are about stays.
LEMMA Quiet ==
    ASSUME IInv, UNCHANGED <<req, owed>>, sessions' \subseteq sessions, Account'
    PROVE  IInv'
<1>1. Working'
  BY Weaken DEF IInv, Working
<1>2. Owed'
  BY DEF IInv, Owed, Senders
<1> QED BY <1>1, <1>2 DEF IInv

LEMMA OtherSteps ==
    ASSUME IInv,
           CleanUp \/ (\E n \in Names : Expire(n)) \/ (\E t \in Threads : Logout(t)) \/ UNCHANGED vars
    PROVE  IInv'
<1>1. CASE CleanUp
  BY <1>1, Quiet DEF CleanUp, IInv, Account, AuditMatchesAccount
<1>2. CASE \E n \in Names : Expire(n)
  BY <1>2, Quiet DEF Expire, IInv, Account, AuditMatchesAccount
<1>3. CASE \E t \in Threads : Logout(t)
  BY <1>3, Quiet DEF Logout, IInv, Account, AuditMatchesAccount
<1>4. CASE UNCHANGED vars
  BY <1>4, Quiet DEF vars, IInv, Account, AuditMatchesAccount
<1> QED BY <1>1, <1>2, <1>3, <1>4

LEMMA NextInv == IInv /\ [Next]_vars => IInv'
<1> SUFFICES ASSUME IInv, [Next]_vars PROVE IInv'
  OBVIOUS
<1>1. ASSUME NEW t \in Threads, NEW f \in Requests, Begin(t, f) PROVE IInv'
  BY <1>1, BeginStep
<1>2. ASSUME NEW t \in Threads, Refused(t) PROVE IInv'
  BY <1>2, RefusedStep
<1>3. ASSUME NEW t \in Threads, Populate(t) PROVE IInv'
  BY <1>3, PopulateStep
<1>4. ASSUME NEW t \in Threads, SetPassword(t) PROVE IInv'
  BY <1>4, SetPasswordStep
<1>5. ASSUME NEW t \in Threads, Flush(t) PROVE IInv'
  BY <1>5, FlushStep
<1>6. ASSUME NEW t \in Threads, Commit(t) PROVE IInv'
  BY <1>6, CommitStep
<1>7. ASSUME NEW t \in Threads, Publish(t) PROVE IInv'
  BY <1>7, PublishStep
<1>8. ASSUME NEW t \in Threads, PublishRaises(t) PROVE IInv'
  BY <1>8, PublishRaisesStep
<1>9. ASSUME NEW t \in Threads, Login(t) PROVE IInv'
  BY <1>9, LoginStep
<1> QED BY <1>1, <1>2, <1>3, <1>4, <1>5, <1>6, <1>7, <1>8, <1>9, OtherSteps DEF Next
-----------------------------------------------------------------------------
(***************************************************************************)
(* Theorems                                                                *)
(***************************************************************************)
\* The invariant holds in every state.
THEOREM Invariant == Spec => []IInv
<1>1. Init => IInv
  BY InitInv
<1>2. IInv /\ [Next]_vars => IInv'
  BY NextInv
<1> QED BY <1>1, <1>2, PTL DEF Spec

\* Whatever the requests, the variables keep the types of the columns, sessions
\* and tasks they stand for (AccountChanges.TypeOK).
THEOREM Types == Spec => []TypeOK
<1>1. IInv => TypeOK
  <2> SUFFICES ASSUME IInv PROVE TypeOK
    OBVIOUS
  <2>1. ASSUME NEW t \in Threads
        PROVE  /\ req[t].pc \in {"idle", "run", "publish"}
               /\ DOMAIN req[t].tx.set \subseteq Attributes
               /\ req[t].tx.add \cup req[t].tx.del \subseteq Names
               /\ \A i \in DOMAIN req[t].tasks : req[t].tasks[i] \in Kinds
    <3> DEFINE r == req[t]
    <3>1. ThreadOK(t, r, sessions)
      BY Works
    <3> HIDE DEF r
    <3>2. CASE r.pc = "idle"
      <4>1. r = Idle
        BY <3>1, <3>2, Phases
      <4>2. r.tx.set = <<>> /\ r.tx.add = {} /\ r.tx.del = {} /\ r.tasks = <<>>
        BY <4>1, IdleFields, Nothing
      <4> QED BY <3>2, <4>2, Nothing DEF r
    <3>3. CASE r.pc = "publish"
      <4>1. r = Sender(r.tasks) /\ Lists(r.tasks, ToSet(r.tasks))
        BY <3>1, <3>3, Phases
      <4>2. r.tx = NoTx
        BY <4>1, SenderFields
      <4>3. \A i \in DOMAIN r.tasks : r.tasks[i] \in Kinds
        BY <4>1 DEF Lists
      <4> QED BY <3>3, <4>2, <4>3, Nothing DEF r
    <3>4. CASE r.pc = "run"
      <4>1. Content(r)
        BY <3>1, <3>4, Phases
      <4>2. DOMAIN r.tx.set \subseteq Attributes /\ r.tx.add \subseteq Names
        BY <4>1, WishedTypes DEF Content
      <4>3. r.tx.del \subseteq Names /\ \A i \in DOMAIN r.tasks : r.tasks[i] \in Kinds
        BY <4>1 DEF Content, Lists
      <4> QED BY <3>4, <4>2, <4>3 DEF r
    <3> QED BY <3>1, <3>2, <3>3, <3>4, Phases
  <2> QED BY <2>1 DEF TypeOK, IInv, Account
<1> QED BY <1>1, Invariant, PTL

\* The newest audit message about an attribute tells its value, and every token
\* and key was announced (AccountChanges.AuditMatchesAccount).
THEOREM Audit == Spec => []AuditMatchesAccount
<1>1. IInv => AuditMatchesAccount
  BY DEF IInv, Account
<1> QED BY <1>1, Invariant, PTL

\* What is owed is what the threads that are past their commit still have to send:
\* a mail never comes before its change is saved, nor twice, and none is missing
\* once the lists of tasks are worked off (AccountChanges.MailsAreTrue).
THEOREM Mails == Spec => []MailsAreTrue
<1>1. IInv => MailsAreTrue
  <2> SUFFICES ASSUME IInv PROVE MailsAreTrue
    OBVIOUS
  <2>1. ASSUME NEW k \in Kinds PROVE owed[k] >= 0
    <3>1. IsFiniteSet(Senders(k))
      BY ThreadsAssumption, FS_Subset DEF ThreadsAssumption, Senders
    <3>2. owed[k] = Cardinality(Senders(k)) /\ Cardinality(Senders(k)) \in Nat
      BY <3>1, FS_CardinalityType DEF IInv, Owed
    <3> QED BY <3>2
  <2>2. ASSUME \A t \in Threads : req[t].pc # "publish", NEW k \in Kinds PROVE owed[k] = 0
    <3>1. Senders(k) = {}
      BY <2>2 DEF Senders
    <3> QED BY <3>1, FS_EmptySet DEF IInv, Owed
  <2> QED BY <2>1, <2>2 DEF MailsAreTrue
<1> QED BY <1>1, Invariant, PTL

\* Only a commit changes attributes or brings tokens and keys.
LEMMA CommitsOnly ==
    ASSUME [Next]_vars, \A t \in Threads : ~Commit(t)
    PROVE  row' = row /\ objects' \subseteq objects
<1>1. ASSUME NEW t \in Threads, Fails(t) PROVE UNCHANGED <<row, objects>>
  BY <1>1 DEF Fails
<1>2. ASSUME NEW t \in Threads,
             (\E f \in Requests : Begin(t, f)) \/ Populate(t) \/ Publish(t) \/ PublishRaises(t)
               \/ Login(t) \/ Logout(t)
      PROVE  UNCHANGED <<row, objects>>
  BY <1>2 DEF Begin, Populate, Publish, PublishRaises, Login, Logout
<1>3. ASSUME NEW t \in Threads, Refused(t) PROVE UNCHANGED <<row, objects>>
  BY <1>1, <1>3 DEF Refused
<1>4. ASSUME NEW t \in Threads, SetPassword(t) PROVE UNCHANGED <<row, objects>>
  BY <1>1, <1>4 DEF SetPassword
<1>5. ASSUME NEW t \in Threads, Flush(t) PROVE UNCHANGED <<row, objects>>
  BY <1>1, <1>5 DEF Flush
<1>6. ASSUME (\E n \in Names : Expire(n)) \/ CleanUp \/ UNCHANGED vars
      PROVE  row' = row /\ objects' \subseteq objects
  BY <1>6 DEF Expire, CleanUp, vars
<1> QED BY <1>2, <1>3, <1>4, <1>5, <1>6 DEF Next

\* What a commit changes was asked for by the form of its thread, whose checks
\* have all passed (AccountChanges.OnlyWhatWasAsked).
THEOREM AskedFor == Spec => OnlyWhatWasAsked
<1> DEFINE Asking ==
             /\ \A a \in Attributes : row'[a] # row[a] =>
                   \E t \in Threads : Commits(t) /\ req[t].todo = <<>> /\ AskedToSet(t, a)
             /\ \A n \in objects' \ objects :
                   \E t \in Threads : Commits(t) /\ req[t].todo = <<>> /\ AskedToAdd(t, n)
<1>1. ASSUME IInv, [Next]_vars PROVE Asking
  <2>1. CASE \A t \in Threads : ~Commit(t)
    BY <1>1, <2>1, CommitsOnly
  <2>2. CASE \E t \in Threads : Commit(t)
    <3>1. PICK t \in Threads : Commit(t)
      BY <2>2
    <3> DEFINE r == req[t]
               tx == r.tx
    <3>2. AtCommit(t) /\ ~Dirty(r)
      BY <3>1 DEF Commit
    <3>3. /\ r.pc = "run" /\ Content(r)
          /\ tx.add \subseteq Names /\ tx.write \subseteq tx.add
          /\ r.todo # <<>> => DOMAIN tx.set = {} /\ tx.add = {}
      BY <1>1, <3>2, AtSave
    <3>4. /\ row' = [a \in Attributes |-> IF a \in DOMAIN tx.set THEN tx.set[a] ELSE row[a]]
          /\ objects' = (objects \cup tx.add) \ tx.del
          /\ scoped' = (scoped \cup tx.write) \ tx.del
      BY <3>1 DEF Commit
    <3>5. r.todo = <<>> => Commits(t)
      <4>1. CASE r.todo = <<>>
        <5>1. req' = [req EXCEPT ![t] = Published(r.tasks)] /\ DOMAIN req = Threads
          BY <1>1, <3>1, <4>1, Works DEF Commit
        <5>2. req'[t] = Published(r.tasks)
          BY <5>1
        <5>3. Published(r.tasks).pc # "run"
          <6>1. Lists(r.tasks, Kindred(tx.set, tx.add))
            BY <3>3 DEF Content
          <6> QED BY <6>1, PublishedOK
        <5> QED BY <3>2, <3>3, <5>2, <5>3 DEF Commits
      <4> QED BY <4>1
    <3>6. Wished(r.form, tx.set, tx.add, tx.write)
      BY <3>3 DEF Content
    <3> HIDE DEF r
    <3>7. ASSUME NEW a \in Attributes, row'[a] # row[a]
          PROVE  Commits(t) /\ r.todo = <<>> /\ AskedToSet(t, a)
      <4>1. a \in DOMAIN tx.set /\ row'[a] = tx.set[a]
        BY <3>4, <3>7
      <4>2. \E o \in ToSet(r.form) : \/ o.op = "set" /\ a \in DOMAIN o.values /\ o.values[a] = tx.set[a]
                                     \/ o = SetPw(tx.set[a]) /\ a = "password"
        BY <3>6, <4>1 DEF Wished
      <4> QED BY <3>3, <3>5, <4>1, <4>2 DEF AskedToSet, Asked, r
    <3>8. ASSUME NEW n \in objects' \ objects
          PROVE  Commits(t) /\ r.todo = <<>> /\ AskedToAdd(t, n)
      <4>1. n \in tx.add
        BY <3>4, <3>8
      <4>2. n \in scoped' => n \in tx.write
        BY <1>1, <3>4, <3>8 DEF IInv, Account
      <4>3. \E w \in BOOLEAN : Add(n, w) \in ToSet(r.form) /\ (n \in scoped' => w)
        <5>1. CASE n \in tx.write
          BY <3>6, <5>1 DEF Wished
        <5>2. CASE n \notin tx.write
          BY <3>6, <4>1, <4>2, <5>2 DEF Wished
        <5> QED BY <5>1, <5>2
      <4> QED BY <3>3, <3>5, <4>1, <4>3 DEF AskedToAdd, Asked, r
    <3> QED BY <3>7, <3>8 DEF r
  <2> QED BY <2>1, <2>2
<1>2. IInv /\ [Next]_vars => [Asking]_vars
  BY <1>1
<1>3. OnlyWhatWasAsked <=> [][Asking]_vars
  BY DEF OnlyWhatWasAsked
<1> HIDE DEF Asking
<1> QED BY <1>2, <1>3, Invariant, PTL DEF Spec

\* Only the commit of a thread takes its request on from where it commits.
LEMMA CommitsCommit ==
    ASSUME IInv, [Next]_vars, NEW t \in Threads, Commits(t)
    PROVE  Commit(t)
<1>1. /\ AtCommit(t) /\ ~Dirty(req[t]) /\ req[t].pc = "run" /\ DOMAIN req = Threads
      /\ req[t].todo = <<>> \/ Op(t).op = "save"
  BY Works DEF Commits, AtCommit, Running
<1>2. req'[t].pc # req[t].pc \/ req'[t].todo # req[t].todo
  BY DEF Commits
<1>3. req'[t] # req[t]
  BY <1>2
<1>4. ASSUME NEW u \in Threads, NEW q, req' = [req EXCEPT ![u] = q] PROVE u = t
  BY <1>1, <1>3, <1>4
<1>5. ASSUME NEW u \in Threads, NEW f \in Requests, Begin(u, f) PROVE FALSE
  <2>1. CASE u = t
    BY <1>1, <1>5, <2>1 DEF Begin
  <2>2. CASE u # t
    BY <1>1, <1>3, <1>5, <2>2 DEF Begin
  <2> QED BY <2>1, <2>2
<1>6. ASSUME NEW u \in Threads, Refused(u) PROVE FALSE
  <2>1. u = t
    BY <1>4, <1>6 DEF Refused, Fails
  <2> QED BY <1>1, <1>6, <2>1 DEF Refused, Passes
<1>7. ASSUME NEW u \in Threads, Populate(u) PROVE FALSE
  <2>1. u = t
    BY <1>4, <1>7 DEF Populate
  <2> QED BY <1>1, <1>7, <2>1 DEF Populate
<1>8. ASSUME NEW u \in Threads, SetPassword(u) PROVE FALSE
  <2>1. u = t
    BY <1>4, <1>8 DEF SetPassword, Fails
  <2> QED BY <1>1, <1>8, <2>1 DEF SetPassword, Running
<1>9. ASSUME NEW u \in Threads, Flush(u) PROVE FALSE
  <2>1. u = t
    BY <1>4, <1>9 DEF Flush, Fails
  <2> QED BY <1>1, <1>9, <2>1 DEF Flush
<1>10. ASSUME NEW u \in Threads, Commit(u) PROVE u = t
  BY <1>4, <1>10 DEF Commit
<1>11. ASSUME NEW u \in Threads, Publish(u) \/ PublishRaises(u) PROVE FALSE
  <2>1. u = t /\ req[u].pc = "publish"
    BY <1>4, <1>11 DEF Publish, PublishRaises
  <2> QED BY <1>1, <2>1
<1>12. ASSUME NEW u \in Threads, Login(u) PROVE FALSE
  <2>1. req'[t] = SinceLogin(req[t], u)
    BY <1>12 DEF Login, SinceLogin
  <2>2. req'[t].pc = req[t].pc /\ req'[t].todo = req[t].todo
    BY <2>1, Works, SinceLoginFields
  <2> QED BY <1>2, <2>2
<1>13. ASSUME CleanUp \/ (\E n \in Names : Expire(n)) \/ (\E u \in Threads : Logout(u)) \/ UNCHANGED vars
       PROVE FALSE
  BY <1>3, <1>13 DEF CleanUp, Expire, Logout, vars
<1> QED BY <1>5, <1>6, <1>7, <1>8, <1>9, <1>10, <1>11, <1>12, <1>13 DEF Next

\* Once a form with a new password is saved, no session is left of those there
\* were when it arrived but that of the browser that sent it, which keeps its own
\* (AccountChanges.OthersAreLoggedOut).
THEOREM LoggedOut == Spec => OthersAreLoggedOut
<1> DEFINE Ends ==
             \A t \in Threads :
                Commits(t) /\ req[t].todo = <<>> /\ Revokes(req[t].form)
                   => /\ (sessions' \cap req[t].old) \subseteq (IF FromApi(req[t].form) THEN {} ELSE {t})
                      /\ (t \in sessions \ sessions') => FromApi(req[t].form)
<1>1. ASSUME IInv, [Next]_vars PROVE Ends
  <2>1. SUFFICES ASSUME NEW t \in Threads, Commits(t), req[t].todo = <<>>, Revokes(req[t].form)
                 PROVE  /\ (sessions' \cap req[t].old) \subseteq (IF FromApi(req[t].form) THEN {} ELSE {t})
                        /\ (t \in sessions \ sessions') => FromApi(req[t].form)
    OBVIOUS
  <2> DEFINE r == req[t]
  <2>2. Commit(t)
    BY <1>1, <2>1, CommitsCommit
  <2>3. sessions' = sessions \ r.tx.revoke /\ AtCommit(t)
    BY <2>2 DEF Commit
  <2>4. Revoked(t, r, sessions)
    BY <1>1, <2>3, AtSave
  <2>5. ~Revokes(r.todo)
    BY <2>1 DEF Revokes, ToSet
  <2> HIDE DEF r
  <2>6. /\ (sessions \cap r.old) \subseteq (r.tx.revoke \cup (IF FromApi(r.form) THEN {} ELSE {t}))
        /\ t \in r.tx.revoke => FromApi(r.form)
    BY <2>1, <2>4, <2>5 DEF Revoked, r
  <2>7. /\ (sessions' \cap r.old) \subseteq (IF FromApi(r.form) THEN {} ELSE {t})
        /\ (t \in sessions \ sessions') => FromApi(r.form)
    BY <2>3, <2>6
  <2> QED BY <2>7 DEF r
<1>2. IInv /\ [Next]_vars => [Ends]_vars
  BY <1>1
<1>3. OthersAreLoggedOut <=> [][Ends]_vars
  BY DEF OthersAreLoggedOut
<1> HIDE DEF Ends
<1> QED BY <1>2, <1>3, Invariant, PTL DEF Spec

-----------------------------------------------------------------------------
(***************************************************************************)
(* The authorized_keys file that follows those changes                     *)
(***************************************************************************)
\* A counter below its bound can be incremented.
LEMMA Counting ==
    ASSUME NEW n \in Nat, NEW c \in 0..n, c < n
    PROVE  c + 1 \in 0..n
OBVIOUS

\* A line of the query is for a key, the user that owns it and a directory.
LEMMA WantedType ==
     KeysTypeOK => Wanted \in SUBSET Line
<1> SUFFICES ASSUME KeysTypeOK, NEW line \in Wanted PROVE line \in Line
  OBVIOUS
<1>1. PICK k \in PublicKeys : owner[k] # NoUser /\ line = <<k, owner[k], root[owner[k]]>>
  BY DEF Wanted
<1>2. owner[k] \in Accounts /\ root[owner[k]] \in Roots
  BY <1>1 DEF KeysTypeOK
<1> QED BY <1>1, <1>2 DEF Line

\* The correction of a root returns a directory, and none outside of the base
\* directory when users are confined to it.
LEMMA ConfineType ==
    ASSUME NEW u \in Accounts, NEW dir \in Roots
    PROVE  /\ Confine(u, dir) \in Roots
           /\ Restricted => Confine(u, dir) \notin Outside
BY RootsAssumption DEF Confine, Roots

\* A thread in the middle of a rewrite carries the lines it has read.
LEMMA RewritingType ==
    ASSUME KeysTypeOK, NEW t \in Writers, Rewriting(t)
    PROVE  sync[t] \in [pc : {"read", "open"}, lines : SUBSET Line]
<1>1. sync[t] \in Sync /\ sync[t].pc \in {"read", "open"}
  BY DEF KeysTypeOK, Rewriting
<1>2. sync[t] # NoCallback /\ sync[t] # Due
  BY <1>1, NoCallback.pc = "idle", Due.pc = "due" DEF NoCallback, Due
<1> QED BY <1>1, <1>2 DEF Sync

\* What a commit does beside its change of the tables.
LEMMA CommitFacts ==
    ASSUME KeysTypeOK, NEW t \in Workers, NEW attr, CommitChange(t, attr)
    PROVE  /\ sync' \in [Writers -> Sync]
           /\ changes' \in 0..MaxChanges
           /\ UNCHANGED <<file, unsure, faults, crashes>>
           /\ \A x \in Writers : x # t => sync'[x] = sync[x]
           /\ Concerns(attr) => sync'[t] = Due
           /\ ~Concerns(attr) => sync' = sync
           /\ \A x \in Writers : Rewriting(x) <=> Rewriting(x)'
           /\ ~Rewriting(t)
<1>1. t \in Writers /\ sync[t] = NoCallback
  BY DEF CommitChange, Writers
<1>2. sync' = [sync EXCEPT ![t] = IF Concerns(attr) THEN Due ELSE NoCallback]
  BY DEF CommitChange
<1>3. NoCallback \in Sync /\ Due \in Sync
  BY DEF Sync
<1>4. sync' \in [Writers -> Sync]
  BY <1>1, <1>2, <1>3 DEF KeysTypeOK
<1>5. /\ Concerns(attr) => sync'[t] = Due
      /\ ~Concerns(attr) => sync' = sync
      /\ \A x \in Writers : x # t => sync'[x] = sync[x]
  BY <1>1, <1>2 DEF KeysTypeOK
<1>6. ~Rewriting(t) /\ ~Rewriting(t)'
  BY <1>1, <1>5 DEF Rewriting, NoCallback, Due
<1>7. \A x \in Writers : Rewriting(x) <=> Rewriting(x)'
  BY <1>5, <1>6 DEF Rewriting
<1>8. changes' \in 0..MaxChanges /\ UNCHANGED <<file, unsure, faults, crashes>>
  <2>1. changes \in 0..MaxChanges /\ changes < MaxChanges /\ changes' = changes + 1
    BY DEF CommitChange, KeysTypeOK
  <2> QED BY <2>1, Counting, KeysBoundsAssumption DEF CommitChange
<1> QED BY <1>4, <1>5, <1>6, <1>7, <1>8

-----------------------------------------------------------------------------
(***************************************************************************)
(* Types                                                                   *)
(***************************************************************************)
LEMMA InitTypeOK ==
     KeysInit => KeysTypeOK
<1> SUFFICES ASSUME KeysInit PROVE KeysTypeOK
  OBVIOUS
<1>1. sync \in [Writers -> Sync]
  BY DEF KeysInit, Sync
<1> QED BY <1>1, KeysBoundsAssumption DEF KeysInit, KeysTypeOK, Roots

LEMMA ChangeTypeOK ==
    ASSUME KeysTypeOK, NEW t \in Workers, Change(t)
    PROVE  KeysTypeOK'
<1>1. ASSUME NEW u \in Accounts, NEW dir \in Roots, KeysAddUser(t, u, dir)
      PROVE  KeysTypeOK'
  BY <1>1, CommitFacts, ConfineType DEF KeysAddUser, KeysTypeOK
<1>2. ASSUME NEW u \in Accounts, NEW dir \in Roots, SetRoot(t, u, dir)
      PROVE  KeysTypeOK'
  BY <1>2, CommitFacts, ConfineType DEF SetRoot, KeysTypeOK
<1>3. ASSUME NEW u \in Accounts, NEW k \in PublicKeys, AddKey(t, u, k)
      PROVE  KeysTypeOK'
  BY <1>3, CommitFacts DEF AddKey, KeysTypeOK
<1>4. ASSUME NEW k \in PublicKeys, DeleteKey(t, k)
      PROVE  KeysTypeOK'
  BY <1>4, CommitFacts DEF DeleteKey, KeysTypeOK
<1>5. ASSUME NEW u \in Accounts, NEW s \in {"", "disabled", "deleting"}, SetStatus(t, u, s)
      PROVE  KeysTypeOK'
  BY <1>5, CommitFacts DEF SetStatus, KeysTypeOK
<1>6. ASSUME NEW u \in Accounts, DeleteUser(t, u)
      PROVE  KeysTypeOK'
  BY <1>6, CommitFacts DEF DeleteUser, KeysTypeOK
<1> QED BY <1>1, <1>2, <1>3, <1>4, <1>5, <1>6 DEF Change

LEMMA StepTypeOK ==
     KeysTypeOK /\ [KeysNext]_keysVars => KeysTypeOK'
<1> SUFFICES ASSUME KeysTypeOK, [KeysNext]_keysVars PROVE KeysTypeOK'
  OBVIOUS
<1>1. ASSUME NEW t \in Workers, Change(t) PROVE KeysTypeOK'
  BY <1>1, ChangeTypeOK
<1>2. ASSUME NEW t \in Writers, Read(t) PROVE KeysTypeOK'
  <2>1. [pc |-> "read", lines |-> Wanted] \in Sync
    BY WantedType DEF Sync
  <2> QED BY <1>2, <2>1 DEF Read, KeysTypeOK, tables
<1>3. ASSUME NEW t \in Writers, Open(t) PROVE KeysTypeOK'
  <2>1. sync[t] \in [pc : {"read", "open"}, lines : SUBSET Line]
    BY <1>3, RewritingType DEF Open, Rewriting
  <2>2. [sync[t] EXCEPT !.pc = "open"] \in Sync
    BY <2>1 DEF Sync
  <2>3. sync' = [sync EXCEPT ![t] = [sync[t] EXCEPT !.pc = "open"]]
    BY <1>3 DEF Open, KeysTypeOK
  <2>4. sync' \in [Writers -> Sync]
    BY <2>2, <2>3 DEF KeysTypeOK
  <2> QED BY <1>3, <2>4 DEF Open, KeysTypeOK, tables
<1>4. ASSUME NEW t \in Writers, Write(t) PROVE KeysTypeOK'
  <2>1. sync[t].lines \in SUBSET Line
    BY <1>4, RewritingType DEF Write, Rewriting
  <2>2. file' \in SUBSET Line
    BY <1>4, <2>1 DEF Write, KeysTypeOK
  <2> QED BY <1>4, <2>2 DEF Write, KeysTypeOK, tables, Sync
<1>5. ASSUME NEW t \in Writers, RewriteFails(t) PROVE KeysTypeOK'
  <2>1. faults \in 0..MaxFaults /\ faults < MaxFaults /\ faults' = faults + 1
    BY <1>5 DEF RewriteFails, KeysTypeOK
  <2>2. faults' \in 0..MaxFaults
    BY <2>1, Counting, KeysBoundsAssumption
  <2>3. sync' \in [Writers -> Sync]
    BY <1>5 DEF RewriteFails, KeysTypeOK, Sync
  <2> QED BY <1>5, <2>2, <2>3 DEF RewriteFails, KeysTypeOK, tables
<1>6. ASSUME Restart PROVE KeysTypeOK'
  <2>1. sync' \in [Writers -> Sync]
    BY <1>6 DEF Restart, Sync
  <2>2. crashes \in 0..MaxCrashes /\ crashes < MaxCrashes /\ crashes' = crashes + 1
    BY <1>6 DEF Restart, KeysTypeOK
  <2>3. crashes' \in 0..MaxCrashes
    BY <2>2, Counting, KeysBoundsAssumption
  <2> QED BY <1>6, <2>1, <2>3 DEF Restart, KeysTypeOK, tables
<1>7. ASSUME UNCHANGED keysVars PROVE KeysTypeOK'
  BY <1>7 DEF keysVars, KeysTypeOK
<1> QED BY <1>1, <1>2, <1>3, <1>4, <1>5, <1>6, <1>7 DEF KeysNext, Rewrite

\* Every variable keeps a value of its type, for the tables of the database, the
\* file and the threads in _update_authorized_keys().
THEOREM TypeCorrect ==
     KeysSpec => []KeysTypeOK
BY InitTypeOK, StepTypeOK, PTL DEF KeysSpec

-----------------------------------------------------------------------------
(***************************************************************************)
(* The base directory                                                      *)
(***************************************************************************)
\* The invariant of the restriction: no root in the table is outside of the base
\* directory, and so no line that was read from it.
Inside(lines) == \A line \in lines : line[3] \notin Outside
InsideInv ==
    Restricted =>
        /\ \A u \in Accounts : root[u] \notin Outside
        /\ Inside(file)
        /\ \A t \in Writers : Rewriting(t) => Inside(sync[t].lines)

LEMMA InitInside ==
     KeysInit => InsideInv
BY RootsAssumption DEF KeysInit, InsideInv, Inside, Rewriting, NoCallback, Due

LEMMA WantedInside ==
    ASSUME KeysTypeOK, \A u \in Accounts : root[u] \notin Outside
    PROVE  Inside(Wanted)
<1> SUFFICES ASSUME NEW line \in Wanted PROVE line[3] \notin Outside
  BY DEF Inside
<1>1. PICK k \in PublicKeys : owner[k] # NoUser /\ line = <<k, owner[k], root[owner[k]]>>
  BY DEF Wanted
<1>2. owner[k] \in Accounts
  BY <1>1 DEF KeysTypeOK
<1> QED BY <1>1, <1>2

\* A commit keeps what it neither writes to the file nor hands to a thread.
LEMMA CommitInside ==
    ASSUME KeysTypeOK, InsideInv, NEW t \in Workers, NEW attr, CommitChange(t, attr),
           Restricted => \A u \in Accounts : root'[u] \notin Outside
    PROVE  InsideInv'
<1>1. /\ file' = file
      /\ \A x \in Writers : Rewriting(x)' => Rewriting(x) /\ sync'[x] = sync[x]
  BY CommitFacts
<1> QED BY <1>1 DEF InsideInv, Inside

LEMMA ChangeInside ==
    ASSUME KeysTypeOK, InsideInv, NEW t \in Workers, Change(t)
    PROVE  InsideInv'
<1>1. ASSUME NEW u \in Accounts, NEW dir \in Roots, KeysAddUser(t, u, dir) \/ SetRoot(t, u, dir)
      PROVE  InsideInv'
  <2>1. root' = [root EXCEPT ![u] = Confine(u, dir)]
    BY <1>1 DEF KeysAddUser, SetRoot
  <2>2. Restricted => \A x \in Accounts : root'[x] \notin Outside
    BY <2>1, ConfineType DEF InsideInv, KeysTypeOK
  <2> QED BY <1>1, <2>2, CommitInside DEF KeysAddUser, SetRoot
<1>2. ASSUME NEW u \in Accounts, NEW k \in PublicKeys, AddKey(t, u, k)
      PROVE  InsideInv'
  BY <1>2, CommitInside DEF AddKey, InsideInv
<1>3. ASSUME NEW k \in PublicKeys, DeleteKey(t, k)
      PROVE  InsideInv'
  BY <1>3, CommitInside DEF DeleteKey, InsideInv
<1>4. ASSUME NEW u \in Accounts, NEW s \in {"", "disabled", "deleting"}, SetStatus(t, u, s)
      PROVE  InsideInv'
  BY <1>4, CommitInside DEF SetStatus, InsideInv
<1>5. ASSUME NEW u \in Accounts, DeleteUser(t, u)
      PROVE  InsideInv'
  BY <1>5, CommitInside DEF DeleteUser, InsideInv
<1> QED BY <1>1, <1>2, <1>3, <1>4, <1>5 DEF Change

LEMMA StepInside ==
     KeysTypeOK /\ InsideInv /\ [KeysNext]_keysVars => InsideInv'
<1> SUFFICES ASSUME KeysTypeOK, InsideInv, [KeysNext]_keysVars PROVE InsideInv'
  OBVIOUS
<1>1. ASSUME NEW t \in Workers, Change(t) PROVE InsideInv'
  BY <1>1, ChangeInside
<1>2. ASSUME NEW t \in Writers, Read(t) PROVE InsideInv'
  <2>1. Restricted => Inside(Wanted)
    BY WantedInside DEF InsideInv
  <2>2. /\ sync'[t].lines = Wanted
        /\ \A x \in Writers : x # t => sync'[x] = sync[x]
    BY <1>2 DEF Read, KeysTypeOK
  <2> QED BY <1>2, <2>1, <2>2 DEF Read, InsideInv, Inside, Rewriting, tables
<1>3. ASSUME NEW t \in Writers, Open(t) PROVE InsideInv'
  <2>1. sync[t] \in [pc : {"read", "open"}, lines : SUBSET Line]
    BY <1>3, RewritingType DEF Open, Rewriting
  <2>2. /\ sync'[t].lines = sync[t].lines
        /\ \A x \in Writers : x # t => sync'[x] = sync[x]
    BY <1>3, <2>1 DEF Open, KeysTypeOK
  <2> QED BY <1>3, <2>2 DEF Open, InsideInv, Inside, Rewriting, tables
<1>4. ASSUME NEW t \in Writers, Write(t) PROVE InsideInv'
  <2>1. Restricted => Inside(file')
    BY <1>4 DEF Write, InsideInv, Inside, Rewriting
  <2>2. /\ sync'[t] = NoCallback
        /\ \A x \in Writers : x # t => sync'[x] = sync[x]
    BY <1>4 DEF Write, KeysTypeOK
  <2> QED BY <1>4, <2>1, <2>2 DEF Write, InsideInv, Inside, Rewriting, NoCallback, tables
<1>5. ASSUME NEW t \in Writers, RewriteFails(t) PROVE InsideInv'
  <2>1. /\ sync'[t] = NoCallback
        /\ \A x \in Writers : x # t => sync'[x] = sync[x]
    BY <1>5 DEF RewriteFails, KeysTypeOK
  <2> QED BY <1>5, <2>1 DEF RewriteFails, InsideInv, Inside, Rewriting, NoCallback, tables
<1>6. ASSUME Restart PROVE InsideInv'
  <2>1. \A x \in Writers : ~Rewriting(x)'
    BY <1>6 DEF Restart, Rewriting, NoCallback, Due
  <2> QED BY <1>6, <2>1 DEF Restart, InsideInv, Inside, tables
<1>7. ASSUME UNCHANGED keysVars PROVE InsideInv'
  BY <1>7 DEF keysVars, InsideInv, Inside, Rewriting
<1> QED BY <1>1, <1>2, <1>3, <1>4, <1>5, <1>6, <1>7 DEF KeysNext, Rewrite

\* With restricted_to_base_dir no line of the file, and none that a thread is about
\* to write, binds a key to a directory outside of the base directory.
THEOREM KeysStayInBaseDir ==
     KeysSpec => []BoundToBaseDir
<1>1. KeysSpec => []InsideInv
  BY TypeCorrect, InitInside, StepInside, PTL DEF KeysSpec
<1>2. InsideInv => BoundToBaseDir
  BY DEF InsideInv, Inside, BoundToBaseDir
<1> QED BY <1>1, <1>2, PTL

-----------------------------------------------------------------------------
(***************************************************************************)
(* The file beside the database                                            *)
(***************************************************************************)
\* The owner of a key is in the table of users.
OwnersLive == \A k \in PublicKeys : owner[k] = NoUser \/ Live(owner[k])

\* Thread t is about to write what the database holds.
Fresh(t) == Rewriting(t) /\ sync[t].lines = Wanted /\ (sync[t].pc = "open" => file = {})

\* While the callbacks are undisturbed one thread at most rewrites; and unless a
\* callback is due, which will, that thread or the file has the wanted lines.
Sole    == \A s, t \in Writers : Rewriting(s) /\ Rewriting(t) => s = t
Settled == (\E t \in Writers : sync[t] = Due \/ Fresh(t))
           \/ ((\A t \in Writers : ~Rewriting(t)) /\ file = Wanted)
CurrentInv == OwnersLive /\ (~unsure => Sole /\ Settled)

LEMMA CurrentSuffices ==
     CurrentInv => FileIsCurrent
BY DEF CurrentInv, Settled, Fresh, Rewriting, FileIsCurrent, NoCallback, Due

LEMMA InitCurrent ==
     KeysInit => CurrentInv
BY DEF KeysInit, CurrentInv, OwnersLive

\* A commit that concerns the file leaves a callback that will rewrite it.
LEMMA CommitDue ==
    ASSUME KeysTypeOK, CurrentInv, NEW t \in Workers, NEW attr, CommitChange(t, attr), Concerns(attr)
    PROVE  (~unsure => Sole /\ Settled)'
<1>1. /\ unsure' = unsure /\ sync'[t] = Due /\ t \in Writers
      /\ \A x \in Writers : Rewriting(x) <=> Rewriting(x)'
  BY CommitFacts DEF Writers
<1> QED BY <1>1 DEF CurrentInv, Sole, Settled

\* A new user owns no key, so that the wanted lines are the same.
LEMMA AddUserCurrent ==
    ASSUME KeysTypeOK, CurrentInv, NEW t \in Workers, NEW u \in Accounts, NEW dir \in Roots,
           KeysAddUser(t, u, dir)
    PROVE  CurrentInv'
<1>1. /\ status[u] = "new" /\ owner' = owner
      /\ status' = [status EXCEPT ![u] = ""]
      /\ root' = [root EXCEPT ![u] = Confine(u, dir)]
  BY DEF KeysAddUser
<1>2. sync' = sync /\ file' = file /\ unsure' = unsure
  <2>1. CommitChange(t, "added") /\ ~Concerns("added")
    BY DEF KeysAddUser, Concerns
  <2> QED BY <2>1, CommitFacts
<1>3. ASSUME NEW k \in PublicKeys, owner[k] # NoUser
      PROVE  /\ owner[k] \in Accounts /\ owner[k] # u
             /\ status'[owner[k]] = status[owner[k]]
             /\ root'[owner[k]] = root[owner[k]]
  BY <1>1, <1>3 DEF CurrentInv, OwnersLive, Live, KeysTypeOK
<1>4. Wanted' = Wanted
  <2> DEFINE Allowed ==
        {x \in PublicKeys : owner[x] # NoUser /\ status[owner[x]] \notin {"disabled", "deleting"}}
  <2>1. \A k \in PublicKeys : k \in Allowed' <=> k \in Allowed
    BY <1>1, <1>3
  <2>2. Allowed' = Allowed /\ \A k \in Allowed : root'[owner'[k]] = root[owner[k]]
    BY <1>1, <1>3, <2>1
  <2>3. {<<k, owner'[k], root'[owner'[k]]>> : k \in Allowed'}
          = {<<k, owner[k], root[owner[k]]>> : k \in Allowed}
    BY <1>1, <2>2
  <2> QED BY <2>3 DEF Wanted
<1>5. OwnersLive'
  BY <1>1, <1>3 DEF CurrentInv, OwnersLive, Live
<1> QED BY <1>2, <1>4, <1>5 DEF CurrentInv, Sole, Settled, Fresh, Rewriting

LEMMA ChangeCurrent ==
    ASSUME KeysTypeOK, CurrentInv, NEW t \in Workers, Change(t)
    PROVE  CurrentInv'
<1>1. ASSUME NEW u \in Accounts, NEW dir \in Roots, KeysAddUser(t, u, dir)
      PROVE  CurrentInv'
  BY <1>1, AddUserCurrent
<1>2. ASSUME NEW u \in Accounts, NEW dir \in Roots, SetRoot(t, u, dir)
      PROVE  CurrentInv'
  <2>1. OwnersLive'
    BY <1>2 DEF SetRoot, CurrentInv, OwnersLive, Live
  <2> QED BY <1>2, <2>1, CommitDue DEF SetRoot, CurrentInv, Concerns
<1>3. ASSUME NEW u \in Accounts, NEW k \in PublicKeys, AddKey(t, u, k)
      PROVE  CurrentInv'
  <2>1. OwnersLive'
    BY <1>3 DEF AddKey, CurrentInv, OwnersLive, Live, KeysTypeOK
  <2> QED BY <1>3, <2>1, CommitDue DEF AddKey, CurrentInv, Concerns
<1>4. ASSUME NEW k \in PublicKeys, DeleteKey(t, k)
      PROVE  CurrentInv'
  <2>1. OwnersLive'
    BY <1>4 DEF DeleteKey, CurrentInv, OwnersLive, Live, KeysTypeOK
  <2> QED BY <1>4, <2>1, CommitDue DEF DeleteKey, CurrentInv, Concerns
<1>5. ASSUME NEW u \in Accounts, NEW s \in {"", "disabled", "deleting"}, SetStatus(t, u, s)
      PROVE  CurrentInv'
  <2>1. OwnersLive'
    BY <1>5 DEF SetStatus, CurrentInv, OwnersLive, Live, KeysTypeOK
  <2> QED BY <1>5, <2>1, CommitDue DEF SetStatus, CurrentInv, Concerns
<1>6. ASSUME NEW u \in Accounts, DeleteUser(t, u)
      PROVE  CurrentInv'
  <2>1. OwnersLive'
    BY <1>6 DEF DeleteUser, CurrentInv, OwnersLive, Live, KeysTypeOK
  <2> QED BY <1>6, <2>1, CommitDue DEF DeleteUser, CurrentInv, Concerns
<1> QED BY <1>1, <1>2, <1>3, <1>4, <1>5, <1>6 DEF Change

LEMMA StepCurrent ==
     KeysTypeOK /\ CurrentInv /\ [KeysNext]_keysVars => CurrentInv'
<1> SUFFICES ASSUME KeysTypeOK, CurrentInv, [KeysNext]_keysVars PROVE CurrentInv'
  OBVIOUS
<1>1. ASSUME NEW t \in Workers, Change(t) PROVE CurrentInv'
  BY <1>1, ChangeCurrent
<1>2. ASSUME UNCHANGED tables, unsure' PROVE CurrentInv'
  BY <1>2 DEF CurrentInv, OwnersLive, Live, tables
<1>3. ASSUME UNCHANGED tables, Sole', Settled' PROVE CurrentInv'
  BY <1>3 DEF CurrentInv, OwnersLive, Live, tables
<1>4. ASSUME NEW t \in Writers, Read(t), ~unsure' PROVE CurrentInv'
  <2>1. /\ sync'[t] = [pc |-> "read", lines |-> Wanted]
        /\ \A x \in Writers \ {t} : sync'[x] = sync[x] /\ ~Rewriting(x)
    BY <1>4 DEF Read, KeysTypeOK
  <2>2. Wanted' = Wanted /\ UNCHANGED tables
    BY <1>4 DEF Read, Wanted, tables
  <2>3. \A x \in Writers \ {t} : ~Rewriting(x)'
    BY <2>1 DEF Rewriting
  <2>4. Sole'
    BY <2>3 DEF Sole
  <2>5. Fresh(t)'
    BY <2>1, <2>2 DEF Fresh, Rewriting
  <2> QED BY <1>3, <2>2, <2>4, <2>5 DEF Settled
<1>5. ASSUME NEW t \in Writers, Open(t), ~unsure' PROVE CurrentInv'
  <2>1. sync[t] \in [pc : {"read", "open"}, lines : SUBSET Line] /\ Rewriting(t)
    BY <1>5, RewritingType DEF Open, Rewriting
  <2>2. /\ sync'[t].pc = "open" /\ sync'[t].lines = sync[t].lines /\ file' = {}
        /\ \A x \in Writers \ {t} : sync'[x] = sync[x]
    BY <1>5, <2>1 DEF Open, KeysTypeOK
  <2>3. Wanted' = Wanted /\ UNCHANGED tables
    BY <1>5 DEF Open, Wanted, tables
  <2>4. Sole /\ Settled
    BY <1>5 DEF Open, CurrentInv
  <2>5. \A x \in Writers : Rewriting(x) <=> Rewriting(x)'
    BY <2>1, <2>2 DEF Rewriting
  <2>6. Sole'
    BY <2>4, <2>5 DEF Sole
  <2>7. PICK w \in Writers : sync[w] = Due \/ Fresh(w)
    BY <2>1, <2>4 DEF Settled
  <2>8. CASE sync[w] = Due
    <3>1. w # t
      BY <2>1, <2>8, Due.pc = "due" DEF Due, Rewriting
    <3> QED BY <1>3, <2>2, <2>3, <2>6, <2>8, <3>1 DEF Settled
  <2>9. CASE Fresh(w)
    <3>1. w = t
      BY <2>1, <2>4, <2>9 DEF Fresh, Sole
    <3>2. Fresh(t)'
      BY <2>2, <2>3, <2>9, <3>1 DEF Fresh, Rewriting
    <3> QED BY <1>3, <2>3, <2>6, <3>2 DEF Settled
  <2> QED BY <2>7, <2>8, <2>9
<1>6. ASSUME NEW t \in Writers, Write(t), ~unsure' PROVE CurrentInv'
  <2>1. /\ sync[t].pc = "open" /\ Rewriting(t) /\ sync'[t] = NoCallback
        /\ \A x \in Writers \ {t} : sync'[x] = sync[x]
    BY <1>6 DEF Write, KeysTypeOK, Rewriting
  <2>2. Wanted' = Wanted /\ UNCHANGED tables
    BY <1>6 DEF Write, Wanted, tables
  <2>3. Sole /\ Settled
    BY <1>6 DEF Write, CurrentInv
  <2>4. \A x \in Writers : ~Rewriting(x)'
    BY <2>1, <2>3 DEF Sole, Rewriting, NoCallback
  <2>5. Sole'
    BY <2>4 DEF Sole
  <2>6. PICK w \in Writers : sync[w] = Due \/ Fresh(w)
    BY <2>1, <2>3 DEF Settled
  <2>7. CASE sync[w] = Due
    <3>1. w # t
      BY <2>1, <2>7, Due.pc = "due" DEF Due
    <3> QED BY <1>3, <2>1, <2>2, <2>5, <2>7, <3>1 DEF Settled
  <2>8. CASE Fresh(w)
    <3>1. w = t
      BY <2>1, <2>3, <2>8 DEF Fresh, Sole
    <3>2. file = {} /\ sync[t].lines = Wanted
      BY <2>1, <2>8, <3>1 DEF Fresh
    <3>3. file' = Wanted'
      BY <1>6, <2>2, <3>2 DEF Write
    <3> QED BY <1>3, <2>2, <2>4, <2>5, <3>3 DEF Settled
  <2> QED BY <2>6, <2>7, <2>8
<1>7. ASSUME NEW t \in Writers, RewriteFails(t) PROVE CurrentInv'
  BY <1>2, <1>7 DEF RewriteFails, tables
<1>8. ASSUME Restart PROVE CurrentInv'
  BY <1>2, <1>8 DEF Restart, tables
<1>9. ASSUME UNCHANGED keysVars PROVE CurrentInv'
  BY <1>9 DEF keysVars, CurrentInv, OwnersLive, Live, Sole, Settled, Fresh, Rewriting, Wanted
<1>10. ASSUME NEW t \in Writers, Rewrite(t), unsure' PROVE CurrentInv'
  BY <1>2, <1>10 DEF Rewrite, Read, Open, Write, tables
<1> QED BY <1>1, <1>4, <1>5, <1>6, <1>7, <1>8, <1>9, <1>10 DEF KeysNext, Rewrite

\* Whatever is committed while a callback runs, the file is that of the database once
\* all have run, unless callbacks overlapped or failed since the last that did not.
THEOREM FileFollowsDatabase ==
     KeysSpec => []FileIsCurrent
<1>1. KeysSpec => []CurrentInv
  BY TypeCorrect, InitCurrent, StepCurrent, PTL DEF KeysSpec
<1> QED BY <1>1, CurrentSuffices, PTL
=============================================================================
