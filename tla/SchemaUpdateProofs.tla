------------------------- MODULE SchemaUpdateProofs -------------------------
(***************************************************************************)
(* Theorems about SchemaUpdate: for any users, records and older versions, *)
(* and any number of starts that are killed at any statement: what a       *)
(* server that serves has, what was carried over, which records of nested  *)
(* repositories go, and that a second start finds nothing to do.           *)
(***************************************************************************)
EXTENDS SchemaUpdate, FiniteSetTheorems, NaturalsInduction, WellFoundedInduction, TLAPS

\* The steps of the script at which the columns are looked at.
Place(c) == CASE c = "role"        -> 1
              [] c = "lang"        -> 2
              [] c = "status"      -> 3
              [] c = "author"      -> 7
              [] c = "inactivity"  -> 9
              [] c = "access_time" -> 14
              [] c = "scope"       -> 15

\* What every database is like, in the middle of an update, too: an index or a
\* constraint stands for what its table then holds.
Sound(d) ==
    /\ d \in Database
    /\ d.index => ~Twice(d.names)
    /\ d.emailindex => ~Twice(d.emails)
    /\ d.pattern => \A u \in Users : d.names[u] \notin BadNames
    /\ d.fingerprint => ~d.keys
    /\ \A c \in Columns : d.cols[c] = "null" => c \in Filled

\* A database that is saved has no column that waits for its values but the role.
Whole(d) == \A c \in Carried \ Filled : d.cols[c] \in {"missing", "carried"}

\* Before the update gets to a column, and while it is there.
Waiting(c) ==
    pc \in 1..Place(c) =>
        \/ db.cols[c] = before.cols[c]
        \/ /\ c \in Carried /\ before.cols[c] = "missing" /\ db.cols[c] = "default"
           /\ pc = Place(c)

\* After it.
Passed(c) ==
    pc > Place(c) =>
        /\ db.cols[c] \in {"default", "carried"}
        /\ c \in Carried => \/ db.cols[c] = "carried"
                            \/ c = "role" /\ before.cols[c] \in {"null", "default"}

Cols == \A c \in Columns : Waiting(c) /\ Passed(c)

\* The indexes and constraints the update has got past.
Indexes ==
    /\ pc \in 1..5 => (db.pattern <=> before.pattern)
    /\ pc = 5 => db.index
    /\ pc > 5 => db.pattern /\ (db.index \/ (engine = "sqlite" /\ ~before.pattern))
    /\ pc > 6 => (cfg => db.emailindex)
    /\ pc > 8 => db.ondelete
    /\ pc > 12 => db.sessions
    /\ pc > 13 => db.fingerprint

\* From the column of the roles on the update has a transaction, which only its
\* end or a failure closes.
Open ==
    /\ pc \in 2..16 => tx
    /\ tx => pc \in 1..16
    /\ pc \in {0, 17} => db = saved

Shape == /\ pc \in 0..17
         /\ engine \in {"sqlite", "postgresql"} /\ tx \in BOOLEAN /\ cfg \in BOOLEAN
         /\ Sound(db) /\ Sound(saved) /\ Sound(before)
         /\ Whole(saved) /\ Whole(before)

IInv == Shape /\ Open /\ Cols /\ Indexes

-----------------------------------------------------------------------------
(***************************************************************************)
(* The script and the database                                             *)
(***************************************************************************)
LEMMA Script16 == Len(Script) = 16 /\ DOMAIN Script = 1..16 /\ Serving = 17
<1>1. Len(Script) = 16
  BY DEF Script
<1>2. DOMAIN Script = 1..16
  BY DEF Script
<1> QED BY <1>1, <1>2 DEF Serving

LEMMA Steps ==
    /\ At("username") => pc = 4
    /\ At("pattern") => pc = 5
    /\ At("email") => pc = 6
    /\ At("on delete") => pc = 8
    /\ At("strip") => pc = 10
    /\ At("nested") => pc = 11
    /\ At("sessions") => pc = 12
    /\ At("fingerprint") => pc = 13
    /\ At("commit") => pc = 16
    /\ \A c \in Columns : At(c) => pc = Place(c)
<1>0. /\ Script[1] = "role" /\ Script[2] = "lang" /\ Script[3] = "status" /\ Script[4] = "username"
      /\ Script[5] = "pattern" /\ Script[6] = "email" /\ Script[7] = "author" /\ Script[8] = "on delete"
      /\ Script[9] = "inactivity" /\ Script[10] = "strip" /\ Script[11] = "nested" /\ Script[12] = "sessions"
      /\ Script[13] = "fingerprint" /\ Script[14] = "access_time" /\ Script[15] = "scope" /\ Script[16] = "commit"
  BY DEF Script
<1>a. \A i \in 1..16 : i \in {1, 2, 3, 4, 5, 6, 7, 8, 9, 10, 11, 12, 13, 14, 15, 16}
  OBVIOUS
<1>1. \A i \in 1..16 : /\ Script[i] = "username" => i = 4
                       /\ Script[i] = "pattern" => i = 5
                       /\ Script[i] = "email" => i = 6
                       /\ Script[i] = "on delete" => i = 8
                       /\ Script[i] = "strip" => i = 10
                       /\ Script[i] = "nested" => i = 11
                       /\ Script[i] = "sessions" => i = 12
                       /\ Script[i] = "fingerprint" => i = 13
                       /\ Script[i] = "commit" => i = 16
  BY <1>0, <1>a
<1>2. \A i \in 1..16 : /\ Script[i] = "role" => i = 1
                       /\ Script[i] = "lang" => i = 2
                       /\ Script[i] = "status" => i = 3
                       /\ Script[i] = "author" => i = 7
                       /\ Script[i] = "inactivity" => i = 9
                       /\ Script[i] = "access_time" => i = 14
                       /\ Script[i] = "scope" => i = 15
  BY <1>0, <1>a
<1>3. \A step : At(step) => pc \in 1..16 /\ Script[pc] = step
  BY Script16 DEF At
<1>4. ASSUME NEW c \in Columns, At(c) PROVE pc = Place(c)
  <2>1. pc \in 1..16 /\ Script[pc] = c
    BY <1>3, <1>4
  <2> QED BY <1>2, <1>4, <2>1
          DEF Columns, UserColumns, MessageColumns, RepoColumns, KeyColumns, TokenColumns, Place
<1>5. At("username") => pc = 4
  BY <1>1, Script16 DEF At
<1>6. At("pattern") => pc = 5
  BY <1>1, Script16 DEF At
<1>7. At("email") => pc = 6
  BY <1>1, Script16 DEF At
<1>8. At("on delete") => pc = 8
  BY <1>1, Script16 DEF At
<1>9. At("strip") => pc = 10
  BY <1>1, Script16 DEF At
<1>10. At("nested") => pc = 11
  BY <1>1, Script16 DEF At
<1>11. At("sessions") => pc = 12
  BY <1>1, Script16 DEF At
<1>12. At("fingerprint") => pc = 13
  BY <1>1, Script16 DEF At
<1>13. At("commit") => pc = 16
  BY <1>1, Script16 DEF At
<1> QED BY <1>4, <1>5, <1>6, <1>7, <1>8, <1>9, <1>10, <1>11, <1>12, <1>13

LEMMA Places ==
    \A c \in Columns : /\ Place(c) \in {1, 2, 3, 7, 9, 14, 15}
                       /\ Place(c) = 1 => c = "role"
                       /\ \A e \in Columns : Place(c) = Place(e) => c = e
BY DEF Columns, UserColumns, MessageColumns, RepoColumns, KeyColumns, TokenColumns, Place

LEMMA Kinds ==
    Carried \subseteq Columns /\ Filled \subseteq Columns /\ "role" \in Carried \cap Filled
BY DEF Carried, Filled, Columns, UserColumns, MessageColumns, RepoColumns, KeyColumns, TokenColumns

\* A column gets a value.
LEMMA WithColumn ==
    ASSUME NEW d, Sound(d), NEW c \in Columns, NEW x \in {"default", "carried"},
           NEW new, new = [d EXCEPT !.cols = [d.cols EXCEPT ![c] = x]]
    PROVE  /\ Sound(new)
           /\ new.cols[c] = x /\ \A e \in Columns \ {c} : new.cols[e] = d.cols[e]
           /\ new.index = d.index /\ new.emailindex = d.emailindex /\ new.pattern = d.pattern
           /\ new.ondelete = d.ondelete /\ new.sessions = d.sessions
           /\ new.fingerprint = d.fingerprint
<1>1. d \in Database
  BY DEF Sound
<1>2. [d.cols EXCEPT ![c] = x] \in [Columns -> Column]
  BY <1>1 DEF Database, Column
<1>3. new \in Database
  BY <1>1, <1>2 DEF Database
<1>4. new.cols = [d.cols EXCEPT ![c] = x]
  BY <1>1 DEF Database
<1>5. /\ new.index = d.index /\ new.emailindex = d.emailindex /\ new.pattern = d.pattern
      /\ new.ondelete = d.ondelete /\ new.sessions = d.sessions
      /\ new.fingerprint = d.fingerprint /\ new.keys = d.keys
      /\ new.names = d.names /\ new.emails = d.emails
  BY <1>1 DEF Database
<1>6. new.cols[c] = x /\ \A e \in Columns \ {c} : new.cols[e] = d.cols[e]
  BY <1>1, <1>4 DEF Database
<1> QED BY <1>3, <1>5, <1>6 DEF Sound
\* Of an update that has a transaction nothing is saved.
LEMMA Executed ==
    ASSUME IInv, NEW new, NEW kind, Execute(new, kind), Sound(new),
           pc \in 1..15, pc' \in {pc, pc + 1},
           tx' \/ (pc' = 1 /\ Whole(new))
    PROVE  Shape' /\ Open'
<1>1. db' = new /\ saved' \in {saved, new} /\ (tx' => saved' = saved) /\ (~tx' => saved' = new)
  BY DEF Execute
<1>2. UNCHANGED <<engine, cfg, before>>
  BY DEF Execute, rest
<1>3. tx' \in BOOLEAN
  BY DEF Execute
<1>4. Sound(db)' /\ Sound(saved)' /\ Sound(before)'
  BY <1>1, <1>2 DEF IInv, Shape, Sound
<1>5. Whole(saved)' /\ Whole(before)'
  BY <1>1, <1>2 DEF IInv, Shape, Whole
<1>6. pc' \in 1..16
  OBVIOUS
<1>7. Shape'
  BY <1>2, <1>3, <1>4, <1>5, <1>6 DEF IInv, Shape
<1>8. Open'
  BY <1>6 DEF Open
<1> QED BY <1>7, <1>8

LEMMA InTransaction ==
    ASSUME IInv, NEW new, NEW kind, Execute(new, kind), pc \in 2..16 \/ kind = "data"
    PROVE  tx'
BY DEF Execute, Opens, IInv, Open

LEMMA Skipped ==
    ASSUME IInv, Skip, pc \in 1..15, pc > 1 \/ tx, Cols', Indexes'
    PROVE  IInv'
<1>1. pc' = pc + 1 /\ UNCHANGED <<saved, db, tx, engine, cfg, before>>
  BY DEF Skip, Next1, rest
<1>2. pc' \in 2..16 /\ tx
  BY <1>1 DEF IInv, Open
<1>3. Open'
  BY <1>1, <1>2 DEF Open
<1>4. Shape'
  BY <1>1, <1>2 DEF IInv, Shape, Sound, Whole
<1> QED BY <1>3, <1>4 DEF IInv

LEMMA Stopped ==
    ASSUME IInv, Stop
    PROVE  IInv'
<1>1. pc' = 0 /\ db' = saved /\ tx' = FALSE /\ UNCHANGED <<saved, engine, cfg, before>>
  BY DEF Stop, RolledBack, rest
<1>2. Shape'
  <2>1. pc' \in 0..17
    BY <1>1
  <2>3. tx' \in BOOLEAN
    BY <1>1
  <2>2. Sound(db)' /\ Sound(saved)' /\ Sound(before)' /\ Whole(saved)' /\ Whole(before)'
    BY <1>1 DEF IInv, Shape, Sound, Whole
  <2> QED BY <1>1, <2>1, <2>2, <2>3 DEF IInv, Shape
<1>5. Open'
  BY <1>1 DEF Open
<1>3. Cols'
  BY <1>1, Places DEF Cols, Waiting, Passed
<1>4. Indexes'
  BY <1>1 DEF Indexes
<1> QED BY <1>2, <1>3, <1>4, <1>5 DEF IInv

\* A step that is not about a column.
LEMMA ColsKept ==
    ASSUME IInv, db'.cols = db.cols, before' = before, pc \in 1..16, pc' = pc + 1,
           \A c \in Columns : Place(c) # pc
    PROVE  Cols'
<1> SUFFICES ASSUME NEW c \in Columns PROVE Waiting(c)' /\ Passed(c)'
  BY DEF Cols
<1>1. PICK p \in {1, 2, 3, 7, 9, 14, 15} : p = Place(c)
  BY Places
<1>2. Waiting(c) /\ Passed(c) /\ p # pc
  BY <1>1 DEF IInv, Cols
<1>3. Waiting(c)'
  BY <1>1, <1>2 DEF Waiting
<1>4. Passed(c)'
  BY <1>1, <1>2 DEF Passed
<1> QED BY <1>3, <1>4

\* A step that is not about the indexes or constraints.
LEMMA IndexesKept ==
    ASSUME IInv, pc \in {1, 2, 3, 7, 9, 10, 11, 14, 15, 16}, pc' \in {pc, pc + 1},
           UNCHANGED <<engine, cfg, before>>,
           db'.index = db.index, db'.emailindex = db.emailindex, db'.pattern = db.pattern,
           db'.ondelete = db.ondelete, db'.sessions = db.sessions,
           db'.fingerprint = db.fingerprint
    PROVE  Indexes'
BY DEF IInv, Indexes

-----------------------------------------------------------------------------
(***************************************************************************)
(* The columns                                                             *)
(***************************************************************************)
\* The column of the step has its value, and the others what they had.
LEMMA ColumnPassed ==
    ASSUME IInv, NEW c \in Columns, pc = Place(c), pc' = pc + 1, before' = before,
           \A e \in Columns \ {c} : db'.cols[e] = db.cols[e],
           db'.cols[c] \in {"default", "carried"},
           c \in Carried => \/ db'.cols[c] = "carried"
                            \/ c = "role" /\ before.cols[c] \in {"null", "default"}
    PROVE  Cols'
<1> SUFFICES ASSUME NEW e \in Columns PROVE Waiting(e)' /\ Passed(e)'
  BY DEF Cols
<1>1. PICK p \in {1, 2, 3, 7, 9, 14, 15} : p = Place(e)
  BY Places
<1>2. CASE e = c
  <2>1. pc' = p + 1
    BY <1>1, <1>2
  <2> QED BY <1>1, <1>2, <2>1 DEF Waiting, Passed
<1>3. CASE e # c
  <2>1. p # pc /\ pc \in 1..16
    BY <1>1, <1>3, Places
  <2>2. Waiting(e) /\ Passed(e) /\ db'.cols[e] = db.cols[e]
    BY <1>3 DEF IInv, Cols
  <2>3. Waiting(e)'
    <3>1. pc' \in 1..p => pc \in 1..p /\ pc # p
      BY <1>1, <2>1
    <3> QED BY <1>1, <2>1, <2>2, <3>1 DEF Waiting
  <2>4. Passed(e)'
    BY <1>1, <2>1, <2>2 DEF Passed
  <2> QED BY <2>3, <2>4
<1> QED BY <1>2, <1>3

\* A column whose values are carried over is looked at again.
LEMMA ColumnAdded ==
    ASSUME IInv, NEW c \in Columns, pc = Place(c), pc' = pc, before' = before,
           c \in Carried, db.cols[c] = "missing",
           \A e \in Columns \ {c} : db'.cols[e] = db.cols[e],
           db'.cols[c] = "default"
    PROVE  Cols'
<1> SUFFICES ASSUME NEW e \in Columns PROVE Waiting(e)' /\ Passed(e)'
  BY DEF Cols
<1>1. PICK p \in {1, 2, 3, 7, 9, 14, 15} : p = Place(e)
  BY Places
<1>2. CASE e = c
  <2>1. before.cols[c] = "missing"
    BY <1>1, <1>2 DEF IInv, Cols, Waiting
  <2> QED BY <1>1, <1>2, <2>1 DEF Waiting, Passed
<1>3. CASE e # c
  BY <1>1, <1>3 DEF IInv, Cols, Waiting, Passed
<1> QED BY <1>2, <1>3

LEMMA AddColumnStep ==
    ASSUME IInv, NEW c \in Columns, AddColumn(c)
    PROVE  IInv'
<1> DEFINE new == [db EXCEPT !.cols = [db.cols EXCEPT ![c] = "default"]]
<1>1. pc = Place(c) /\ pc \in {1, 2, 3, 7, 9, 14, 15}
  BY Steps, Places DEF AddColumn
<1>2. db.cols[c] = "missing"
  BY DEF AddColumn, Found
<1>3. Execute(new, "schema")
  BY DEF AddColumn
<1>4. db' = new /\ UNCHANGED <<engine, cfg, before>>
  BY <1>3 DEF Execute, rest
<1>5. /\ Sound(new)
      /\ new.cols[c] = "default" /\ \A e \in Columns \ {c} : new.cols[e] = db.cols[e]
      /\ new.index = db.index /\ new.emailindex = db.emailindex /\ new.pattern = db.pattern
      /\ new.ondelete = db.ondelete /\ new.sessions = db.sessions
      /\ new.fingerprint = db.fingerprint
  <2>1. Sound(db)
    BY DEF IInv, Shape
  <2> HIDE DEF new
  <2>2. new = [db EXCEPT !.cols = [db.cols EXCEPT ![c] = "default"]]
    BY DEF new
  <2> QED BY <2>1, <2>2, WithColumn
<1> HIDE DEF new
<1>6. pc' = IF c \in Carried THEN pc ELSE pc + 1
  BY DEF AddColumn, Added, Next1
<1>7. before.cols[c] = "missing"
  <2>1. Waiting(c)
    BY DEF IInv, Cols
  <2> QED BY <1>1, <1>2, <2>1 DEF Waiting
<1>8. Cols'
  <2>1. CASE c \in Carried
    BY <1>1, <1>2, <1>4, <1>5, <1>6, <2>1, ColumnAdded
  <2>2. CASE c \notin Carried
    BY <1>1, <1>4, <1>5, <1>6, <2>2, ColumnPassed
  <2> QED BY <2>1, <2>2
<1>9. pc' \in {pc, pc + 1}
  BY <1>6
<1>10. Indexes'
  BY <1>1, <1>4, <1>5, <1>9, IndexesKept
<1>11. tx' \/ (pc' = 1 /\ Whole(new))
  <2>1. CASE pc = 1
    <3>1. c = "role" /\ c \in Carried \cap Filled
      BY <1>1, <2>1, Places, Kinds
    <3>2. ASSUME NEW e \in Carried \ Filled PROVE new.cols[e] \in {"missing", "carried"}
      <4>1. e \in Columns /\ e # c /\ Place(e) # 1 /\ Place(e) \in {1, 2, 3, 7, 9, 14, 15}
        BY <3>1, <3>2, Kinds, Places
      <4>2. new.cols[e] = db.cols[e] /\ Waiting(e)
        BY <1>5, <4>1 DEF IInv, Cols
      <4>3. db.cols[e] = before.cols[e]
        BY <2>1, <4>1, <4>2 DEF Waiting
      <4> QED BY <3>2, <4>2, <4>3 DEF IInv, Shape, Whole
    <3> QED BY <1>6, <2>1, <3>1, <3>2 DEF Whole
  <2>2. CASE pc # 1
    BY <1>1, <1>3, <2>2, InTransaction
  <2> QED BY <2>1, <2>2
<1>12. pc \in 1..15
  BY <1>1
<1> QED BY <1>3, <1>5, <1>8, <1>9, <1>10, <1>11, <1>12, Executed DEF IInv

\* The role is carried over or filled, so that the update then has a transaction.
LEMMA FillStep ==
    ASSUME IInv, NEW c \in Columns, CarryOver(c) \/ FillNulls(c)
    PROVE  IInv'
<1>0. /\ pc = Place(c) /\ pc \in {1, 2, 3, 7, 9, 14, 15} /\ db.cols[c] # "missing"
      /\ pc' = pc + 1
  BY Steps, Places DEF CarryOver, FillNulls, JustAdded, Found, Next1
<1>1. Waiting(c) /\ Sound(db) /\ Whole(before) /\ db.cols[c] \in Column /\ Sound(before)
  BY DEF IInv, Cols, Shape, Sound, Database
<1>2. \E x \in {"default", "carried"} :
         /\ Execute([db EXCEPT !.cols = [db.cols EXCEPT ![c] = x]], "data")
         /\ c \in Carried => x = "carried" \/ (c = "role" /\ before.cols[c] \in {"null", "default"})
  <2>1. CASE CarryOver(c)
    <3>1. Execute([db EXCEPT !.cols = [db.cols EXCEPT ![c] = "carried"]], "data")
      BY <2>1 DEF CarryOver
    <3> QED BY <3>1
  <2>2. CASE FillNulls(c)
    <3> DEFINE x == IF db.cols[c] = "null" THEN "default" ELSE db.cols[c]
    <3>1. Execute([db EXCEPT !.cols = [db.cols EXCEPT ![c] = x]], "data")
      BY <2>2 DEF FillNulls
    <3>2. x \in {"default", "carried"}
      BY <1>0, <1>1 DEF Column
    <3>3. ~JustAdded(c) /\ c \in Filled /\ Found(c)
      BY <2>2 DEF FillNulls
    <3>4. ASSUME c \in Carried
          PROVE  x = "carried" \/ (c = "role" /\ before.cols[c] \in {"null", "default"})
      <4>1. c = "role"
        BY <3>3, <3>4 DEF Filled, Carried
      <4>2. before.cols[c] # "missing"
        BY <3>3, <3>4 DEF JustAdded
      <4>3. db.cols[c] = before.cols[c]
        BY <1>0, <1>1, <4>2 DEF Waiting
      <4>4. before.cols[c] \in {"null", "default", "carried"}
        BY <1>1, <4>2, <4>3 DEF Column
      <4>5. CASE before.cols[c] = "carried"
        BY <4>3, <4>5
      <4> QED BY <4>1, <4>4, <4>5
    <3> QED BY <3>1, <3>2, <3>4
  <2> QED BY <2>1, <2>2
<1>3. PICK x \in {"default", "carried"} :
         /\ Execute([db EXCEPT !.cols = [db.cols EXCEPT ![c] = x]], "data")
         /\ c \in Carried => x = "carried" \/ (c = "role" /\ before.cols[c] \in {"null", "default"})
  BY <1>2
<1>4. PICK new : new = [db EXCEPT !.cols = [db.cols EXCEPT ![c] = x]]
  OBVIOUS
<1>5. /\ Sound(new)
      /\ new.cols[c] = x /\ \A e \in Columns \ {c} : new.cols[e] = db.cols[e]
      /\ new.index = db.index /\ new.emailindex = db.emailindex /\ new.pattern = db.pattern
      /\ new.ondelete = db.ondelete /\ new.sessions = db.sessions
      /\ new.fingerprint = db.fingerprint
  BY <1>1, <1>4, WithColumn
<1>6. Execute(new, "data")
  BY <1>3, <1>4
<1>7. db' = new /\ UNCHANGED <<engine, cfg, before>>
  BY <1>6 DEF Execute, rest
<1>8. tx'
  BY <1>6, InTransaction
<1>9. Cols'
  BY <1>0, <1>3, <1>5, <1>7, ColumnPassed
<1>10. Indexes'
  BY <1>0, <1>5, <1>7, IndexesKept
<1>11. pc \in 1..15 /\ pc' \in {pc, pc + 1}
  BY <1>0
<1> QED BY <1>5, <1>6, <1>8, <1>9, <1>10, <1>11, Executed DEF IInv

LEMMA KeepColumnStep ==
    ASSUME IInv, NEW c \in Columns, KeepColumn(c)
    PROVE  IInv'
<1>1. pc = Place(c) /\ pc \in {1, 2, 3, 7, 9, 14, 15} /\ c \notin Filled
  BY Steps, Places DEF KeepColumn
<1>2. pc \in 2..15
  BY <1>1, Places, Kinds
<1>3. Skip /\ ~JustAdded(c) /\ db.cols[c] # "missing"
  BY DEF KeepColumn, Found
<1>4. pc' = pc + 1 /\ UNCHANGED <<db, engine, cfg, before>>
  BY <1>3 DEF Skip, Next1, rest
<1>5. db.cols[c] = before.cols[c]
  <2>1. Waiting(c) /\ pc \in 1..Place(c)
    BY <1>1 DEF IInv, Cols
  <2>2. ~(c \in Carried /\ before.cols[c] = "missing")
    BY <1>3 DEF JustAdded, Found
  <2> QED BY <2>1, <2>2 DEF Waiting
<1>6. db.cols[c] \in {"default", "carried"} /\ (c \in Carried => db.cols[c] = "carried")
  <2>1. db.cols[c] \in Column /\ db.cols[c] # "null"
    BY <1>1 DEF IInv, Shape, Sound, Database
  <2>2. c \in Carried => before.cols[c] \in {"missing", "carried"}
    BY <1>1 DEF IInv, Shape, Whole
  <2> QED BY <1>3, <1>5, <2>1, <2>2 DEF Column
<1>7. Cols'
  <2>1. db' = db /\ before' = before
    BY <1>4
  <2> QED BY <1>1, <1>4, <1>6, <2>1, ColumnPassed
<1>8. Indexes'
  BY <1>1, <1>4, IndexesKept
<1> QED BY <1>2, <1>3, <1>7, <1>8, Skipped
-----------------------------------------------------------------------------
(***************************************************************************)
(* The indexes, the constraints and the records                            *)
(***************************************************************************)
\* What a step at one of these has to show.
LEMMA Otherwise ==
    ASSUME IInv, pc \in {4, 5, 6, 8, 10, 11, 12, 13},
           \/ Skip /\ Indexes'
           \/ Stop
           \/ \E new, kind : /\ Execute(new, kind) /\ pc' = pc + 1
                             /\ Sound(new) /\ new.cols = db.cols /\ Indexes'
    PROVE  IInv'
<1>0. /\ pc \in 2..15 /\ pc \in 1..16 /\ \A c \in Columns : Place(c) # pc
  BY Places
<1>1. CASE Skip /\ Indexes'
  <2>1. pc' = pc + 1 /\ db' = db /\ before' = before
    BY <1>1 DEF Skip, Next1, rest
  <2>2. Cols'
    BY <1>0, <2>1, ColsKept
  <2> QED BY <1>0, <1>1, <2>2, Skipped
<1>2. CASE Stop
  BY <1>2, Stopped
<1>3. ASSUME NEW new, NEW kind, Execute(new, kind), pc' = pc + 1,
             Sound(new), new.cols = db.cols, Indexes'
      PROVE  IInv'
  <2>1. db' = new /\ before' = before
    BY <1>3 DEF Execute, rest
  <2>2. Cols'
    BY <1>0, <1>3, <2>1, ColsKept
  <2>3. tx' /\ pc \in 1..15 /\ pc' \in {pc, pc + 1}
    BY <1>0, <1>3, InTransaction
  <2> QED BY <1>3, <2>2, <2>3, Executed DEF IInv
<1> QED BY <1>1, <1>2, <1>3

LEMMA IndexStep ==
    ASSUME IInv, UsernameIndex \/ EmailIndex
    PROVE  IInv'
<1>0. Sound(db) /\ db \in Database
  BY DEF IInv, Shape, Sound
<1>1. CASE UsernameIndex
  <2>1. pc = 4
    BY <1>1, Steps DEF UsernameIndex
  <2>2. CASE db.index /\ Skip
    <3>1. Indexes'
      BY <2>1, <2>2 DEF Skip, Next1, rest, IInv, Indexes
    <3> QED BY <2>1, <2>2, <3>1, Otherwise
  <2>3. CASE ~Twice(db.names) /\ Execute([db EXCEPT !.index = TRUE], "schema") /\ Next1
    <3>1. PICK new : new = [db EXCEPT !.index = TRUE]
      OBVIOUS
    <3>2. /\ new \in Database /\ new.index /\ new.names = db.names /\ new.emails = db.emails
          /\ new.emailindex = db.emailindex /\ new.pattern = db.pattern
          /\ new.fingerprint = db.fingerprint /\ new.keys = db.keys /\ new.cols = db.cols
      BY <1>0, <3>1 DEF Database
    <3>3. Sound(new)
      BY <1>0, <2>3, <3>2 DEF Sound
    <3>4. db' = new /\ pc' = pc + 1 /\ before' = before
      BY <2>3, <3>1 DEF Execute, Next1, rest
    <3>5. Indexes'
      BY <2>1, <3>2, <3>4 DEF IInv, Indexes
    <3> QED BY <2>1, <2>3, <3>1, <3>2, <3>3, <3>4, <3>5, Otherwise
  <2>4. CASE Stop
    BY <2>1, <2>4, Otherwise
  <2> QED BY <1>1, <2>2, <2>3, <2>4 DEF UsernameIndex
<1>2. CASE EmailIndex
  <2>1. pc = 6
    BY <1>2, Steps DEF EmailIndex
  <2>2. CASE (~cfg \/ db.emailindex) /\ Skip
    <3>1. Indexes'
      BY <2>1, <2>2 DEF Skip, Next1, rest, IInv, Indexes
    <3> QED BY <2>1, <2>2, <3>1, Otherwise
  <2>3. CASE ~Twice(db.emails) /\ Execute([db EXCEPT !.emailindex = TRUE], "schema") /\ Next1
    <3>1. PICK new : new = [db EXCEPT !.emailindex = TRUE]
      OBVIOUS
    <3>2. /\ new \in Database /\ new.emailindex /\ new.names = db.names /\ new.emails = db.emails
          /\ new.index = db.index /\ new.pattern = db.pattern
          /\ new.fingerprint = db.fingerprint /\ new.keys = db.keys /\ new.cols = db.cols
      BY <1>0, <3>1 DEF Database
    <3>3. Sound(new)
      BY <1>0, <2>3, <3>2 DEF Sound
    <3>4. db' = new /\ pc' = pc + 1 /\ UNCHANGED <<engine, cfg, before>>
      BY <2>3, <3>1 DEF Execute, Next1, rest
    <3>5. Indexes'
      BY <2>1, <3>2, <3>4 DEF IInv, Indexes
    <3> QED BY <2>1, <2>3, <3>1, <3>2, <3>3, <3>4, <3>5, Otherwise
  <2>4. CASE Stop
    BY <2>1, <2>4, Otherwise
  <2> QED BY <1>2, <2>2, <2>3, <2>4 DEF EmailIndex, EmailIndexed
<1> QED BY <1>1, <1>2

\* SQLite makes the table again, and the index of the names is lost.
LEMMA PatternStep ==
    ASSUME IInv, UsernamePattern
    PROVE  IInv'
<1>0. Sound(db) /\ db \in Database
  BY DEF IInv, Shape, Sound
<1>1. pc = 5
  BY Steps DEF UsernamePattern
<1>2. CASE db.pattern /\ Skip
  <2>1. Indexes'
    BY <1>1, <1>2 DEF Skip, Next1, rest, IInv, Indexes
  <2> QED BY <1>1, <1>2, <2>1, Otherwise
<1>3. ASSUME ~db.pattern, RefusedNames(db.names) = {}, NEW kind, Execute(Recreated(db), kind), Next1
      PROVE  IInv'
  <2>1. PICK new : new = Recreated(db)
    OBVIOUS
  <2>2. /\ new \in Database /\ new.pattern /\ new.names = db.names /\ new.emails = db.emails
        /\ new.fingerprint = db.fingerprint /\ new.keys = db.keys /\ new.cols = db.cols
    BY <1>0, <2>1 DEF Recreated, Database
  <2>3. /\ new.index <=> (db.index /\ engine # "sqlite")
        /\ new.emailindex <=> (db.emailindex /\ engine # "sqlite")
    BY <1>0, <2>1 DEF Recreated, Database
  <2>4. \A u \in Users : db.names[u] \notin BadNames
    BY <1>3 DEF RefusedNames
  <2>5. Sound(new)
    BY <1>0, <2>2, <2>3, <2>4 DEF Sound
  <2>6. db' = new /\ pc' = pc + 1 /\ UNCHANGED <<engine, cfg, before>>
    BY <1>3, <2>1 DEF Execute, Next1, rest
  <2>7. db.index /\ ~before.pattern
    BY <1>1, <1>3 DEF IInv, Indexes
  <2>8. engine \in {"sqlite", "postgresql"}
    BY DEF IInv, Shape
  <2>9. Indexes'
    BY <1>1, <2>2, <2>3, <2>6, <2>7, <2>8 DEF Indexes
  <2> QED BY <1>1, <1>3, <2>1, <2>2, <2>5, <2>6, <2>9, Otherwise
<1>4. CASE Stop
  BY <1>1, <1>4, Otherwise
<1> QED BY <1>2, <1>3, <1>4 DEF UsernamePattern

LEMMA ConstraintStep ==
    ASSUME IInv, AuthorConstraint \/ SessionsTable \/ FingerprintIndex
    PROVE  IInv'
<1>0. Sound(db) /\ db \in Database
  BY DEF IInv, Shape, Sound
<1>1. CASE AuthorConstraint
  <2>1. pc = 8
    BY <1>1, Steps DEF AuthorConstraint
  <2>2. CASE db.ondelete /\ Skip
    <3>1. Indexes'
      BY <2>1, <2>2 DEF Skip, Next1, rest, IInv, Indexes
    <3> QED BY <2>1, <2>2, <3>1, Otherwise
  <2>3. ASSUME NEW kind, Execute([db EXCEPT !.ondelete = TRUE], kind), Next1 PROVE IInv'
    <3>1. PICK new : new = [db EXCEPT !.ondelete = TRUE]
      OBVIOUS
    <3>2. /\ new \in Database /\ new.ondelete /\ new.names = db.names /\ new.emails = db.emails
          /\ new.index = db.index /\ new.emailindex = db.emailindex /\ new.pattern = db.pattern
          /\ new.fingerprint = db.fingerprint /\ new.keys = db.keys /\ new.cols = db.cols
      BY <1>0, <3>1 DEF Database
    <3>3. Sound(new)
      BY <1>0, <3>2 DEF Sound
    <3>4. db' = new /\ pc' = pc + 1 /\ UNCHANGED <<engine, cfg, before>>
      BY <2>3, <3>1 DEF Execute, Next1, rest
    <3>5. Indexes'
      BY <2>1, <3>2, <3>4 DEF IInv, Indexes
    <3> QED BY <2>1, <2>3, <3>1, <3>2, <3>3, <3>4, <3>5, Otherwise
  <2> QED BY <1>1, <2>2, <2>3 DEF AuthorConstraint
<1>2. CASE SessionsTable
  <2>1. pc = 12
    BY <1>2, Steps DEF SessionsTable
  <2>2. CASE db.sessions /\ Skip
    <3>1. Indexes'
      BY <2>1, <2>2 DEF Skip, Next1, rest, IInv, Indexes
    <3> QED BY <2>1, <2>2, <3>1, Otherwise
  <2>3. CASE Execute([db EXCEPT !.sessions = TRUE], "schema") /\ Next1
    <3>1. PICK new : new = [db EXCEPT !.sessions = TRUE]
      OBVIOUS
    <3>2. /\ new \in Database /\ new.sessions /\ new.names = db.names /\ new.emails = db.emails
          /\ new.index = db.index /\ new.emailindex = db.emailindex /\ new.pattern = db.pattern
          /\ new.fingerprint = db.fingerprint /\ new.keys = db.keys /\ new.cols = db.cols
          /\ new.ondelete = db.ondelete
      BY <1>0, <3>1 DEF Database
    <3>3. Sound(new)
      BY <1>0, <3>2 DEF Sound
    <3>4. db' = new /\ pc' = pc + 1 /\ UNCHANGED <<engine, cfg, before>>
      BY <2>3, <3>1 DEF Execute, Next1, rest
    <3>5. Indexes'
      BY <2>1, <3>2, <3>4 DEF IInv, Indexes
    <3> QED BY <2>1, <2>3, <3>1, <3>2, <3>3, <3>4, <3>5, Otherwise
  <2> QED BY <1>2, <2>2, <2>3 DEF SessionsTable
<1>3. CASE FingerprintIndex
  <2>1. pc = 13
    BY <1>3, Steps DEF FingerprintIndex
  <2>2. CASE db.fingerprint /\ Skip
    <3>1. Indexes'
      BY <2>1, <2>2 DEF Skip, Next1, rest, IInv, Indexes
    <3> QED BY <2>1, <2>2, <3>1, Otherwise
  <2>3. CASE ~db.keys /\ Execute([db EXCEPT !.fingerprint = TRUE], "schema") /\ Next1
    <3>1. PICK new : new = [db EXCEPT !.fingerprint = TRUE]
      OBVIOUS
    <3>2. /\ new \in Database /\ new.fingerprint /\ new.names = db.names /\ new.emails = db.emails
          /\ new.index = db.index /\ new.emailindex = db.emailindex /\ new.pattern = db.pattern
          /\ new.keys = db.keys /\ new.cols = db.cols
          /\ new.ondelete = db.ondelete /\ new.sessions = db.sessions
      BY <1>0, <3>1 DEF Database
    <3>3. Sound(new)
      BY <1>0, <2>3, <3>2 DEF Sound
    <3>4. db' = new /\ pc' = pc + 1 /\ UNCHANGED <<engine, cfg, before>>
      BY <2>3, <3>1 DEF Execute, Next1, rest
    <3>5. Indexes'
      BY <2>1, <3>2, <3>4 DEF IInv, Indexes
    <3> QED BY <2>1, <2>3, <3>1, <3>2, <3>3, <3>4, <3>5, Otherwise
  <2>4. CASE Stop
    BY <2>1, <2>4, Otherwise
  <2> QED BY <1>3, <2>2, <2>3, <2>4 DEF FingerprintIndex
<1> QED BY <1>1, <1>2, <1>3

\* Whichever records of repositories are changed or removed.
LEMMA RecordsStep ==
    ASSUME IInv, StripSlashes \/ RemoveNested
    PROVE  IInv'
<1>0. Sound(db) /\ db \in Database /\ db.repos \in [Repos -> Repo \cup {Gone}]
  BY DEF IInv, Shape, Sound, Database
<1>1. pc \in {10, 11}
  BY Steps DEF StripSlashes, RemoveNested
<1>2. ASSUME NEW repos, repos \in [Repos -> Repo \cup {Gone}],
             \/ Skip
             \/ Execute([db EXCEPT !.repos = repos], "data") /\ Next1
      PROVE  IInv'
  <2>1. CASE Skip
    <3>1. Indexes'
      BY <1>1, <2>1, IndexesKept DEF Skip, Next1, rest
    <3> QED BY <1>1, <2>1, <3>1, Otherwise
  <2>2. CASE Execute([db EXCEPT !.repos = repos], "data") /\ Next1
    <3>1. PICK new : new = [db EXCEPT !.repos = repos]
      OBVIOUS
    <3>2. /\ new \in Database /\ new.names = db.names /\ new.emails = db.emails
          /\ new.index = db.index /\ new.emailindex = db.emailindex /\ new.pattern = db.pattern
          /\ new.fingerprint = db.fingerprint /\ new.keys = db.keys /\ new.cols = db.cols
          /\ new.ondelete = db.ondelete /\ new.sessions = db.sessions
      BY <1>0, <1>2, <3>1 DEF Database
    <3>3. Sound(new)
      BY <1>0, <3>2 DEF Sound
    <3>4. db' = new /\ pc' = pc + 1 /\ UNCHANGED <<engine, cfg, before>>
      BY <2>2, <3>1 DEF Execute, Next1, rest
    <3>5. Indexes'
      BY <1>1, <3>2, <3>4, IndexesKept
    <3> QED BY <1>1, <2>2, <3>1, <3>2, <3>3, <3>4, <3>5, Otherwise
  <2> QED BY <1>2, <2>1, <2>2
<1>3. CASE StripSlashes
  <2> DEFINE clean(x) == IF x = Gone THEN x ELSE [x EXCEPT !.clean = TRUE]
             repos == [i \in Repos |-> clean(db.repos[i])]
  <2>1. \A x \in Repo \cup {Gone} : clean(x) \in Repo \cup {Gone}
    BY DEF Repo
  <2>2. repos \in [Repos -> Repo \cup {Gone}]
    BY <1>0, <2>1
  <2>3. Skip \/ (Execute([db EXCEPT !.repos = repos], "data") /\ Next1)
    BY <1>3 DEF StripSlashes
  <2> HIDE DEF repos
  <2> QED BY <1>2, <2>2, <2>3
<1>4. CASE RemoveNested
  <2>1. PICK s \in Sorted(db.repos) : \E kept \in Kept(db.repos, s) :
           LET stay == {s[a] : a \in kept}
               new  == [db EXCEPT !.repos = [i \in Repos |-> IF i \in stay THEN db.repos[i] ELSE Gone]]
           IN IF new = db THEN Skip ELSE Execute(new, "data") /\ Next1
    BY <1>4 DEF RemoveNested
  <2> PICK kept \in Kept(db.repos, s) :
           LET stay == {s[a] : a \in kept}
               new  == [db EXCEPT !.repos = [i \in Repos |-> IF i \in stay THEN db.repos[i] ELSE Gone]]
           IN IF new = db THEN Skip ELSE Execute(new, "data") /\ Next1
    BY <2>1
  <2> DEFINE repos == [i \in Repos |-> IF i \in {s[a] : a \in kept} THEN db.repos[i] ELSE Gone]
  <2>2. repos \in [Repos -> Repo \cup {Gone}]
    BY <1>0
  <2>3. Skip \/ (Execute([db EXCEPT !.repos = repos], "data") /\ Next1)
    OBVIOUS
  <2> HIDE DEF repos
  <2> QED BY <1>2, <2>2, <2>3
<1> QED BY <1>3, <1>4
\* When all is committed every carried column has its values.
LEMMA CommitStep ==
    ASSUME IInv, Commit
    PROVE  IInv'
<1>0. pc = 16 /\ pc' = pc + 1
  BY Steps DEF Commit, Next1
<1>1. pc = 16 /\ pc' = 17
  BY <1>0
<1>2. db' = db /\ saved' = db /\ tx' = FALSE /\ UNCHANGED <<engine, cfg, before>>
  BY DEF Commit
<1>3. Whole(db)
  <2> SUFFICES ASSUME NEW c \in Carried \ Filled PROVE db.cols[c] \in {"missing", "carried"}
    BY DEF Whole
  <2>1. c \in Columns /\ c # "role" /\ pc > Place(c)
    BY <1>1, Kinds, Places
  <2> QED BY <2>1 DEF IInv, Cols, Passed
<1>4. Cols'
  <2>1. db'.cols = db.cols /\ \A c \in Columns : Place(c) # pc
    BY <1>1, <1>2, Places
  <2> QED BY <1>1, <1>2, <2>1, ColsKept
<1>5. Indexes'
  BY <1>1, <1>2, IndexesKept
<1>6. Open'
  BY <1>1, <1>2 DEF Open
<1>7. Shape'
  <2>1. tx' \in BOOLEAN
    BY <1>2
  <2>2. Sound(db)' /\ Sound(saved)' /\ Sound(before)' /\ Whole(saved)' /\ Whole(before)'
    BY <1>2, <1>3 DEF IInv, Shape, Sound, Whole
  <2> QED BY <1>1, <1>2, <2>1, <2>2 DEF IInv, Shape
<1> QED BY <1>4, <1>5, <1>6, <1>7 DEF IInv

-----------------------------------------------------------------------------
(***************************************************************************)
(* The server                                                              *)
(***************************************************************************)
LEMMA StartStep ==
    ASSUME IInv, NEW email \in BOOLEAN, Start(email)
    PROVE  IInv'
<1>1. /\ pc = 0 /\ pc' = 1 /\ cfg' = email /\ before' = saved
      /\ UNCHANGED <<engine, saved, db, tx>>
  BY DEF Start
<1>2. db = saved
  BY <1>1 DEF IInv, Open
<1>3. Cols'
  <2>1. ASSUME NEW c \in Columns PROVE Waiting(c)' /\ Passed(c)'
    <3>1. ~(pc' > Place(c))
      BY <1>1, Places
    <3> QED BY <1>1, <1>2, <3>1 DEF Waiting, Passed
  <2> QED BY <2>1 DEF Cols
<1>4. Indexes'
  BY <1>1, <1>2 DEF Indexes
<1>5. Open'
  BY <1>1 DEF IInv, Open
<1>6. Shape'
  <2>1. Sound(db)' /\ Sound(saved)' /\ Sound(before)' /\ Whole(saved)' /\ Whole(before)'
    BY <1>1 DEF IInv, Shape, Sound, Whole
  <2> QED BY <1>1, <2>1 DEF IInv, Shape
<1> QED BY <1>3, <1>4, <1>5, <1>6 DEF IInv

\* What users do while the server serves: the columns and the indexes stay.
LEMMA Edited ==
    ASSUME IInv, NEW new, Edit(new), Sound(new), new.cols = db.cols,
           new.index = db.index, new.emailindex = db.emailindex, new.pattern = db.pattern,
           new.ondelete = db.ondelete, new.sessions = db.sessions,
           new.fingerprint = db.fingerprint
    PROVE  IInv'
<1>1. /\ pc = 17 /\ pc' = 17 /\ db' = new /\ saved' = new
      /\ UNCHANGED <<engine, tx, cfg, before>>
  BY Script16 DEF Edit
<1>2. db = saved
  BY <1>1 DEF IInv, Open
<1>3. Cols'
  BY <1>1 DEF IInv, Cols, Waiting, Passed
<1>4. Indexes'
  BY <1>1 DEF IInv, Indexes
<1>5. Open'
  BY <1>1 DEF IInv, Open
<1>6. Shape'
  <2>1. Sound(db)' /\ Sound(saved)' /\ Sound(before)' /\ Whole(saved)' /\ Whole(before)'
    BY <1>1, <1>2 DEF IInv, Shape, Sound, Whole
  <2> QED BY <1>1, <2>1 DEF IInv, Shape
<1> QED BY <1>3, <1>4, <1>5, <1>6 DEF IInv

\* One user more with a name or an address is no duplicate if nobody has it.
LEMMA NotTwice ==
    ASSUME NEW f, NEW g, NEW u \in Users, NEW x, ~Twice(f),
           \A v \in Users : f[v] # x,
           g[u] = x, \A v \in Users \ {u} : g[v] = f[v]
    PROVE  ~Twice(g)
BY DEF Twice

LEMMA EditStep ==
    ASSUME IInv, NEW u \in Users,
           \/ \E n \in Names : AddUser(u, n)
           \/ \E e \in Emails : SetEmail(u, e)
           \/ \E i \in Repos, p \in ToSet(Paths) : AddRepo(i, u, p)
    PROVE  IInv'
<1>0. Sound(db) /\ db \in Database
  BY DEF IInv, Shape, Sound
<1>1. ASSUME NEW n \in Names, AddUser(u, n) PROVE IInv'
  <2>1. PICK names : names = [db.names EXCEPT ![u] = n]
    OBVIOUS
  <2>2. PICK new : new = [db EXCEPT !.names = names]
    OBVIOUS
  <2>3. /\ names \in [Users -> Names \cup {""}]
        /\ names[u] = n /\ \A v \in Users \ {u} : names[v] = db.names[v]
    BY <1>0, <2>1 DEF Database
  <2>4. /\ new \in Database /\ new.names = names /\ new.emails = db.emails
        /\ new.index = db.index /\ new.emailindex = db.emailindex /\ new.pattern = db.pattern
        /\ new.fingerprint = db.fingerprint /\ new.keys = db.keys /\ new.cols = db.cols
        /\ new.ondelete = db.ondelete /\ new.sessions = db.sessions
    BY <1>0, <2>2, <2>3 DEF Database
  <2>5. Edit(new)
    BY <1>1, <2>1, <2>2 DEF AddUser
  <2>6. new.index => ~Twice(new.names)
    <3> SUFFICES ASSUME new.index PROVE ~Twice(names)
      BY <2>4
    <3>1. ~Twice(db.names)
      BY <1>0, <2>4 DEF Sound
    <3>2. \A v \in Users : db.names[v] # n
      BY <1>1, <2>4 DEF AddUser
    <3>3. PICK f : f = db.names
      OBVIOUS
    <3>4. ~Twice(f) /\ (\A v \in Users : f[v] # n) /\ \A v \in Users \ {u} : names[v] = f[v]
      BY <2>3, <3>1, <3>2, <3>3
    <3> QED BY <2>3, <3>4, NotTwice
  <2>7. new.pattern => \A v \in Users : new.names[v] \notin BadNames
    BY <1>0, <1>1, <2>3, <2>4 DEF AddUser, Sound
  <2>8. Sound(new)
    BY <1>0, <2>4, <2>6, <2>7 DEF Sound
  <2> QED BY <2>4, <2>5, <2>8, Edited
<1>2. ASSUME NEW e \in Emails, SetEmail(u, e) PROVE IInv'
  <2>1. PICK emails : emails = [db.emails EXCEPT ![u] = e]
    OBVIOUS
  <2>2. PICK new : new = [db EXCEPT !.emails = emails]
    OBVIOUS
  <2>3. /\ emails \in [Users -> Emails \cup {""}]
        /\ emails[u] = e /\ \A v \in Users \ {u} : emails[v] = db.emails[v]
    BY <1>0, <2>1 DEF Database
  <2>4. /\ new \in Database /\ new.emails = emails /\ new.names = db.names
        /\ new.index = db.index /\ new.emailindex = db.emailindex /\ new.pattern = db.pattern
        /\ new.fingerprint = db.fingerprint /\ new.keys = db.keys /\ new.cols = db.cols
        /\ new.ondelete = db.ondelete /\ new.sessions = db.sessions
    BY <1>0, <2>2, <2>3 DEF Database
  <2>5. Edit(new)
    BY <1>2, <2>1, <2>2 DEF SetEmail
  <2>6. new.emailindex => ~Twice(new.emails)
    <3> SUFFICES ASSUME new.emailindex PROVE ~Twice(emails)
      BY <2>4
    <3>1. ~Twice(db.emails)
      BY <1>0, <2>4 DEF Sound
    <3>2. \A v \in Users : db.emails[v] # e
      BY <1>2, <2>4 DEF SetEmail
    <3>3. PICK f : f = db.emails
      OBVIOUS
    <3>4. ~Twice(f) /\ (\A v \in Users : f[v] # e) /\ \A v \in Users \ {u} : emails[v] = f[v]
      BY <2>3, <3>1, <3>2, <3>3
    <3> QED BY <2>3, <3>4, NotTwice
  <2>7. Sound(new)
    BY <1>0, <2>4, <2>6 DEF Sound
  <2> QED BY <2>4, <2>5, <2>7, Edited
<1>3. ASSUME NEW i \in Repos, NEW p \in ToSet(Paths), AddRepo(i, u, p) PROVE IInv'
  <2>1. PICK repos : repos = [db.repos EXCEPT ![i] = [user |-> u, path |-> p, clean |-> TRUE]]
    OBVIOUS
  <2>2. PICK new : new = [db EXCEPT !.repos = repos]
    OBVIOUS
  <2>3. repos \in [Repos -> Repo \cup {Gone}]
    <3>1. [user |-> u, path |-> p, clean |-> TRUE] \in Repo
      BY DEF Repo
    <3>2. db.repos \in [Repos -> Repo \cup {Gone}]
      BY <1>0 DEF Database
    <3> QED BY <2>1, <3>1, <3>2
  <2>4. /\ new \in Database /\ new.emails = db.emails /\ new.names = db.names
        /\ new.index = db.index /\ new.emailindex = db.emailindex /\ new.pattern = db.pattern
        /\ new.fingerprint = db.fingerprint /\ new.keys = db.keys /\ new.cols = db.cols
        /\ new.ondelete = db.ondelete /\ new.sessions = db.sessions
    BY <1>0, <2>2, <2>3 DEF Database
  <2>5. Edit(new)
    BY <1>3, <2>1, <2>2 DEF AddRepo
  <2>6. Sound(new)
    BY <1>0, <2>4 DEF Sound
  <2> QED BY <2>4, <2>5, <2>6, Edited
<1> QED BY <1>1, <1>2, <1>3

LEMMA UpdateStep == IInv /\ [Next]_vars => IInv'
<1> SUFFICES ASSUME IInv, [Next]_vars PROVE IInv'
  OBVIOUS
<1>1. ASSUME NEW c \in Columns, AddColumn(c) \/ CarryOver(c) \/ FillNulls(c) \/ KeepColumn(c)
      PROVE  IInv'
  BY <1>1, AddColumnStep, FillStep, KeepColumnStep
<1>2. CASE UsernameIndex \/ EmailIndex \/ UsernamePattern \/ Commit
  BY <1>2, IndexStep, PatternStep, CommitStep
<1>3. CASE AuthorConstraint \/ SessionsTable \/ FingerprintIndex
  BY <1>3, ConstraintStep
<1>4. CASE StripSlashes \/ RemoveNested
  BY <1>4, RecordsStep
<1>5. CASE Kill
  BY <1>5, Stopped DEF Kill
<1>6. ASSUME NEW email \in BOOLEAN, Start(email) PROVE IInv'
  BY <1>6, StartStep
<1>7. ASSUME NEW u \in Users,
             \/ \E n \in Names : AddUser(u, n)
             \/ \E e \in Emails : SetEmail(u, e)
             \/ \E i \in Repos, p \in ToSet(Paths) : AddRepo(i, u, p)
      PROVE  IInv'
  BY <1>7, EditStep
<1>8. CASE UNCHANGED vars
  <2>1. UNCHANGED <<engine, saved, db, tx, pc, cfg, before>>
    BY <1>8 DEF vars
  <2>2. Shape'
    BY <2>1 DEF IInv, Shape, Sound, Whole
  <2>3. Cols'
    BY <2>1 DEF IInv, Cols, Waiting, Passed
  <2> QED BY <2>1, <2>2, <2>3 DEF IInv, Open, Indexes
<1> QED BY <1>1, <1>2, <1>3, <1>4, <1>5, <1>6, <1>7, <1>8 DEF Next, Update

LEMMA NotStarted == ASSUME pc = 0 PROVE Cols /\ Indexes /\ pc \in 0..17 /\ pc \notin 2..16
<1>1. ASSUME NEW c \in Columns PROVE pc \notin 1..Place(c) /\ ~(pc > Place(c))
  <2>1. Place(c) \in {1, 2, 3, 7, 9, 14, 15}
    BY Places
  <2> QED BY <2>1
<1>2. Cols
  BY <1>1, Zenon DEF Cols, Waiting, Passed
<1>3. /\ pc \notin 2..16 /\ pc \notin 1..5 /\ pc # 5 /\ ~(pc > 5) /\ ~(pc > 6) /\ ~(pc > 8)
      /\ ~(pc > 12) /\ ~(pc > 13)
  OBVIOUS
<1>4. Indexes
  BY <1>3, Zenon DEF Indexes
<1> QED BY <1>2, <1>3, <1>4

\* A database of an older version keeps to what that version enforced.
LEMMA LegacySound == ASSUME Init PROVE Sound(saved) /\ Whole(saved)
<1>1. PICK v \in Versions : \E old \in Legacy(v) :
          saved = [v EXCEPT !.names = old.names, !.emails = old.emails, !.keys = old.keys]
  BY DEF Init
<1>2. PICK old \in Legacy(v) :
          saved = [v EXCEPT !.names = old.names, !.emails = old.emails, !.keys = old.keys]
  BY <1>1
<1>3. /\ v \in Database
      /\ \A c \in Columns : v.cols[c] = "null" => c \in Filled
      /\ Whole(v)
  BY VersionsAssumption DEF VersionsAssumption, Whole
<1>4. /\ old.names \in [Users -> Names \cup {""}] /\ (v.index => ~Twice(old.names))
      /\ v.pattern => \A u \in Users : old.names[u] \notin BadNames
  BY DEF Legacy
<1>5. old.emails \in [Users -> Emails \cup {""}] /\ (v.emailindex => ~Twice(old.emails))
  BY DEF Legacy
<1>6. old.keys \in BOOLEAN /\ (v.fingerprint => ~old.keys)
  BY DEF Legacy
<1>7. PICK n, e, k : n = old.names /\ e = old.emails /\ k = old.keys
  OBVIOUS
<1>8. /\ saved \in Database /\ saved.names = n /\ saved.emails = e /\ saved.keys = k
      /\ saved.cols = v.cols /\ saved.index = v.index /\ saved.emailindex = v.emailindex
      /\ saved.pattern = v.pattern /\ saved.fingerprint = v.fingerprint
  BY <1>2, <1>3, <1>4, <1>5, <1>6, <1>7 DEF Database
<1> QED BY <1>3, <1>4, <1>5, <1>6, <1>7, <1>8 DEF Sound, Whole

LEMMA Inductive == Spec => []IInv
<1>1. Init => IInv
  <2> SUFFICES ASSUME Init PROVE IInv
    OBVIOUS
  <2>1. pc = 0
    BY DEF Init
  <2>2. /\ db = saved /\ before = saved /\ engine \in {"sqlite", "postgresql"}
        /\ tx = FALSE /\ cfg = FALSE
    BY DEF Init
  <2>3. tx \in BOOLEAN /\ cfg \in BOOLEAN /\ ~tx
    BY <2>2, Zenon
  <2>4. Sound(db) /\ Sound(before) /\ Whole(before)
    BY <2>2, LegacySound, Zenon
  <2>5. pc \in 0..17 /\ pc \notin 2..16 /\ Cols /\ Indexes
    BY <2>1, NotStarted
  <2>6. Sound(saved) /\ Whole(saved)
    BY LegacySound
  <2>7. Shape
    BY <2>2, <2>3, <2>4, <2>5, <2>6 DEF Shape
  <2>8. Open
    BY <2>2, <2>3, <2>5 DEF Open
  <2> QED BY <2>5, <2>7, <2>8 DEF IInv
<1> QED BY <1>1, UpdateStep, PTL DEF Spec

\* The tables and the connection of the update keep their types, and nothing is left
\* half-way when the update is over or the server has stopped.
THEOREM TypeInvariant == Spec => []TypeOK
<1>1. IInv => TypeOK
  BY Script16 DEF IInv, Shape, Open, Sound, TypeOK
<1> QED BY <1>1, Inductive, PTL

\* A server that serves has the columns, the indexes of the keys and the constraints,
\* of whatever version the database was and wherever earlier starts were killed.
THEOREM Updated == Spec => []ServedIsUpdated
<1>1. IInv => ServedIsUpdated
  <2> SUFFICES ASSUME IInv, pc = 17
               PROVE  /\ \A c \in Columns : db.cols[c] \in {"default", "carried"}
                      /\ db.pattern /\ db.ondelete /\ db.sessions /\ db.fingerprint /\ ~db.keys
                      /\ \A u \in Users : db.names[u] \notin BadNames
    BY Script16 DEF ServedIsUpdated
  <2>1. ASSUME NEW c \in Columns PROVE db.cols[c] \in {"default", "carried"}
    <3>1. pc > Place(c)
      BY Places
    <3> QED BY <3>1 DEF IInv, Cols, Passed
  <2>2. db.pattern /\ db.ondelete /\ db.sessions /\ db.fingerprint
    BY DEF IInv, Indexes
  <2> QED BY <2>1, <2>2 DEF IInv, Shape, Sound
<1> QED BY <1>1, Inductive, PTL

\* Addresses that log somebody in are unique, and so are names, but for the start in
\* which SQLite lost their index.
THEOREM Unique == Spec => []UniqueWhenServing
<1>1. IInv => UniqueWhenServing
  <2> SUFFICES ASSUME IInv, pc = 17
               PROVE  /\ cfg => ~Twice(db.emails)
                      /\ Twice(db.names) => engine = "sqlite" /\ ~before.pattern
    BY Script16 DEF UniqueWhenServing
  <2>1. (cfg => db.emailindex) /\ (db.index \/ (engine = "sqlite" /\ ~before.pattern))
    BY DEF IInv, Indexes
  <2> QED BY <2>1 DEF IInv, Shape, Sound
<1> QED BY <1>1, Inductive, PTL

\* No start leaves a column that was added without the values of the older ones, but
\* for the role of a database that an earlier start left so.
THEOREM AllCarriedOver == Spec => []CarriedOver
<1>1. IInv => CarriedOver
  <2> SUFFICES ASSUME IInv, pc = 17, NEW c \in Carried
               PROVE  db.cols[c] = "carried" \/ (c = "role" /\ before.cols[c] \in {"null", "default"})
    BY Script16 DEF CarriedOver
  <2>1. c \in Columns /\ pc > Place(c)
    BY Kinds, Places
  <2> QED BY <2>1 DEF IInv, Cols, Passed
<1> QED BY <1>1, Inductive, PTL

-----------------------------------------------------------------------------
(***************************************************************************)
(* Removing nested repositories                                            *)
(***************************************************************************)
Present(repos) == {i \in Repos : repos[i] # Gone}
Records == [Repos -> Repo \cup {Gone}]

\* Of what a database has, the removal leaves nothing to be removed: a record that is
\* covered has another of the same user in between.
Settled(repos) ==
    \A i, j \in Present(repos) :
        i # j /\ Covers(repos[i], repos[j]) =>
            \E k \in Present(repos) :
                /\ repos[k].user = repos[j].user
                /\ Position(repos[i]) < Position(repos[k])
                /\ Position(repos[k]) < Position(repos[j])

Distinct(repos) ==
    \A i, j \in Present(repos) :
        i # j => repos[i].user # repos[j].user \/ repos[i].path # repos[j].path

LEMMA Positions ==
    ASSUME NEW x \in Repo
    PROVE  Position(x) \in DOMAIN Paths /\ Position(x) \in Nat /\ Paths[Position(x)] = x.path
<1>1. x.path \in ToSet(Paths)
  BY DEF Repo
<1>2. \E i \in DOMAIN Paths : Paths[i] = x.path
  BY <1>1 DEF ToSet
<1>3. Position(x) \in DOMAIN Paths /\ Paths[Position(x)] = x.path
  BY <1>2 DEF Position
<1>4. Paths \in Seq(ToSet(Paths))
  BY PathsAssumption DEF PathsAssumption
<1>5. DOMAIN Paths = 1..Len(Paths) /\ Len(Paths) \in Nat
  BY <1>4
<1> QED BY <1>3, <1>5

LEMMA Order ==
    ASSUME NEW x \in Repo, NEW y \in Repo
    PROVE  /\ x.path = y.path <=> Position(x) = Position(y)
           /\ <<x.path, y.path>> \in Below => Position(x) < Position(y)
           /\ Covers(x, y) => x.user = y.user /\ Position(x) <= Position(y)
<1>1. /\ Position(x) \in DOMAIN Paths /\ Position(x) \in Nat /\ Paths[Position(x)] = x.path
      /\ Position(y) \in DOMAIN Paths /\ Position(y) \in Nat /\ Paths[Position(y)] = y.path
  BY Positions
<1>2. \A a, b \in DOMAIN Paths : Paths[a] = Paths[b] => a = b
  BY PathsAssumption DEF PathsAssumption, IsInjective
<1>3. x.path = y.path <=> Position(x) = Position(y)
  <2>1. x.path = y.path => Position(x) = Position(y)
    BY <1>1, <1>2
  <2>2. Position(x) = Position(y) => x.path = y.path
    BY <1>1
  <2> QED BY <2>1, <2>2
<1>4. ASSUME <<x.path, y.path>> \in Below PROVE Position(x) < Position(y)
  <2>1. PICK i \in DOMAIN Paths, j \in DOMAIN Paths : <<x.path, y.path>> = <<Paths[i], Paths[j]>> /\ i < j
    BY <1>4, PathsAssumption DEF PathsAssumption
  <2>2. x.path = Paths[i] /\ y.path = Paths[j]
    BY <2>1
  <2>3. Position(x) = i /\ Position(y) = j
    BY <1>1, <1>2, <2>2
  <2> QED BY <2>1, <2>3
<1> QED BY <1>1, <1>3, <1>4 DEF Covers

\* The sorted list has each record once.
LEMMA Listed ==
    ASSUME NEW repos \in Records, NEW s \in Sorted(repos)
    PROVE  /\ \E n \in Nat : DOMAIN s = 1..n
           /\ \A a \in DOMAIN s : s[a] \in Present(repos)
           /\ \A a, b \in DOMAIN s : s[a] = s[b] => a = b
           /\ \A i \in Present(repos) : \E a \in DOMAIN s : s[a] = i
<1> DEFINE S == Present(repos)
           D == 1..Cardinality(S)
<1>1. IsFiniteSet(S)
  BY ReposAssumption, FS_Subset DEF Present, ReposAssumption
<1>2. Cardinality(S) \in Nat
  BY <1>1, FS_CardinalityType
<1>3. s \in [D -> S] /\ \A i, j \in D : i # j => s[i] # s[j]
  BY DEF Sorted, SetToSeqs, Present
<1>4. IsFiniteSet(D) /\ Cardinality(D) = Cardinality(S)
  BY <1>2, FS_Interval
<1>5. s \in Injection(D, S)
  BY <1>3 DEF Injection, IsInjective
<1>6. s \in Surjection(D, S)
  <2> HIDE DEF S, D
  <2> QED BY <1>1, <1>4, <1>5, FS_Injection
<1>7. \A i \in S : \E a \in D : s[a] = i
  BY <1>6 DEF Surjection
<1> QED BY <1>2, <1>3, <1>7

\* A set of positions has a first, and those before a place have a last.
LEMMA First ==
    ASSUME NEW T \in SUBSET Nat, T # {}
    PROVE  \E x \in T : \A y \in T : x <= y
<1> DEFINE R == OpToRel(<, Nat)
<1>1. IsWellFoundedOn(R, Nat)
  BY NatLessThanWellFounded
<1>2. \A x, y \in Nat : <<y, x>> \in R <=> y < x
  BY DEF OpToRel
<1> HIDE DEF R
<1>3. PICK x \in T : \A y \in T : ~(<<y, x>> \in R)
  BY <1>1, WFMin
<1>4. \A y \in T : ~(y < x)
  BY <1>2, <1>3, Zenon
<1>5. \A y \in T : y \in Nat /\ x \in Nat
  OBVIOUS
<1> QED BY <1>4, <1>5

LEMMA LastBefore ==
    ASSUME NEW n \in Nat, NEW T \in SUBSET (1..n), NEW b \in 1..n, NEW a \in T, a < b
    PROVE  \E c \in T : a <= c /\ c < b /\ \A d \in T : d < b => d <= c
<1> DEFINE U == {m \in Nat : \E d \in T : d < b /\ m = b - d}
<1>1. b - a \in U
  OBVIOUS
<1>2. PICK m \in U : \A y \in U : m <= y
  BY <1>1, First
<1>3. PICK c \in T : c < b /\ m = b - c
  OBVIOUS
<1>4. \A d \in T : d < b => b - d \in U
  OBVIOUS
<1> HIDE DEF U
<1>5. \A d \in T : d < b => d <= c
  BY <1>2, <1>3, <1>4
<1> QED BY <1>3, <1>5

\* Two records that were kept, in the order of the list: others of their user are
\* the only ones in between, and the one kept last before the second does not cover it.
LEMMA KeptPair ==
    ASSUME NEW repos \in Records, NEW s \in Sorted(repos), NEW kept \in Kept(repos, s),
           NEW a \in kept, NEW b \in kept, a < b, repos[s[a]].user = repos[s[b]].user
    PROVE  \E c \in kept :
              /\ a <= c /\ c < b /\ ~Covers(repos[s[c]], repos[s[b]])
              /\ repos[s[c]].user = repos[s[b]].user
              /\ Position(repos[s[a]]) <= Position(repos[s[c]])
              /\ Position(repos[s[c]]) <= Position(repos[s[b]])
<1>1. PICK n \in Nat : DOMAIN s = 1..n
  BY Listed
<1>2. kept \in SUBSET (1..n)
  BY <1>1 DEF Kept
<1>3. PICK c \in kept : a <= c /\ c < b /\ \A d \in kept : d < b => d <= c
  BY <1>1, <1>2, LastBefore
<1>4. ~Covers(repos[s[c]], repos[s[b]])
  BY <1>1, <1>2, <1>3 DEF Kept
<1>5. \A x, y \in DOMAIN s : x < y /\ repos[s[x]].user = repos[s[y]].user
         => /\ Position(repos[s[x]]) <= Position(repos[s[y]])
            /\ \A z \in x..y : repos[s[z]].user = repos[s[x]].user
  BY DEF Sorted
<1>6. repos[s[c]].user = repos[s[a]].user
  <2>1. c \in a..b /\ a \in DOMAIN s /\ b \in DOMAIN s
    BY <1>1, <1>2, <1>3
  <2> QED BY <1>5, <2>1
<1>7. Position(repos[s[a]]) \in Nat
  BY <1>1, <1>2, Listed, Positions DEF Present, Records
<1>8. a \in DOMAIN s /\ b \in DOMAIN s /\ c \in DOMAIN s /\ (a < c \/ a = c)
  BY <1>1, <1>2, <1>3
<1>9. Position(repos[s[a]]) <= Position(repos[s[c]])
  <2>1. CASE a < c
    BY <1>5, <1>6, <1>8, <2>1
  <2>2. CASE a = c
    BY <1>7, <2>2
  <2> QED BY <1>8, <2>1, <2>2
<1>10. Position(repos[s[c]]) <= Position(repos[s[b]])
  BY <1>3, <1>5, <1>6, <1>8
<1> QED BY <1>3, <1>4, <1>6, <1>9, <1>10

\* What a removal leaves.
Left(repos, s, kept) == [i \in Repos |-> IF i \in {s[a] : a \in kept} THEN repos[i] ELSE Gone]

LEMMA AfterRemoval ==
    ASSUME NEW repos \in Records, NEW s \in Sorted(repos), NEW kept \in Kept(repos, s),
           NEW new, new = Left(repos, s, kept)
    PROVE  /\ new \in Records
           /\ Distinct(new)
           /\ Settled(new)
           /\ \A i \in Present(new) : i \in Present(repos) /\ new[i] = repos[i]
           /\ \A i \in Present(repos) \ Present(new) :
                 \E j \in Present(new) : Covers(repos[j], repos[i])
<1>1. PICK n \in Nat : DOMAIN s = 1..n
  BY Listed
<1>2. kept \in SUBSET (1..n)
  BY <1>1 DEF Kept
<1>3. new \in Records
  BY DEF Records, Left
<1>4. \A i \in Present(new) : i \in Present(repos) /\ new[i] = repos[i] /\ \E a \in kept : s[a] = i
  BY DEF Present, Left
<1>5. \A a \in kept : s[a] \in Present(new) /\ new[s[a]] = repos[s[a]]
  BY <1>1, <1>2, Listed DEF Present, Left
<1>6. \A i \in Present(repos) : i \in Repos /\ repos[i] \in Repo
  BY DEF Present, Records
<1>7. ASSUME NEW a \in kept, NEW b \in kept, repos[s[a]].user = repos[s[b]].user,
             Position(repos[s[a]]) <= Position(repos[s[b]]), s[a] # s[b]
      PROVE  Position(repos[s[a]]) # Position(repos[s[b]])
  <2>1. ASSUME NEW d \in kept, NEW e \in kept, d < e, repos[s[d]].user = repos[s[e]].user
        PROVE  Position(repos[s[d]]) # Position(repos[s[e]])
    <3>1. PICK c \in kept :
              /\ ~Covers(repos[s[c]], repos[s[e]])
              /\ repos[s[c]].user = repos[s[e]].user
              /\ Position(repos[s[d]]) <= Position(repos[s[c]])
              /\ Position(repos[s[c]]) <= Position(repos[s[e]])
      BY <2>1, KeptPair
    <3>2. repos[s[c]] \in Repo /\ repos[s[d]] \in Repo /\ repos[s[e]] \in Repo
      BY <1>4, <1>5, <1>6
    <3>3. repos[s[c]].path # repos[s[e]].path
      BY <3>1 DEF Covers
    <3>4. Position(repos[s[c]]) # Position(repos[s[e]])
      BY <3>2, <3>3, Order
    <3>5. Position(repos[s[c]]) \in Nat /\ Position(repos[s[d]]) \in Nat /\ Position(repos[s[e]]) \in Nat
      BY <3>2, Positions
    <3> QED BY <3>1, <3>4, <3>5
  <2>2. a \in Nat /\ b \in Nat /\ (a < b \/ b < a)
    BY <1>2, <1>7
  <2> QED BY <1>7, <2>1, <2>2
<1>8. Distinct(new)
  <2> SUFFICES ASSUME NEW i \in Present(new), NEW j \in Present(new), i # j,
                      new[i].user = new[j].user, new[i].path = new[j].path
               PROVE  FALSE
    BY DEF Distinct
  <2>1. PICK a \in kept, b \in kept : s[a] = i /\ s[b] = j
    BY <1>4
  <2>2. repos[i] \in Repo /\ repos[j] \in Repo /\ new[i] = repos[i] /\ new[j] = repos[j]
    BY <1>4, <1>6
  <2>3. Position(repos[i]) = Position(repos[j]) /\ Position(repos[i]) \in Nat
    <3>1. repos[i].path = repos[j].path
      BY <2>2
    <3>2. Position(repos[i]) = Position(repos[j])
      BY <2>2, <3>1, Order
    <3> QED BY <2>2, <3>2, Positions
  <2> QED BY <1>7, <2>1, <2>2, <2>3
<1>9. Settled(new)
  <2> SUFFICES ASSUME NEW i \in Present(new), NEW j \in Present(new), i # j,
                      Covers(new[i], new[j])
               PROVE  \E k \in Present(new) :
                         /\ new[k].user = new[j].user
                         /\ Position(new[i]) < Position(new[k])
                         /\ Position(new[k]) < Position(new[j])
    BY DEF Settled
  <2>1. PICK a \in kept, b \in kept : s[a] = i /\ s[b] = j
    BY <1>4
  <2>2. repos[i] \in Repo /\ repos[j] \in Repo /\ new[i] = repos[i] /\ new[j] = repos[j]
    BY <1>4, <1>6
  <2>3. /\ repos[i].user = repos[j].user /\ Position(repos[i]) <= Position(repos[j])
        /\ Position(repos[i]) \in Nat /\ Position(repos[j]) \in Nat
    <3>1. Covers(repos[i], repos[j])
      BY <2>2
    <3>2. repos[i].user = repos[j].user /\ Position(repos[i]) <= Position(repos[j])
      BY <2>2, <3>1, Order
    <3> QED BY <2>2, <3>2, Positions
  <2>4. Position(repos[i]) < Position(repos[j])
    BY <1>7, <2>1, <2>3
  <2>5. a < b
    <3>1. a \in 1..n /\ b \in 1..n /\ a # b
      BY <1>2, <2>1
    <3>2. b < a => Position(repos[j]) <= Position(repos[i])
      BY <1>1, <2>1, <2>3, <3>1 DEF Sorted
    <3> QED BY <2>3, <2>4, <3>1, <3>2
  <2>6. PICK c \in kept :
           /\ a <= c /\ c < b /\ ~Covers(repos[s[c]], repos[s[b]])
           /\ repos[s[c]].user = repos[s[b]].user
           /\ Position(repos[s[a]]) <= Position(repos[s[c]])
           /\ Position(repos[s[c]]) <= Position(repos[s[b]])
    BY <2>1, <2>3, <2>5, KeptPair
  <2>7. s[c] # i /\ s[c] # j
    <3>1. c # a
      BY <2>1, <2>2, <2>6
    <3>2. c \in DOMAIN s /\ a \in DOMAIN s /\ b \in DOMAIN s /\ c # b
      BY <1>1, <1>2, <2>6
    <3> QED BY <2>1, <3>1, <3>2, Listed
  <2>8. Position(repos[s[a]]) # Position(repos[s[c]]) /\ Position(repos[s[c]]) # Position(repos[s[b]])
    BY <1>7, <2>1, <2>3, <2>6, <2>7
  <2>9. s[c] \in Present(new) /\ new[s[c]] = repos[s[c]] /\ Position(repos[s[c]]) \in Nat
    BY <1>4, <1>5, <1>6, Positions
  <2>10. /\ repos[s[c]].user = repos[j].user
         /\ Position(repos[i]) < Position(repos[s[c]])
         /\ Position(repos[s[c]]) < Position(repos[j])
    BY <2>1, <2>3, <2>6, <2>8, <2>9
  <2> QED BY <2>2, <2>9, <2>10
<1>10. ASSUME NEW i \in Present(repos) \ Present(new)
       PROVE  \E j \in Present(new) : Covers(repos[j], repos[i])
  <2>1. PICK b \in DOMAIN s : s[b] = i
    BY Listed
  <2>2. b \notin kept
    BY <1>5, <1>10, <2>1
  <2>3. PICK a \in kept : Covers(repos[s[a]], repos[s[b]])
    BY <2>2 DEF Kept
  <2> QED BY <1>5, <2>1, <2>3
<1> QED BY <1>3, <1>4, <1>8, <1>9, <1>10

\* A second removal removes nothing: the first record it could remove would come next
\* to one that covers it.
LEMMA NothingToRemove ==
    ASSUME NEW repos \in Records, Distinct(repos), Settled(repos),
           NEW s \in Sorted(repos), NEW kept \in Kept(repos, s)
    PROVE  Left(repos, s, kept) = repos
<1>1. PICK n \in Nat : DOMAIN s = 1..n
  BY Listed
<1>2. kept \in SUBSET (1..n)
  BY <1>1 DEF Kept
<1>3. \A i \in Present(repos) : i \in Repos /\ repos[i] \in Repo
  BY DEF Present, Records
<1>4. ASSUME kept # 1..n PROVE FALSE
  <2>1. (1..n) \ kept \in SUBSET Nat /\ (1..n) \ kept # {}
    <3>1. \E x \in 1..n : x \notin kept
      BY <1>2, <1>4, Zenon
    <3> QED BY <3>1
  <2>2. PICK b \in (1..n) \ kept : \A c \in (1..n) \ kept : b <= c
    BY <2>1, First
  <2>3. PICK a \in kept : /\ a < b /\ Covers(repos[s[a]], repos[s[b]])
                          /\ \A c \in kept : c < b => c <= a
    BY <1>1, <2>2 DEF Kept
  <2>4. a = b - 1 /\ a \in 1..n
    BY <1>2, <2>2, <2>3
  <2>5. /\ s[a] \in Present(repos) /\ s[b] \in Present(repos) /\ s[a] # s[b]
    BY <1>1, <2>3, <2>4, Listed
  <2>6. PICK k \in Present(repos) :
              /\ repos[k].user = repos[s[b]].user
              /\ Position(repos[s[a]]) < Position(repos[k])
              /\ Position(repos[k]) < Position(repos[s[b]])
    BY <2>3, <2>5 DEF Settled
  <2>7. PICK c \in 1..n : s[c] = k
    BY <1>1, Listed
  <2>8. repos[s[a]].user = repos[s[b]].user
    BY <2>3 DEF Covers
  <2>9. /\ Position(repos[s[a]]) \in Nat /\ Position(repos[k]) \in Nat
        /\ Position(repos[s[b]]) \in Nat
    BY <1>3, <2>5, Positions
  <2>10. c # a /\ c # b
    BY <2>6, <2>7, <2>9
  <2>11. ~(c < a)
    <3>1. c < a => Position(repos[s[c]]) <= Position(repos[s[a]])
      BY <1>1, <2>4, <2>6, <2>7, <2>8 DEF Sorted
    <3> QED BY <2>6, <2>7, <2>9, <3>1
  <2>12. ~(b < c)
    <3>1. b < c => Position(repos[s[b]]) <= Position(repos[s[c]])
      BY <1>1, <2>6, <2>7 DEF Sorted
    <3> QED BY <2>6, <2>7, <2>9, <3>1
  <2> QED BY <2>4, <2>10, <2>11, <2>12
<1>5. \A i \in Repos : repos[i] # Gone => i \in {s[a] : a \in kept}
  BY <1>1, <1>4, Listed DEF Present
<1> QED BY <1>5 DEF Records, Left

-----------------------------------------------------------------------------
(***************************************************************************)
(* What a start does to what the last one left                             *)
(***************************************************************************)
Cleaned(repos) == \A i \in Present(repos) : repos[i].clean

\* What the update makes of a database, and what it would make again of it.
Finished(d) ==
    /\ d \in Database
    /\ \A c \in Columns : d.cols[c] \in {"default", "carried"}
    /\ d.pattern /\ d.ondelete /\ d.sessions /\ d.fingerprint
    /\ Cleaned(d.repos) /\ Distinct(d.repos) /\ Settled(d.repos)

\* But for the indexes of users.
Alike(d, e) ==
    /\ d.cols = e.cols /\ d.repos = e.repos /\ d.names = e.names /\ d.emails = e.emails
    /\ d.pattern = e.pattern /\ d.ondelete = e.ondelete /\ d.sessions = e.sessions
    /\ d.fingerprint = e.fingerprint /\ d.keys = e.keys

Tidied ==
    /\ pc \in 11..16 => Cleaned(db.repos)
    /\ pc \in 12..16 => Distinct(db.repos) /\ Settled(db.repos)

Again ==
    /\ last # <<>> => Finished(last)
    /\ pc \in 1..16 /\ before = last => Alike(db, before)

\* The update has found a database that is finished, and has left it so.
Settles == Finished(before) /\ Alike(db, before)

\* A step of the update but for those of the records and the last.
Plain ==
    /\ pc \in 1..15 /\ pc \notin {10, 11}
    /\ pc' \in {pc, pc + 1}
    /\ db'.repos = db.repos
    /\ UNCHANGED <<before, last>>
    /\ Settles => Alike(db', db)

LEMMA StillFinished == ASSUME IInv, Settles PROVE Finished(db)
BY DEF Settles, Finished, Alike, IInv, Shape, Sound

LEMMA PlainSkip ==
    ASSUME IInv, Skip, pc \in 1..15, pc \notin {10, 11}
    PROVE  Plain
BY DEF Skip, Next1, rest, Plain, Alike

LEMMA PlainStop ==
    ASSUME IInv, Stop
    PROVE  pc' = 0 /\ UNCHANGED <<before, last>>
BY DEF Stop, rest

LEMMA PlainColumn ==
    ASSUME IInv, NEW c \in Columns, AddColumn(c) \/ CarryOver(c) \/ FillNulls(c) \/ KeepColumn(c)
    PROVE  Plain
<1>0. db \in Database
  BY DEF IInv, Shape, Sound
<1>1. pc \in {1, 2, 3, 7, 9, 14, 15}
  BY Steps, Places DEF AddColumn, CarryOver, FillNulls, KeepColumn
<1>2. ASSUME NEW x, NEW kind, Execute([db EXCEPT !.cols[c] = x], kind), pc' \in {pc, pc + 1},
             Settles => x = db.cols[c]
      PROVE  Plain
  <2>1. PICK cols : cols = [db.cols EXCEPT ![c] = x]
    OBVIOUS
  <2>2. db' = [db EXCEPT !.cols = cols] /\ UNCHANGED <<before, last>>
    BY <1>2, <2>1 DEF Execute, rest
  <2>3. /\ db'.cols = cols /\ db'.repos = db.repos /\ db'.names = db.names /\ db'.emails = db.emails
        /\ db'.pattern = db.pattern /\ db'.ondelete = db.ondelete /\ db'.sessions = db.sessions
        /\ db'.fingerprint = db.fingerprint /\ db'.keys = db.keys
    BY <1>0, <2>2 DEF Database
  <2>4. x = db.cols[c] => cols = db.cols
    BY <1>0, <2>1 DEF Database
  <2>5. Settles => Alike(db', db)
    BY <1>2, <2>3, <2>4 DEF Alike
  <2> QED BY <1>1, <1>2, <2>2, <2>3, <2>5 DEF Plain
<1>3. CASE AddColumn(c)
  <2>1. pc' \in {pc, pc + 1}
    BY <1>3 DEF AddColumn, Added, Next1
  <2>2. ~Settles
    BY <1>3, StillFinished DEF AddColumn, Found, Finished
  <2> QED BY <1>2, <1>3, <2>1, <2>2 DEF AddColumn
<1>4. CASE CarryOver(c)
  <2>1. pc' = pc + 1 /\ before.cols[c] = "missing"
    BY <1>4 DEF CarryOver, JustAdded, Next1
  <2>2. ~Settles
    BY <2>1 DEF Settles, Finished
  <2> QED BY <1>2, <1>4, <2>1, <2>2 DEF CarryOver
<1>5. CASE FillNulls(c)
  <2>1. pc' = pc + 1
    BY <1>5 DEF FillNulls, Next1
  <2>2. Settles => (IF db.cols[c] = "null" THEN "default" ELSE db.cols[c]) = db.cols[c]
    BY StillFinished DEF Finished
  <2> QED BY <1>2, <1>5, <2>1, <2>2 DEF FillNulls
<1>6. CASE KeepColumn(c)
  BY <1>1, <1>6, PlainSkip DEF KeepColumn
<1> QED BY <1>3, <1>4, <1>5, <1>6

LEMMA PlainOther ==
    ASSUME IInv,
           \/ UsernameIndex \/ UsernamePattern \/ EmailIndex \/ AuthorConstraint
           \/ SessionsTable \/ FingerprintIndex
    PROVE  Plain \/ (pc' = 0 /\ UNCHANGED <<before, last>>)
<1>0. db \in Database
  BY DEF IInv, Shape, Sound
<1>1. pc \in {4, 5, 6, 8, 12, 13}
  BY Steps DEF UsernameIndex, UsernamePattern, EmailIndex, AuthorConstraint, SessionsTable,
               FingerprintIndex
<1>2. ASSUME NEW new, NEW kind, Execute(new, kind), Next1, new.repos = db.repos,
             Settles => Alike(new, db)
      PROVE  Plain
  BY <1>1, <1>2 DEF Execute, rest, Next1, Plain, Alike
<1>3. ASSUME Skip \/ Stop PROVE Plain \/ (pc' = 0 /\ UNCHANGED <<before, last>>)
  BY <1>1, <1>3, PlainSkip, PlainStop
<1>4. CASE UsernameIndex
  <2>1. PICK new : new = [db EXCEPT !.index = TRUE]
    OBVIOUS
  <2>2. new.repos = db.repos /\ Alike(new, db)
    BY <1>0, <2>1 DEF Database, Alike
  <2>3. Skip \/ Stop \/ (Execute(new, "schema") /\ Next1)
    BY <1>4, <2>1 DEF UsernameIndex
  <2> QED BY <1>2, <1>3, <2>2, <2>3
<1>5. CASE UsernamePattern
  <2>1. PICK new : new = Recreated(db)
    OBVIOUS
  <2>2. new.repos = db.repos
    BY <1>0, <2>1 DEF Database, Recreated
  <2>3. db.pattern => Skip
    BY <1>5 DEF UsernamePattern
  <2>4. Skip \/ Stop \/ (\E kind : Execute(new, kind) /\ Next1)
    BY <1>5, <2>1 DEF UsernamePattern
  <2>5. Settles => db.pattern
    BY StillFinished DEF Finished
  <2> QED BY <1>2, <1>3, <2>2, <2>3, <2>4, <2>5
<1>6. CASE EmailIndex
  <2>1. PICK new : new = [db EXCEPT !.emailindex = TRUE]
    OBVIOUS
  <2>2. new.repos = db.repos /\ Alike(new, db)
    BY <1>0, <2>1 DEF Database, Alike
  <2>3. Skip \/ Stop \/ (Execute(new, "schema") /\ Next1)
    BY <1>6, <2>1 DEF EmailIndex
  <2> QED BY <1>2, <1>3, <2>2, <2>3
<1>7. CASE AuthorConstraint
  <2>1. PICK new : new = [db EXCEPT !.ondelete = TRUE]
    OBVIOUS
  <2>2. new.repos = db.repos /\ (Settles => db.ondelete)
    BY <1>0, <2>1, StillFinished DEF Database, Finished
  <2>3. /\ db.ondelete => Skip
        /\ Skip \/ (\E kind : Execute(new, kind) /\ Next1)
    BY <1>7, <2>1 DEF AuthorConstraint
  <2> QED BY <1>2, <1>3, <2>2, <2>3
<1>8. CASE SessionsTable
  <2>1. PICK new : new = [db EXCEPT !.sessions = TRUE]
    OBVIOUS
  <2>2. new.repos = db.repos /\ (Settles => db.sessions)
    BY <1>0, <2>1, StillFinished DEF Database, Finished
  <2>3. /\ db.sessions => Skip
        /\ Skip \/ (Execute(new, "schema") /\ Next1)
    BY <1>8, <2>1 DEF SessionsTable
  <2> QED BY <1>2, <1>3, <2>2, <2>3
<1>9. CASE FingerprintIndex
  <2>1. PICK new : new = [db EXCEPT !.fingerprint = TRUE]
    OBVIOUS
  <2>2. new.repos = db.repos /\ (Settles => db.fingerprint)
    BY <1>0, <2>1, StillFinished DEF Database, Finished
  <2>3. /\ db.fingerprint => Skip
        /\ Skip \/ Stop \/ (Execute(new, "schema") /\ Next1)
    BY <1>9, <2>1 DEF FingerprintIndex
  <2> QED BY <1>2, <1>3, <2>2, <2>3
<1> QED BY <1>4, <1>5, <1>6, <1>7, <1>8, <1>9

\* The records, on their way through the two steps that change them.
LEMMA Strip ==
    ASSUME IInv, StripSlashes
    PROVE  /\ pc = 10 /\ pc' = 11 /\ UNCHANGED <<before, last>>
           /\ \A i \in Repos : db.repos[i] # Gone => db'.repos[i] # Gone
           /\ Cleaned(db'.repos)
           /\ Settles => Alike(db', db)
<1> DEFINE clean(x) == IF x = Gone THEN x ELSE [x EXCEPT !.clean = TRUE]
           repos == [i \in Repos |-> clean(db.repos[i])]
           new == [db EXCEPT !.repos = repos]
<1>0. db \in Database /\ db.repos \in [Repos -> Repo \cup {Gone}]
  BY DEF IInv, Shape, Sound, Database
<1>1. At("strip") /\ (IF new = db THEN Skip ELSE Execute(new, "data") /\ Next1)
  BY DEF StripSlashes
<1>2. pc = 10 /\ pc' = 11 /\ UNCHANGED <<before, last>> /\ db' = new
  <2> HIDE DEF new
  <2>1. pc = 10 /\ pc' = pc + 1
    BY <1>1, Steps DEF Skip, Next1
  <2>2. UNCHANGED <<before, last>> /\ db' = new
    BY <1>1 DEF Skip, Execute, rest
  <2> QED BY <2>1, <2>2
<1>3. db'.repos = repos
  <2> HIDE DEF repos
  <2> QED BY <1>0, <1>2 DEF Database
<1>4. ASSUME NEW x \in Repo \cup {Gone}
      PROVE  /\ x # Gone => clean(x) # Gone /\ clean(x).clean /\ (x.clean => clean(x) = x)
             /\ x = Gone => clean(x) = Gone
  <2>1. CASE x # Gone
    <3>1. /\ x \in Repo /\ clean(x) = [x EXCEPT !.clean = TRUE]
          /\ clean(x) = [user |-> x.user, path |-> x.path, clean |-> TRUE]
          /\ x = [user |-> x.user, path |-> x.path, clean |-> x.clean]
      BY <2>1 DEF Repo
    <3>2. clean(x).clean = TRUE
      BY <3>1
    <3>3. [user |-> x.user, path |-> x.path, clean |-> TRUE] # [user |-> "none"]
      OBVIOUS
    <3>4. x.clean \in BOOLEAN
      BY <3>1 DEF Repo
    <3>5. x.clean => x.clean = TRUE
      BY <3>4
    <3> QED BY <2>1, <3>1, <3>2, <3>3, <3>5 DEF Gone
  <2> QED BY <2>1
<1>5. \A i \in Repos : db.repos[i] # Gone => db'.repos[i] # Gone
  BY <1>0, <1>3, <1>4
<1>6. Cleaned(db'.repos)
  BY <1>0, <1>3, <1>4 DEF Cleaned, Present
<1>7. ASSUME Settles PROVE Alike(db', db)
  <2>1. Cleaned(db.repos)
    BY <1>7, StillFinished DEF Finished
  <2>2. repos = db.repos
    BY <1>0, <1>4, <2>1 DEF Cleaned, Present
  <2> HIDE DEF repos
  <2>3. new = db
    BY <1>0, <2>2 DEF Database
  <2> QED BY <1>2, <2>3 DEF Alike
<1> QED BY <1>2, <1>5, <1>6, <1>7

LEMMA Removal ==
    ASSUME IInv, Tidied, RemoveNested
    PROVE  /\ pc = 11 /\ pc' = 12 /\ UNCHANGED <<before, last>>
           /\ Cleaned(db'.repos) /\ Distinct(db'.repos) /\ Settled(db'.repos)
           /\ \A i \in Present(db.repos) \ Present(db'.repos) :
                 \E j \in Present(db'.repos) :
                    db'.repos[j] = db.repos[j] /\ Covers(db.repos[j], db.repos[i])
           /\ Settles => Alike(db', db)
<1>0. db \in Database /\ db.repos \in Records
  BY DEF IInv, Shape, Sound, Database, Records
<1>1. At("nested")
  BY DEF RemoveNested
<1>2. PICK s \in Sorted(db.repos) : \E kept \in Kept(db.repos, s) :
           LET stay == {s[a] : a \in kept}
               new  == [db EXCEPT !.repos = [i \in Repos |-> IF i \in stay THEN db.repos[i] ELSE Gone]]
           IN IF new = db THEN Skip ELSE Execute(new, "data") /\ Next1
  BY DEF RemoveNested
<1> PICK kept \in Kept(db.repos, s) :
           LET stay == {s[a] : a \in kept}
               new  == [db EXCEPT !.repos = [i \in Repos |-> IF i \in stay THEN db.repos[i] ELSE Gone]]
           IN IF new = db THEN Skip ELSE Execute(new, "data") /\ Next1
  BY <1>2
<1> DEFINE repos == Left(db.repos, s, kept)
           new == [db EXCEPT !.repos = repos]
<1>3. IF new = db THEN Skip ELSE Execute(new, "data") /\ Next1
  BY DEF Left
<1>4. pc = 11 /\ pc' = 12 /\ UNCHANGED <<before, last>> /\ db' = new
  <2> HIDE DEF new
  <2>1. pc = 11 /\ pc' = pc + 1
    BY <1>1, <1>3, Steps DEF Skip, Next1
  <2>2. UNCHANGED <<before, last>> /\ db' = new
    BY <1>3 DEF Skip, Execute, rest
  <2> QED BY <2>1, <2>2
<1>5. /\ Distinct(repos) /\ Settled(repos)
      /\ \A i \in Present(repos) : i \in Present(db.repos) /\ repos[i] = db.repos[i]
      /\ \A i \in Present(db.repos) \ Present(repos) :
            \E j \in Present(repos) : Covers(db.repos[j], db.repos[i])
  BY <1>0, AfterRemoval
<1>6. Settles => repos = db.repos
  BY <1>0, StillFinished, NothingToRemove DEF Finished
<1> HIDE DEF repos
<1>7. db'.repos = repos
  BY <1>0, <1>4 DEF Database
<1>8. Cleaned(db'.repos)
  BY <1>4, <1>5, <1>7 DEF Tidied, Cleaned
<1>9. Settles => Alike(db', db)
  BY <1>0, <1>4, <1>6 DEF Database, Alike
<1> QED BY <1>4, <1>5, <1>7, <1>8, <1>9

LEMMA NoTable == <<>> \notin Database
<1>1. \A d \in Database : "index" \in DOMAIN d
  BY DEF Database
<1>2. "index" \notin DOMAIN <<>>
  OBVIOUS
<1> QED BY <1>1, <1>2

LEMMA Trusted == ASSUME IInv, Again, before = last, pc \in 1..16 PROVE Settles
<1>1. before \in Database
  BY DEF IInv, Shape, Sound
<1> QED BY <1>1, NoTable DEF Again, Settles

LEMMA AlikeTwice ==
    ASSUME NEW d, NEW e, NEW f, Alike(d, e), Alike(e, f)
    PROVE  Alike(d, f)
BY DEF Alike

\* A step of the update that leaves what it found, when the last start left it.
LEMMA AgainStep ==
    ASSUME IInv, Again, pc \in 1..15, UNCHANGED <<before, last>>, Settles => Alike(db', db)
    PROVE  Again'
<1>1. last' # <<>> => Finished(last)'
  BY DEF Again, Finished
<1>2. ASSUME pc' \in 1..16, before' = last' PROVE Alike(db, before)'
  <2>1. before = last
    BY <1>2
  <2>2. Settles
    BY <2>1, Trusted
  <2>3. Alike(db', db) /\ Alike(db, before)
    BY <2>2 DEF Settles
  <2> QED BY <2>3 DEF Alike
<1> QED BY <1>1, <1>2 DEF Again

\* A new start, or none.
LEMMA AgainStarts ==
    ASSUME IInv, Again, last' = last, pc' \notin 1..16 \/ (db' = before')
    PROVE  Again'
BY DEF Again, Finished, Alike

LEMMA TidiedStep == ASSUME IInv, Tidied, Plain PROVE Tidied'
<1>1. pc' \in 11..16 => pc \in 12..15
  BY DEF Plain
<1>2. pc' \in 12..16 => pc \in 12..15
  BY DEF Plain
<1>3. pc \in 12..15 => Cleaned(db.repos) /\ Distinct(db.repos) /\ Settled(db.repos)
  BY DEF Tidied
<1>4. db'.repos = db.repos
  BY DEF Plain
<1> QED BY <1>1, <1>2, <1>3, <1>4 DEF Tidied

LEMMA RecordsInv == ASSUME IInv, Tidied, Again, [Next]_vars PROVE Tidied' /\ Again'
<1>1. ASSUME Plain \/ (pc' = 0 /\ UNCHANGED <<before, last>>) PROVE Tidied' /\ Again'
  <2>1. CASE Plain
    <3>1. pc \in 1..15 /\ UNCHANGED <<before, last>> /\ (Settles => Alike(db', db))
      BY <2>1 DEF Plain
    <3> QED BY <2>1, <3>1, TidiedStep, AgainStep
  <2>2. CASE pc' = 0 /\ UNCHANGED <<before, last>>
    BY <2>2, AgainStarts DEF Tidied
  <2> QED BY <1>1, <2>1, <2>2
<1>2. ASSUME NEW c \in Columns, AddColumn(c) \/ CarryOver(c) \/ FillNulls(c) \/ KeepColumn(c)
      PROVE  Tidied' /\ Again'
  BY <1>1, <1>2, PlainColumn
<1>3. CASE \/ UsernameIndex \/ UsernamePattern \/ EmailIndex \/ AuthorConstraint
           \/ SessionsTable \/ FingerprintIndex
  BY <1>1, <1>3, PlainOther
<1>4. CASE StripSlashes
  <2>1. /\ pc = 10 /\ pc' = 11 /\ UNCHANGED <<before, last>>
        /\ Cleaned(db'.repos) /\ (Settles => Alike(db', db))
    BY <1>4, Strip
  <2>2. Again'
    BY <2>1, AgainStep
  <2> QED BY <2>1, <2>2 DEF Tidied
<1>5. CASE RemoveNested
  <2>1. /\ pc = 11 /\ pc' = 12 /\ UNCHANGED <<before, last>>
        /\ Cleaned(db'.repos) /\ Distinct(db'.repos) /\ Settled(db'.repos)
        /\ Settles => Alike(db', db)
    BY <1>5, Removal
  <2>2. Again'
    BY <2>1, AgainStep
  <2> QED BY <2>1, <2>2 DEF Tidied
<1>6. CASE Commit
  <2>1. pc = 16 /\ pc' = pc + 1 /\ last' = db
    BY <1>6, Steps DEF Commit, Next1
  <2>2. \A c \in Columns : db.cols[c] \in {"default", "carried"}
    <3> SUFFICES ASSUME NEW c \in Columns PROVE db.cols[c] \in {"default", "carried"}
      OBVIOUS
    <3>1. pc > Place(c)
      BY <2>1, Places
    <3> QED BY <3>1 DEF IInv, Cols, Passed
  <2>3. db.pattern /\ db.ondelete /\ db.sessions /\ db.fingerprint /\ db \in Database
    BY <2>1 DEF IInv, Indexes, Shape, Sound
  <2>4. Cleaned(db.repos) /\ Distinct(db.repos) /\ Settled(db.repos)
    BY <2>1 DEF Tidied
  <2>5. Finished(db)
    BY <2>2, <2>3, <2>4 DEF Finished
  <2>6. Finished(last)'
    BY <2>1, <2>5 DEF Finished
  <2>7. pc' = 17
    BY <2>1
  <2> QED BY <2>6, <2>7 DEF Tidied, Again
<1>7. CASE Kill
  BY <1>1, <1>7, PlainStop DEF Kill
<1>8. ASSUME NEW email \in BOOLEAN, Start(email) PROVE Tidied' /\ Again'
  <2>1. pc' = 1 /\ last' = last /\ before' = saved /\ db' = db /\ pc = 0
    BY <1>8 DEF Start
  <2>2. db' = before'
    BY <2>1 DEF IInv, Open
  <2> QED BY <2>1, <2>2, AgainStarts DEF Tidied
<1>9. ASSUME NEW u \in Users,
             \/ \E n \in Names : AddUser(u, n)
             \/ \E e \in Emails : SetEmail(u, e)
             \/ \E i \in Repos, p \in ToSet(Paths) : AddRepo(i, u, p)
      PROVE  Tidied' /\ Again'
  <2>1. \E new : Edit(new)
    BY <1>9 DEF AddUser, SetEmail, AddRepo
  <2>2. pc' = 17 /\ last' = last
    BY <2>1, Script16 DEF Edit
  <2> QED BY <2>2, AgainStarts DEF Tidied
<1>10. CASE UNCHANGED vars
  BY <1>10 DEF vars, Tidied, Again, Finished, Alike
<1> QED BY <1>2, <1>3, <1>4, <1>5, <1>6, <1>7, <1>8, <1>9, <1>10 DEF Next, Update

LEMMA RecordsAlways == Spec => [](IInv /\ Tidied /\ Again)
<1>1. Init => Tidied /\ Again
  <2> SUFFICES ASSUME Init PROVE Tidied /\ Again
    OBVIOUS
  <2>1. pc = 0 /\ last = <<>>
    BY DEF Init
  <2> QED BY <2>1 DEF Tidied, Again
<1>2. IInv /\ Tidied /\ Again /\ [Next]_vars => (Tidied /\ Again)'
  BY RecordsInv
<1> QED BY <1>1, <1>2, Inductive, PTL DEF Spec

\* A start that finds what the last one left changes nothing but the indexes of the
\* users: every column is there, all paths are clean, and of the records that one
\* left none is removed in whichever order the users come.
THEOREM SecondStart == Spec => []SecondStartIsIdle
<1>1. IInv /\ Tidied /\ Again => SecondStartIsIdle
  <2> SUFFICES ASSUME IInv, Again, pc = 16, before = last
               PROVE  db = [before EXCEPT !.index = db.index, !.emailindex = db.emailindex]
    BY Script16 DEF SecondStartIsIdle
  <2>1. Alike(db, before) /\ db \in Database /\ before \in Database
    BY DEF Again, IInv, Shape, Sound
  <2> QED BY <2>1 DEF Alike, Database
<1> QED BY <1>1, RecordsAlways, PTL

\* No record of a repository goes at a start without one of the same user that stays
\* for its path or one above, and no path is left with two records of a user.
THEOREM Covered == Spec => RemovedAreCovered
<1> DEFINE Step == pc' > pc /\ pc < Serving =>
              /\ \A i \in Repos : db.repos[i] # Gone /\ db'.repos[i] = Gone => StaysCovered(i)
              /\ At("commit") => OnePerPath
<1>1. IInv /\ Tidied /\ [Next]_vars => [Step]_vars
  <2> SUFFICES ASSUME IInv, Tidied, [Next]_vars, pc' > pc, pc < 17
               PROVE  /\ \A i \in Repos : db.repos[i] # Gone /\ db'.repos[i] = Gone => StaysCovered(i)
                      /\ At("commit") => OnePerPath
    BY Script16
  <2>1. At("commit") => OnePerPath
    <3> SUFFICES ASSUME At("commit") PROVE OnePerPath
      OBVIOUS
    <3>1. pc = 16
      BY Steps
    <3>2. Distinct(db.repos)
      BY <3>1 DEF Tidied
    <3> QED BY <3>2 DEF Distinct, Present, OnePerPath
  <2>2. ASSUME db'.repos = db.repos
        PROVE  \A i \in Repos : db.repos[i] # Gone /\ db'.repos[i] = Gone => StaysCovered(i)
    BY <2>2
  <2>3. ~(pc' = 0)
    BY DEF IInv, Shape
  <2>4. ASSUME Plain PROVE db'.repos = db.repos
    BY <2>4 DEF Plain
  <2>5. ASSUME NEW c \in Columns, AddColumn(c) \/ CarryOver(c) \/ FillNulls(c) \/ KeepColumn(c)
        PROVE  db'.repos = db.repos
    BY <2>4, <2>5, PlainColumn
  <2>6. ASSUME \/ UsernameIndex \/ UsernamePattern \/ EmailIndex \/ AuthorConstraint
               \/ SessionsTable \/ FingerprintIndex
        PROVE  db'.repos = db.repos
    BY <2>3, <2>4, <2>6, PlainOther
  <2>7. CASE StripSlashes
    BY <2>1, <2>7, Strip
  <2>8. CASE RemoveNested
    <3> SUFFICES ASSUME NEW i \in Repos, db.repos[i] # Gone, db'.repos[i] = Gone
                 PROVE  StaysCovered(i)
      BY <2>1
    <3>1. i \in Present(db.repos) \ Present(db'.repos)
      BY DEF Present
    <3>2. PICK j \in Present(db'.repos) :
              db'.repos[j] = db.repos[j] /\ Covers(db.repos[j], db.repos[i])
      BY <2>8, <3>1, Removal
    <3>3. j \in Repos /\ db'.repos[j] # Gone
      BY <3>2 DEF Present
    <3> QED BY <3>2, <3>3 DEF StaysCovered, Covers
  <2>9. CASE Commit
    BY <2>1, <2>2, <2>9 DEF Commit
  <2>10. CASE Kill
    BY <2>3, <2>10, PlainStop DEF Kill
  <2>11. ASSUME NEW email \in BOOLEAN, Start(email)
         PROVE  db'.repos = db.repos
    BY <2>11 DEF Start
  <2>12. ASSUME NEW u \in Users,
             \/ \E n \in Names : AddUser(u, n)
             \/ \E e \in Emails : SetEmail(u, e)
             \/ \E i \in Repos, p \in ToSet(Paths) : AddRepo(i, u, p)
         PROVE  FALSE
    <3>1. \E new : Edit(new)
      BY <2>12 DEF AddUser, SetEmail, AddRepo
    <3> QED BY <3>1, Script16 DEF Edit
  <2>13. CASE UNCHANGED vars
    BY <2>1, <2>2, <2>13 DEF vars
  <2> QED BY <2>1, <2>2, <2>5, <2>6, <2>7, <2>8, <2>9, <2>10, <2>11, <2>12, <2>13 DEF Next, Update
<1>2. Spec => [][Step]_vars
  BY <1>1, RecordsAlways, PTL DEF Spec
<1> QED BY <1>2 DEF RemovedAreCovered
=============================================================================
