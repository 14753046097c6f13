--------------------------- MODULE MCSchemaUpdate ---------------------------
(* Small instances of SchemaUpdate for TLC. *)
EXTENDS SchemaUpdate

SortedPaths == <<"a", "a-b", "a/c">>
Nested      == {<<"a", "a/c">>}

Record(u, p, clean) == [user |-> u, path |-> p, clean |-> clean]
Owner == CHOOSE u \in Users : TRUE
Other == CHOOSE u \in Users : u # Owner

\* Duplicates behind a slash; a nested one that follows, and one that does not.
Tables ==
    LET first == CHOOSE i \in Repos : TRUE
        second == CHOOSE i \in Repos \ {first} : TRUE
    IN {[i \in Repos |-> IF i = first THEN x ELSE IF i = second THEN y ELSE z] :
           x \in {Record(Owner, "a", FALSE)},
           y \in {Record(Owner, "a", TRUE), Record(Owner, "a/c", FALSE), Record(Other, "a/c", TRUE)},
           z \in {Gone, Record(Owner, "a-b", TRUE)}}

Empty == [names |-> [u \in Users |-> ""], emails |-> [u \in Users |-> ""], keys |-> FALSE]

Version(cols, repos, index, email, pattern) ==
    Empty @@ [cols |-> cols, repos |-> repos, index |-> index, emailindex |-> email,
              pattern |-> pattern, ondelete |-> pattern, fingerprint |-> index, sessions |-> index]

Old     == [c \in Columns |-> "missing"]
Nulls   == [c \in Columns |-> IF c \in Filled THEN "null" ELSE IF c \in Carried THEN "carried" ELSE "default"]
Current == [c \in Columns |-> IF c \in Carried THEN "carried" ELSE "default"]

\* The first versions, one with columns that allowed NULL, and one without the constraint.
OlderVersions ==
    {Version(Old, r, FALSE, FALSE, FALSE) : r \in Tables}
    \cup {Version(Nulls, r, TRUE, e, FALSE) : r \in Tables, e \in BOOLEAN}
    \cup {Version(Current, r, TRUE, TRUE, FALSE) : r \in Tables}
=============================================================================
