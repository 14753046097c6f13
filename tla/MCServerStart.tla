--------------------------- MODULE MCServerStart ----------------------------
(* What a start of the server brings up to date, the schema and the file         *)
(* authorized_keys, each explored while the other rests: they share no variable. *)
EXTENDS MCSchemaUpdate, MCAuthorizedKeys

Oldest ==
    CHOOSE d \in UNION {{[v EXCEPT !.names = old.names, !.emails = old.emails, !.keys = old.keys] :
                            old \in Legacy(v)} : v \in Versions} : TRUE
SchemaRests == starts = 0 /\ engine = "sqlite" /\ saved = Oldest
KeysRest    == changes = 0 /\ faults = 0 /\ crashes = 0 /\ KeysInit

StartInit == Init /\ KeysInit
StartNext ==
    \/ KeysRest /\ Next /\ UNCHANGED keysVars
    \/ SchemaRests /\ KeysNext /\ UNCHANGED vars
StartSpec == StartInit /\ [][StartNext]_<<vars, keysVars>>
=============================================================================
