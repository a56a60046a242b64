---------------------------- MODULE MCGenerator ----------------------------
(***************************************************************************)
(* Declarations for TLC.                                                   *)
(***************************************************************************)
EXTENDS Statements, TLC

Ordered(n) == [i \in 1 .. n |-> i]
OwnName(n) == {[c \in 1 .. n |-> c]}

\* Three columns with every mix of the flags that decide a column's groups: the
\* columns that have a bit and those that have not come in every order.
Flagged ==
    LET C == 1 .. 3
    IN [cols : {C}, primaryKey : {{}, {1}, {2, 3}}, initByStorage : SUBSET C,
        updateByStorage : SUBSET C, disableInsert : SUBSET C,
        disableUpdate : SUBSET C, mutators : SUBSET C, sqlValue : {{}},
        updateOnConflict : BOOLEAN, onConflictDoNothing : {FALSE},
        disableActiveRecord : {FALSE}]

\* A wide table: a key and 65 columns, of which a few are not written.
Wide(init, disabled) ==
    [cols |-> 1 .. 66, primaryKey |-> {1}, initByStorage |-> init,
     updateByStorage |-> {}, disableInsert |-> {}, disableUpdate |-> disabled,
     mutators |-> {}, sqlValue |-> {}, updateOnConflict |-> FALSE,
     onConflictDoNothing |-> FALSE, disableActiveRecord |-> FALSE]

\* Every declaration over two columns, which may share their database name,
\* and the two families above.
Layouts == {Ordered(2), Ordered(3), Ordered(66)}
Declarations ==
    [l \in Layouts |->
        CASE Len(l) = 2 -> TableOver(1 .. 2)
          [] Len(l) = 3 -> Flagged
          [] Len(l) = 66 ->
                {Wide(init, disabled) : init \in {{}, {1}, {1, 9}, {1, 66}},
                                        disabled \in {{}, {9}, {66}, {9, 66}}}]
Namings ==
    [l \in Layouts |->
        IF Len(l) = 2 THEN {<<1, 2>>, <<1, 1>>} ELSE OwnName(Len(l))]
=============================================================================
