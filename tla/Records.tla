------------------------------ MODULE Records ------------------------------
(***************************************************************************)
(* One table for which code is generated: the record that stands for a row *)
(* in the program's memory (internal/gen/advpg.go.tmpl), and what a        *)
(* statement makes of a row in PostgreSQL.                                 *)
(*                                                                         *)
(* The primary key, composite or not, is one value.  A Field is any other  *)
(* column.  updateMask is the set of columns whose bit is set.             *)
(***************************************************************************)
EXTENDS Columns, Integers

CONSTANTS
    Key,                \* primary keys
    Blank,              \* what a newly made model holds in each column
    Value,              \* what setters store
    Stamp,              \* what BEFORE UPDATE triggers store
    Delta,              \* what Inc, Dec and Add are called with
    Table,              \* the declaration, see Columns
    Default,            \* the DEFAULT of each column in the database schema
    NoRow               \* no row is stored under a key

Field   == Table.cols \ Table.primaryKey
Counter == Mutators(Table)
Trigger == Table.updateByStorage \ (Counter \cup Table.primaryKey)
Row     == [Field -> Int]
Change  == [Counter -> Int]
Written == UpdateValue(Table)
NoChange == [m \in Counter |-> 0]
KeyByStorage == Table.primaryKey \cap Table.initByStorage # {}

Record == [key : Key, data : Row, mask : SUBSET Written, mut : Change]

ASSUME TableAssumption ==
    /\ Table \in TableOver(Table.cols)
    /\ Accepted(Table)
    /\ HasKey(Table)
    /\ ~Table.disableActiveRecord
    /\ Table.primaryKey \cap Table.disableInsert = {}
    /\ \/ Table.primaryKey \subseteq Table.initByStorage
       \/ Table.primaryKey \cap Table.initByStorage = {}

ASSUME ValueAssumption ==
    /\ Blank \in Int
    /\ Value \subseteq Int
    /\ Stamp \subseteq Int
    /\ Delta \subseteq Int
    /\ Default \in Row
    /\ NoRow \notin Row

----------------------------------------------------------------------------
(* The record in memory. *)

BlankRow == [f \in Field |-> Blank]

\* Record(): nothing is marked as changed, whatever the data.
Fresh(k, data) ==
    [key |-> k, data |-> data, mask |-> {}, mut |-> NoChange]

\* Mutation: reset() forgets the counters.
ResetMask(r) == [r EXCEPT !.mask = {}]

\* reset()
Reset(r) == [r EXCEPT !.mask = {}, !.mut = NoChange]

\* Mutation: the setter's bit is missing.
SetUnmarked(r, f, v) == [r EXCEPT !.data[f] = v]

\* Set<Column>: a column the UPDATE does not write has no bit.
SetColumn(r, f, v) ==
    [r EXCEPT !.data[f] = v, !.mask = @ \cup ({f} \cap Written)]

\* Mutation: what is scanned goes through setters, every one of which sets a bit.
ScanMarked(r, cols, reply) ==
    [r EXCEPT !.key = IF Table.primaryKey \cap cols = {} THEN @ ELSE reply.key,
              !.data = [f \in Field |-> IF f \in cols THEN reply.row[f] ELSE @[f]],
              !.mask = @ \cup (cols \cap Field)]

\* Scan of a RETURNING clause into the columns cols.
Scan(r, cols, reply) ==
    [r EXCEPT !.key = IF Table.primaryKey \cap cols = {} THEN @ ELSE reply.key,
              !.data = [f \in Field |->
                           IF f \in cols THEN reply.row[f] ELSE @[f]]]

Unchanged(r) == r.mask = {} /\ r.mut = NoChange

\* The argument passed for a column of the INSERT's VALUES.
InsertArg(r, f) ==
    CASE f \notin Counter -> r.data[f]
      [] f \in Counter /\ Upsert(Table) -> r.data[f] + r.mut[f]
      [] f \in Counter /\ ~Upsert(Table) -> r.mut[f]

----------------------------------------------------------------------------
(* What a statement s makes of a row: s.set is the columns it writes,      *)
(* s.val[f] the argument for f in s.set, s.add the counters' increments.   *)

\* The rows a BEFORE UPDATE trigger may turn a row into: it stamps each of
\* its columns anew.
Triggered(row) ==
    {[f \in Field |-> IF f \in Trigger THEN t[f] ELSE row[f]] :
        t \in {u \in [Trigger -> Stamp] : \A f \in Trigger : u[f] # row[f]}}

Inserted(s) ==
    [f \in Field |-> IF f \in s.set THEN s.val[f] ELSE Default[f]]

\* What Inserted(s) would be had nothing been counted.
Uncounted(s) ==
    [m \in Counter |->
        IF m \in s.set THEN s.val[m] - s.add[m] ELSE Default[m]]

\* Mutation: the counters are among the columns set to EXCLUDED.
MergedExcluded(row, s) ==
    [f \in Field |-> IF f \in Written \cup Counter THEN Inserted(s)[f] ELSE row[f]]

\* ON CONFLICT DO UPDATE SET col = EXCLUDED.col, counter = counter + mut.
\* EXCLUDED holds the DEFAULT of a column the INSERT does not mention.
Merged(row, s) ==
    [f \in Field |->
        IF f \in Written THEN Inserted(s)[f]
        ELSE IF f \in Counter THEN row[f] + s.add[f]
        ELSE row[f]]

\* Mutation: a counter is set to what it should be increased by.
UpdatedInPlace(row, s) ==
    [f \in Field |->
        IF f \in s.set THEN s.val[f]
        ELSE IF f \in Counter THEN s.add[f]
        ELSE row[f]]

\* UPDATE SET col = value, counter = counter + mut.
Updated(row, s) ==
    [f \in Field |->
        IF f \in s.set THEN s.val[f]
        ELSE IF f \in Counter THEN row[f] + s.add[f]
        ELSE row[f]]

Diff(new, old) == [m \in Counter |-> new[m] - old[m]]
=============================================================================
