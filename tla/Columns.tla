------------------------------ MODULE Columns ------------------------------
(***************************************************************************)
(* The column groups of one table: which columns an INSERT or an UPDATE    *)
(* writes, which it reads back, which have a setter.  The generator fills  *)
(* them column by column (internal/gen/parse.go, fillColumns); here each   *)
(* group is the set it must end up with, as a function of the declaration. *)
(*                                                                         *)
(* A table t is a record of the flags of advpg.Table, and of advpg.Field   *)
(* as the set of the columns that carry each flag.                         *)
(***************************************************************************)
EXTENDS FiniteSets, Naturals

MaxSetters == 64        \* updateMask is a uint64

\* The declarations over a set of columns C.
TableOver(C) ==
    [cols : {C}, primaryKey : SUBSET C, initByStorage : SUBSET C,
     updateByStorage : SUBSET C, disableInsert : SUBSET C,
     disableUpdate : SUBSET C, mutators : SUBSET C, sqlValue : SUBSET C,
     updateOnConflict : BOOLEAN, onConflictDoNothing : BOOLEAN,
     disableActiveRecord : BOOLEAN]

HasKey(t) == t.primaryKey # {}

\* EnableMutators switches UpdateByStorage on.
ByStorage(t) == t.updateByStorage \cup t.mutators

InsertColumns(t) == t.cols \ t.disableInsert

InsertValue(t) == InsertColumns(t) \ t.initByStorage

\* Mutation: the conflict branch is forgotten.
InsertResultInit(t) == InsertColumns(t) \cap t.initByStorage

\* Mutation: only the conflict branch is there.
InsertResultCounters(t) == InsertColumns(t) \cap t.mutators

\* Columns the INSERT returns: those the storage initialises and, when a
\* conflict becomes an UPDATE, the counters.
InsertResult(t) ==
    InsertColumns(t) \cap
        (t.initByStorage \cup IF t.updateOnConflict THEN t.mutators ELSE {})

Updatable(t) ==
    IF HasKey(t) THEN t.cols \ (t.disableUpdate \cup t.primaryKey) ELSE {}

UpdateValue(t) == Updatable(t) \ ByStorage(t)

\* Mutation: EnableMutators does not switch UpdateByStorage on.
UpdateResultDeclared(t) == Updatable(t) \cap t.updateByStorage

UpdateResult(t) == Updatable(t) \cap ByStorage(t)

Mutators(t) == t.mutators

Setters(t) ==
    IF t.disableActiveRecord
    THEN {}
    ELSE (InsertValue(t) \cup UpdateValue(t)) \ t.mutators

\* A conflict that would have nothing to SET is ignored instead.
Upsert(t) == t.updateOnConflict /\ UpdateValue(t) \cup t.mutators # {}

DoNothing(t) == t.onConflictDoNothing \/ (t.updateOnConflict /\ ~Upsert(t))

\* The declarations the generator accepts.
Accepted(t) ==
    /\ ~(t.updateOnConflict /\ t.onConflictDoNothing)
    /\ t.mutators # {} => HasKey(t) /\ ~t.disableActiveRecord
    /\ t.mutators \cap (t.disableUpdate \cup t.primaryKey) = {}
    /\ t.updateOnConflict =>
           t.primaryKey \cap (t.initByStorage \cup t.updateByStorage) = {}
    /\ t.sqlValue \cap t.initByStorage
           \cap (t.disableUpdate \cup ByStorage(t)) = {}
    /\ t.updateOnConflict \/ t.onConflictDoNothing => HasKey(t)
    /\ Cardinality(Setters(t)) <= MaxSetters
=============================================================================
