------------------------------ MODULE MCBatch ------------------------------
(***************************************************************************)
(* Tables for TLC.                                                         *)
(***************************************************************************)
EXTENDS Batch, TLC

\* A table whose key the storage hands out, with one column of each sort:
\* written by INSERT and UPDATE, filled by the storage and then updatable,
\* counter, trigger.
Posts ==
    [cols |-> {"id", "title", "shown", "likes", "edited_at"},
     primaryKey |-> {"id"}, initByStorage |-> {"id", "shown", "edited_at"},
     updateByStorage |-> {"edited_at"}, disableInsert |-> {},
     disableUpdate |-> {}, mutators |-> {"likes"}, sqlValue |-> {},
     updateOnConflict |-> FALSE, onConflictDoNothing |-> FALSE,
     disableActiveRecord |-> FALSE]

\* user_options of internal/test/model.go: nothing is returned by an UPDATE.
UserOptions ==
    [cols |-> {"user_id", "option_id", "flag", "option"},
     primaryKey |-> {"user_id", "option_id"}, initByStorage |-> {"option"},
     updateByStorage |-> {}, disableInsert |-> {}, disableUpdate |-> {},
     mutators |-> {}, sqlValue |-> {}, updateOnConflict |-> TRUE,
     onConflictDoNothing |-> FALSE, disableActiveRecord |-> FALSE]

\* DEFAULTs are values no setter stores.
DefaultOf(t) ==
    [f \in t.cols \ t.primaryKey |-> IF f \in t.mutators THEN 1 ELSE 2]
PostsDefault       == DefaultOf(Posts)
UserOptionsDefault == DefaultOf(UserOptions)

Symmetry == Permutations(Key)
=============================================================================
