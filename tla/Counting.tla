------------------------------ MODULE Counting ------------------------------
(***************************************************************************)
(* The counters of ActiveRecord keep the promise of Tally.                 *)
(***************************************************************************)
EXTENDS ActiveRecord

Counts(row) == IF row = NoRow THEN NoRow ELSE [m \in Counter |-> row[m]]

Count == [k \in Key |-> Counts(db[k])]

\* The effect of a call, from its execution until it ends.
Taken ==
    [c \in Client |->
        IF call[c].phase = "answered" THEN call[c].reply.effect ELSE NoChange]

Pending == [c \in Client |-> Diff(rec[c].mut, Taken[c])]

Adrift == {s \in late : s.op \in Stored}

T == INSTANCE Tally WITH
        count <- Count, asked <- owed, pending <- Pending, taken <- Taken,
        adrift <- Adrift

\* Whatever clients do at the same time, the counters of a row change by what
\* one of them has asked for since its last acknowledged call, and by all of it;
\* an increment reaches a row twice only if a call that carried it has failed.
CountsAreTallied == T!Spec
=============================================================================
