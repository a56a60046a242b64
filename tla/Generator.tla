----------------------------- MODULE Generator -----------------------------
(***************************************************************************)
(* The generator fills the column groups of a table in one pass over its   *)
(* columns (internal/gen/parse.go), then hands each setter the index of    *)
(* its column's bit in updateMask (internal/gen/gen.go), an index it finds *)
(* by walking two lists in step instead of looking it up.                  *)
(*                                                                         *)
(* Columns says what the groups must be; here is how they get there.       *)
(***************************************************************************)
EXTENDS Columns, Sequences, Functions, Integers

CONSTANTS
    Layout,         \* tables' columns, in order: the sequences to try
    Declaration,    \* for each layout, the declarations to generate code for
    Naming          \* for each layout, the database names of its columns

ASSUME LayoutAssumption ==
    \A l \in Layout :
        /\ l \in Seq(Range(l)) /\ IsInjective(l)
        /\ \A t \in Declaration[l] : t \in TableOver(Range(l))
        /\ \A n \in Naming[l] : DOMAIN n = Range(l)

VARIABLES
    cols,       \* the columns of the table
    decl,       \* the declaration, as written
    name,       \* the database name of each column
    table,      \* the declaration, as the generator has amended it
    groups,     \* the column groups, as filled so far
    taken,      \* columnConflict: the database names seen
    next,       \* the column, then the setter, to be looked at
    updIdx,     \* the updatable column the next setter is compared with
    bit,        \* the bit index of each setter so far, -1 for none
    phase

vars == <<cols, decl, name, table, groups, taken, next, updIdx, bit, phase>>

Group == {"insertValue", "insertResult", "updateValue", "updateResult",
          "mutators", "setters"}

----------------------------------------------------------------------------
(* One column. *)

IsCounter(c)   == c \in table.mutators
FromStorage(c) == c \in ByStorage(table)
IsInserted(c)  == c \notin table.disableInsert
IsInit(c)      == c \in table.initByStorage
IsUpdatable(c) == HasKey(table) /\ c \notin table.disableUpdate \cup table.primaryKey

Rejected(c) ==
    \/ /\ IsCounter(c)
       /\ \/ ~HasKey(table)
          \/ table.disableActiveRecord
          \/ c \in table.disableUpdate \cup table.primaryKey
    \/ /\ table.updateOnConflict
       /\ c \in table.primaryKey
       /\ IsInit(c) \/ FromStorage(c)
    \/ c \notin table.sqlValue /\ name[c] \in taken
    \/ c \in table.sqlValue /\ IsInit(c)
           /\ (c \in table.disableUpdate \/ FromStorage(c))

NeedsSetter(c) ==
    /\ ~table.disableActiveRecord
    /\ ~IsCounter(c)
    /\ \/ IsInserted(c) /\ ~IsInit(c)
       \/ IsUpdatable(c) /\ ~FromStorage(c)

\* Mutation: a counter the INSERT writes is not read back.
JoinsUnread(c) ==
    [insertValue  |-> IsInserted(c) /\ ~IsInit(c),
     insertResult |-> IsInserted(c) /\ IsInit(c),
     updateValue  |-> IsUpdatable(c) /\ ~FromStorage(c),
     updateResult |-> IsUpdatable(c) /\ FromStorage(c),
     mutators     |-> IsCounter(c),
     setters      |-> NeedsSetter(c)]

\* The groups a column joins.
Joins(c) ==
    [insertValue  |-> IsInserted(c) /\ ~IsInit(c),
     insertResult |-> /\ IsInserted(c)
                      /\ IsInit(c) \/ (IsCounter(c) /\ table.updateOnConflict),
     updateValue  |-> IsUpdatable(c) /\ ~FromStorage(c),
     updateResult |-> IsUpdatable(c) /\ FromStorage(c),
     mutators     |-> IsCounter(c),
     setters      |-> NeedsSetter(c)]

----------------------------------------------------------------------------
(* The steps of fillModels and fillColumns. *)

Init ==
    /\ cols \in Layout
    /\ decl \in Declaration[cols]
    /\ name \in Naming[cols]
    /\ table = decl
    /\ groups = [g \in Group |-> <<>>]
    /\ taken = {}
    /\ next = 1
    /\ updIdx = 0
    /\ bit = <<>>
    /\ phase = IF decl.updateOnConflict /\ decl.onConflictDoNothing
               THEN "error" ELSE "fill"

FillColumn ==
    /\ phase = "fill"
    /\ next <= Len(cols)
    /\ LET c == cols[next]
           joins == Joins(c)
       IN \/ /\ Rejected(c)
             /\ phase' = "error"
             /\ UNCHANGED <<table, groups, taken, next>>
          \/ /\ ~Rejected(c)
             /\ table' = [table EXCEPT !.updateByStorage =
                             @ \cup ({c} \cap table.mutators)]
             /\ groups' = [g \in Group |->
                             IF joins[g] THEN Append(groups[g], c) ELSE groups[g]]
             /\ taken' = taken \cup (IF c \in table.sqlValue THEN {} ELSE {name[c]})
             /\ next' = next + 1
             /\ UNCHANGED phase
    /\ UNCHANGED <<cols, decl, name, updIdx, bit>>

\* Mutation: one setter too many.
TooManyByOne(g) == Len(g.setters) > MaxSetters + 1

TooMany(g) == Len(g.setters) > MaxSetters

\* An upsert with nothing to SET becomes DO NOTHING.
Finish ==
    /\ phase = "fill"
    /\ next > Len(cols)
    /\ \/ /\ \/ TooMany(groups)
             \/ /\ table.updateOnConflict \/ table.onConflictDoNothing
                /\ ~HasKey(table)
          /\ phase' = "error"
          /\ UNCHANGED <<table, next, updIdx>>
       \/ /\ ~TooMany(groups)
          /\ table.updateOnConflict \/ table.onConflictDoNothing => HasKey(table)
          /\ table' = IF /\ table.updateOnConflict
                         /\ groups.updateValue = <<>>
                         /\ groups.mutators = <<>>
                      THEN [table EXCEPT !.updateOnConflict = FALSE,
                                         !.onConflictDoNothing = TRUE]
                      ELSE table
          /\ next' = 1
          /\ updIdx' = IF groups.updateValue = <<>> THEN -1 ELSE 0
          /\ phase' = "setters"
    /\ UNCHANGED <<cols, decl, name, groups, taken, bit>>

----------------------------------------------------------------------------
(* IterateSetterColumns. *)

\* Mutation: the end of the other list is not noticed.
AdvancePast(matched) == IF matched THEN updIdx + 1 ELSE updIdx

\* Mutation: a setter without a bit moves on in the other list too.
AdvanceAlways(matched) ==
    IF updIdx + 1 >= Len(groups.updateValue) THEN -1 ELSE updIdx + 1

Advance(matched) ==
    IF ~matched THEN updIdx
    ELSE IF updIdx + 1 >= Len(groups.updateValue) THEN -1
    ELSE updIdx + 1

YieldSetter ==
    /\ phase = "setters"
    /\ next <= Len(groups.setters)
    /\ LET matched == /\ updIdx >= 0
                      /\ groups.updateValue[updIdx + 1] = groups.setters[next]
       IN /\ bit' = Append(bit, IF matched THEN updIdx ELSE -1)
          /\ updIdx' = Advance(matched)
    /\ next' = next + 1
    /\ UNCHANGED <<cols, decl, name, table, groups, taken, phase>>

Done ==
    /\ phase = "setters"
    /\ next > Len(groups.setters)
    /\ phase' = "done"
    /\ UNCHANGED <<cols, decl, name, table, groups, taken, next, updIdx, bit>>

Next == FillColumn \/ Finish \/ YieldSetter \/ Done

Spec == Init /\ [][Next]_vars
----------------------------------------------------------------------------
(* Properties. *)

\* Every variable holds a value of its type; the index into the updatable
\* columns stays within them, where the code would panic if it did not.
TypeOK ==
    /\ cols \in Layout
    /\ decl \in Declaration[cols]
    /\ name \in Naming[cols]
    /\ table \in TableOver(Range(cols))
    /\ groups \in [Group -> Seq(Range(cols))]
    /\ taken \subseteq Range(name)
    /\ next \in 1 .. Len(cols) + 1
    /\ updIdx = 0 \/ updIdx \in -1 .. Len(groups.updateValue) - 1
    /\ phase = "setters" => updIdx < Len(groups.updateValue)
    /\ bit \in Seq(-1 .. Len(cols))
    /\ phase \in {"fill", "setters", "done", "error"}

Generated == phase \in {"setters", "done"}

NamesClash ==
    \E c, d \in Range(cols) \ decl.sqlValue : c # d /\ name[c] = name[d]

\* The pass over the columns and the declaration agree: code is generated for
\* the accepted declarations only, and each group has the columns Columns
\* gives it, once each, whatever the order of the columns and the flags the
\* pass amends on its way.
GroupsAsDeclared ==
    /\ Generated =>
        /\ Accepted(decl) /\ ~NamesClash
        /\ table.updateOnConflict = Upsert(decl)
        /\ table.onConflictDoNothing = DoNothing(decl)
        /\ \A g \in Group : IsInjective(groups[g])
        /\ Range(groups.insertValue) = InsertValue(decl)
        /\ Range(groups.insertResult) = InsertResult(decl)
        /\ Range(groups.updateValue) = UpdateValue(decl)
        /\ Range(groups.updateResult) = UpdateResult(decl)
        /\ Range(groups.mutators) = Mutators(decl)
        /\ Range(groups.setters) = Setters(decl)
    /\ phase = "error" => ~Accepted(decl) \/ NamesClash

\* Every setter sets the bit the smart UPDATE tests for its column, and every
\* column the UPDATE tests has a setter: walking the two lists in step never
\* falls behind.
SettersFindTheirBit ==
    phase = "done" /\ ~table.disableActiveRecord =>
        \A i \in DOMAIN groups.updateValue :
            \E n \in DOMAIN groups.setters :
                /\ groups.setters[n] = groups.updateValue[i]
                /\ \A k \in DOMAIN bit : bit[k] = i - 1 <=> k = n

\* Every bit is within updateMask.
BitsFit == \A n \in DOMAIN bit : bit[n] < MaxSetters

=============================================================================
