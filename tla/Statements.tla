----------------------------- MODULE Statements -----------------------------
(***************************************************************************)
(* The statements of the generated code (internal/gen/advpg.go.tmpl): SQL  *)
(* with numbered placeholders, the arguments bound to them, and where the  *)
(* rows of the answer are scanned.  Most statements are fixed: one loop of *)
(* the template numbers the placeholders and another lists the arguments.  *)
(* The others are put together by a QueryBuilder (adv-pg.go), which        *)
(* numbers a placeholder by the arguments it has so far.                   *)
(*                                                                         *)
(* Of its SQL a statement keeps what stands beside each column: a          *)
(* placeholder, a comma.  SQLValue and SQLScan wrap a placeholder or a     *)
(* column and are left out.                                                *)
(***************************************************************************)
EXTENDS Generator, SequencesExt

CONSTANT BatchSize      \* bound: lengths of the slices given to Multi methods

ASSUME BatchSizeAssumption == BatchSize \subseteq Nat \ {0}

----------------------------------------------------------------------------
(* SimpleQuery and QueryBuilder. *)

\* What the SQL says of column c.  role: "set", "add" or "excluded" in SET;
\* "value", "mutator" or "null" in the VALUES of record i; "where"; "returning".
\* n: the number of its placeholder, or 0.  comma: does one precede it?
Piece(role, i, c, n, comma) ==
    [role |-> role, record |-> i, col |-> c, n |-> n, comma |-> comma]

\* An argument or a result: a column of record i, its increments, or their sum.
Expr(what, i, c) == [what |-> what, record |-> i, col |-> c]

Exprs(what, i, list) == [j \in DOMAIN list |-> Expr(what, i, list[j])]

NewSimpleQuery(sql, args, results) ==
    [sql |-> sql, args |-> args, results |-> results]

NewQueryBuilder(sql) == NewSimpleQuery(sql, <<>>, <<>>)

AppendSQL(q, pieces) == [q EXCEPT !.sql = @ \o pieces]

\* Mutation: SetResults in its place.
ReplaceResults(q, exprs) == [q EXCEPT !.results = exprs]

AppendResults(q, exprs) == [q EXCEPT !.results = @ \o exprs]

\* AppendPlaceholderNum, then AppendArgs.
Bind(q, role, comma, x) ==
    [q EXCEPT !.sql = Append(@, Piece(role, x.record, x.col, Len(q.args) + 1, comma)),
              !.args = Append(@, x)]

\* What a loop appends for a column: its piece, and the argument x unless NULL
\* stands in its place.
Item(role, comma, x) == [role |-> role, comma |-> comma, arg |-> x]

AppendItem(q, item) ==
    IF item.role = "null"
    THEN AppendSQL(q, <<Piece("null", item.arg.record, item.arg.col, 0, item.comma)>>)
    ELSE Bind(q, item.role, item.comma, item.arg)

AppendItems(q, items) == FoldLeft(AppendItem, q, items)

\* For each record of a slice its items and its results.
AppendRows(q, rows, results) ==
    FoldLeftDomain(LAMBDA r, i : AppendResults(AppendItems(r, rows[i]), results[i]),
                   q, rows)

----------------------------------------------------------------------------
(* Clauses. *)

\* A list of columns, commas between them.
Listed(role, list) ==
    [j \in DOMAIN list |-> Piece(role, 1, list[j], 0, j > 1)]

\* The same with placeholders, the first of them number base + 1.
Numbered(role, list, base) ==
    [j \in DOMAIN list |-> Piece(role, 1, list[j], base + j, j > 1)]

\* A comma between the mutators in SET, and before them if columns precede.
AddedComma(j) == j > 1 \/ groups.updateValue # <<>>

\* The mutators in SET.
Added(base) ==
    [j \in DOMAIN groups.mutators |->
        Piece("add", 1, groups.mutators[j], base + j, AddedComma(j))]

Where(list, base) ==
    [j \in DOMAIN list |-> Piece("where", 1, list[j], base + j, FALSE)]

----------------------------------------------------------------------------
(* INSERT. *)

InsertArg(i, c) ==
    Expr(IF c \notin table.mutators THEN "data"
         ELSE IF table.updateOnConflict THEN "sum" ELSE "mut", i, c)

\* sqlInsertTail: the placeholders of the mutators follow those of VALUES.
OnConflict ==
    IF table.updateOnConflict
    THEN Listed("excluded", groups.updateValue)
            \o Added(Len(groups.insertValue))
    ELSE <<>>

InsertTail == OnConflict \o Listed("returning", groups.insertResult)

\* iterInsertArgs
InsertArgs ==
    [j \in DOMAIN groups.insertValue |-> InsertArg(1, groups.insertValue[j])]
        \o IF table.updateOnConflict THEN Exprs("mut", 1, groups.mutators) ELSE <<>>

QueryInsert ==
    NewSimpleQuery(Numbered("value", groups.insertValue, 0) \o InsertTail,
                   InsertArgs,
                   Exprs("data", 1, groups.insertResult))

HasInsertMulti == ~(table.updateOnConflict /\ groups.mutators # <<>>)

\* A row of VALUES.
InsertRow(i) ==
    [j \in DOMAIN groups.insertValue |->
        Item("value", j > 1, InsertArg(i, groups.insertValue[j]))]

QueryInsertMulti(size) ==
    AppendSQL(AppendRows(NewQueryBuilder(<<>>),
                         [i \in 1 .. size |-> InsertRow(i)],
                         [i \in 1 .. size |-> Exprs("data", i, groups.insertResult)]),
              InsertTail)

----------------------------------------------------------------------------
(* UPDATE. *)

\* Mutation: the mutators' placeholders are not counted.
FullUpdateWhereEarly(key) == Where(key, Len(groups.updateValue))

FullUpdateWhere(key) ==
    Where(key, Len(groups.updateValue) + Len(groups.mutators))

HasFullUpdate == groups.updateValue # <<>>

QueryFullUpdate(key) ==
    NewSimpleQuery(Numbered("set", groups.updateValue, 0)
                       \o Added(Len(groups.updateValue))
                       \o FullUpdateWhere(key)
                       \o Listed("returning", groups.updateResult),
                   Exprs("data", 1, groups.updateValue)
                       \o Exprs("mut", 1, groups.mutators)
                       \o Exprs("data", 1, key),
                   Exprs("data", 1, groups.updateResult))

\* Mutation: a setter's bit is its position.
MaskByPosition(called) ==
    {k - 1 : k \in {j \in DOMAIN bit : groups.setters[j] \in called}}

\* updateMask after the setters in called.
MaskOf(called) ==
    {bit[k] : k \in {j \in DOMAIN bit : groups.setters[j] \in called}} \ {-1}

\* Mutation: a comma before each column but the table's first.
CommaByIndex(q, list, j) == j > 1

\* Does a comma precede the j-th column of list?
CommaBefore(q, list, j) == q.args # <<>>

\* The columns of list that changed, which stand at the places in changed.
AppendChanged(q, role, what, list, changed) ==
    FoldLeftDomain(LAMBDA r, j :
                       IF j \in changed
                       THEN Bind(r, role, CommaBefore(r, list, j),
                                 Expr(what, 1, list[j]))
                       ELSE r,
                   q, list)

\* The columns of the key of record i.  (The commas and the AND that the template
\* writes between columns and rows of a key are left out.)
KeyItems(i, key) ==
    [j \in DOMAIN key |-> Item("where", FALSE, Expr("data", i, key[j]))]

\* queryUpdate: what the setters in called and the mutators in counted changed.
QueryUpdate(key, called, counted) ==
    LET set == AppendChanged(NewQueryBuilder(<<>>), "set", "data", groups.updateValue,
                             {b + 1 : b \in MaskOf(called)})
        added == AppendChanged(set, "add", "mut", groups.mutators,
                               {j \in DOMAIN groups.mutators :
                                   groups.mutators[j] \in counted})
    IN AppendResults(AppendSQL(AppendItems(added, KeyItems(1, key)),
                               Listed("returning", groups.updateResult)),
                     Exprs("data", 1, groups.updateResult))

\* Mutation: the key is not among the values.
KindKeyless(c) ==
    IF c \in Range(groups.updateValue) THEN "value"
    ELSE IF c \in Range(groups.mutators) THEN "mutator"
    ELSE "null"

\* UpdateMultiAllColumns: every column of the table is in VALUES.
Kind(c) ==
    IF c \in table.primaryKey \cup Range(groups.updateValue) THEN "value"
    ELSE IF c \in Range(groups.mutators) THEN "mutator"
    ELSE "null"

\* The row of record i in VALUES.
UpdateRow(i) ==
    [j \in DOMAIN cols |->
        Item(Kind(cols[j]), j > 1,
             Expr(IF Kind(cols[j]) = "mutator" THEN "mut" ELSE "data", i, cols[j]))]

UpdateMultiHead ==
    Listed("set", groups.updateValue)
        \o [j \in DOMAIN groups.mutators |->
               Piece("add", 1, groups.mutators[j], 0, AddedComma(j))]

UpdateMultiTail(key) ==
    [j \in DOMAIN key |-> Piece("where", 1, key[j], 0, FALSE)]
        \o Listed("returning", groups.updateResult)

\* queryUpdateMulti: SET and WHERE take their columns from the rows of VALUES.
QueryUpdateMulti(key, size) ==
    AppendSQL(AppendRows(NewQueryBuilder(UpdateMultiHead),
                         [i \in 1 .. size |-> UpdateRow(i)],
                         [i \in 1 .. size |-> Exprs("data", i, groups.updateResult)]),
              UpdateMultiTail(key))

----------------------------------------------------------------------------
(* SELECT and DELETE. *)

QuerySelectMutators(key) ==
    NewSimpleQuery(Where(key, 0) \o Listed("returning", groups.mutators),
                   Exprs("data", 1, key),
                   Exprs("data", 1, groups.mutators))

QueryDelete(key) ==
    NewSimpleQuery(Where(key, 0), Exprs("data", 1, key), <<>>)

\* queryDeleteMulti, and the DELETE by a slice of key structs.
QueryDeleteMulti(key, size) ==
    AppendRows(NewQueryBuilder(<<>>), [i \in 1 .. size |-> KeyItems(i, key)],
               [i \in 1 .. size |-> <<>>])

\* The SELECT by an index.
QuerySelect(key) ==
    NewSimpleQuery(Listed("returning", cols) \o Where(key, 0),
                   Exprs("data", 1, key), Exprs("data", 1, cols))

\* The SELECT by a slice of key structs.
QuerySelectMulti(key, size) ==
    AppendResults(AppendSQL(QueryDeleteMulti(key, size), Listed("returning", cols)),
                  Exprs("data", 1, cols))

----------------------------------------------------------------------------
(* Properties. *)

\* Each column alone, and all but it.
Selections(S) ==
    {{}, S} \cup {{c} : c \in S} \cup {S \ {c} : c \in S}

\* The primary key's columns in any order.
Keys == SetToSeqs(table.primaryKey)

\* The arguments of queryUpdate; with nothing changed no UPDATE is issued.
Changes ==
    {x \in Selections(Range(groups.setters)) \X Selections(Range(groups.mutators)) :
        MaskOf(x[1]) # {} \/ x[2] # {}}

InsertQueries ==
    {QueryInsert}
        \cup {QueryInsertMulti(n) : n \in IF HasInsertMulti THEN BatchSize ELSE {}}

SelectQueries(keys) ==
    {QuerySelect(keys)} \cup {QuerySelectMulti(keys, n) : n \in BatchSize}

KeyQueries(key) ==
    {QueryDelete(key)}
        \cup {QueryDeleteMulti(key, n) : n \in BatchSize}
        \cup (IF HasFullUpdate
              THEN {QueryFullUpdate(key)} \cup {QueryUpdateMulti(key, n) : n \in BatchSize}
              ELSE {})
        \cup (IF table.disableActiveRecord THEN {}
              ELSE {QueryUpdate(key, x[1], x[2]) : x \in Changes})
        \cup (IF groups.mutators = <<>> THEN {} ELSE {QuerySelectMutators(key)})

\* The statements generated for the table.
Queries ==
    InsertQueries \cup SelectQueries(cols)
        \cup UNION {KeyQueries(key) \cup SelectQueries(key) : key \in Keys \ {<<>>}}

\* What is passed for the placeholder of a piece of SQL.
Meant(p) ==
    CASE p.role \in {"set", "where"} -> Expr("data", p.record, p.col)
      [] p.role \in {"add", "mutator"} -> Expr("mut", p.record, p.col)
      [] p.role = "value" -> InsertArg(p.record, p.col)

\* Every placeholder is bound to what is meant for its column and its record,
\* and no argument is without a placeholder, which PostgreSQL refuses: the loops
\* that number the placeholders and those that list the arguments agree.
PlaceholdersMatch ==
    phase = "done" =>
        \A q \in Queries :
            /\ \A p \in Range(q.sql) :
                  p.n # 0 => p.n \in DOMAIN q.args /\ q.args[p.n] = Meant(p)
            /\ DOMAIN q.args \subseteq {p.n : p \in Range(q.sql)}

IsValue(p) == p.role \in {"value", "mutator", "null"}

\* SET, RETURNING and the row of each record are lists of their own.
SameList(p, r) ==
    /\ p.record = r.record
    /\ \E roles \in {{"set", "add", "excluded"}, {"returning"},
                     {"value", "mutator", "null"}} : {p.role, r.role} \subseteq roles

\* A comma precedes every piece of a list but the first, also where columns of
\* an UPDATE are left out because they did not change.  (The lists are those of
\* columns, SET, VALUES and RETURNING; the keys of a WHERE are not among them.)
ListsSeparated ==
    phase = "done" =>
        \A q \in Queries : \A j \in DOMAIN q.sql :
            q.sql[j].comma <=> \E h \in 1 .. j - 1 : SameList(q.sql[h], q.sql[j])

ColumnsOf(q, role) == {p.col : p \in {r \in Range(q.sql) : r.role = role}}

\* RETURNING ends q.  Are the results its columns, for each of n records?
InTurn(q, n) ==
    \E base \in 0 .. Len(q.sql) :
        LET list == SubSeq(q.sql, base + 1, Len(q.sql))
        IN /\ \A j \in DOMAIN q.sql : q.sql[j].role = "returning" <=> j > base
           /\ Len(q.results) = n * Len(list)
           /\ \A i \in 1 .. n, m \in 1 .. Len(list) :
                 q.results[(i - 1) * Len(list) + m] = Expr("data", i, list[m].col)

\* The results are the columns of RETURNING, in its order, for each record of
\* the slice in turn: InsertMulti and UpdateMulti scan the rows of the answer
\* into consecutive stretches of that length.  (A smart UPDATE is put together
\* and scanned like an INSERT; UpdateSendsChanges looks at what it returns.)
ResultsFollowReturning ==
    phase = "done" =>
        /\ InTurn(QueryInsert, 1)
        /\ \A n \in BatchSize : HasInsertMulti => InTurn(QueryInsertMulti(n), n)
        /\ \A key \in Keys \ {<<>>} :
              /\ HasFullUpdate => InTurn(QueryFullUpdate(key), 1)
              /\ \A n \in BatchSize :
                    HasFullUpdate => InTurn(QueryUpdateMulti(key, n), n)

\* A smart UPDATE sets the columns whose setters were called and that an UPDATE
\* may write, adds to the counters that were counted on, and finds the row by
\* the whole key: a setter's bit, found by the generator, is the bit that
\* queryUpdate tests.
UpdateSendsChanges ==
    phase = "done" /\ ~table.disableActiveRecord /\ HasKey(table) =>
        \A key \in Keys, x \in Changes :
            LET q == QueryUpdate(key, x[1], x[2])
            IN /\ ColumnsOf(q, "set") = x[1] \cap UpdateValue(decl)
               /\ ColumnsOf(q, "add") = x[2]
               /\ ColumnsOf(q, "where") = decl.primaryKey
               /\ ColumnsOf(q, "returning") = UpdateResult(decl)

\* The row of a record in UpdateMulti's VALUES has a value for each of the table's
\* columns, in their order, as the cast to the table's type requires; a column
\* that SET or WHERE reads is not NULL in it, and nothing else is sent.
UpdateMultiRowsFit ==
    phase = "done" /\ HasKey(table) /\ HasFullUpdate =>
        \A key \in Keys, n \in BatchSize : \A i \in 1 .. n :
            LET q == QueryUpdateMulti(key, n)
            IN \E base \in 0 .. Len(q.sql) :
                LET row == SubSeq(q.sql, base + 1, base + Len(cols))
                    sent(role) == {p.col : p \in {r \in Range(row) : r.role = role}}
                IN /\ \A j \in DOMAIN q.sql :
                         q.sql[j].record = i /\ IsValue(q.sql[j])
                             <=> base < j /\ j <= base + Len(cols)
                   /\ [j \in DOMAIN row |-> row[j].col] = cols
                   /\ sent("value") = ColumnsOf(q, "set") \cup ColumnsOf(q, "where")
                   /\ sent("mutator") = ColumnsOf(q, "add")
=============================================================================
