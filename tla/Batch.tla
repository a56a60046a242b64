------------------------------- MODULE Batch -------------------------------
(***************************************************************************)
(* InsertMulti, UpdateMulti and DeleteMulti (internal/gen/advpg.go.tmpl):  *)
(* one statement for a slice of records.  RETURNING gives a row for each   *)
(* row stored, without saying which record it belongs to; the rows are     *)
(* scanned into the records by position and then counted.                  *)
(*                                                                         *)
(* One goroutine owns the slice and leaves it alone during a call, so the  *)
(* arguments captured by a call are functions of the slice.  Other         *)
(* programs insert and delete rows at any time.                            *)
(*                                                                         *)
(* External: rows come back in the order of VALUES, which doc.go relies on *)
(* for INSERT and for UPDATE; a row matched by several records is updated  *)
(* with one of them.                                                       *)
(***************************************************************************)
EXTENDS Records, Sequences, Functions

CONSTANTS
    Size,           \* the length of the slice
    MaxCalls,       \* bound: DAO calls
    MaxForeign,     \* bound: rows inserted and deleted by others
    MaxMut          \* bound: absolute value of a mutator counter

Slot == 1 .. Size

ASSUME BatchAssumption ==
    /\ Size \in Nat \ {0}
    /\ MaxCalls \in Nat
    /\ MaxForeign \in Nat
    /\ MaxMut \in Nat

VARIABLES
    db,         \* the table: the row stored under each key
    used,       \* keys the storage has handed out
    slice,      \* the records
    call,       \* the call in progress
    calls,      \* how many calls have been made
    foreign,    \* how many rows others have inserted and deleted
    \* history variables, read by the properties only
    known,      \* the value of each UpdateValue column of each record when it
                \* was last written to or read from the table
    owed        \* increments asked for and not yet acknowledged as stored

vars == <<db, used, slice, call, calls, foreign, known, owed>>
storage == <<db, used, foreign>>

Idle == [phase |-> "idle"]

----------------------------------------------------------------------------
(* The statements. *)

\* One row of the INSERT's VALUES.
InsertRow(r) ==
    [set |-> InsertValue(Table) \cap Field, add |-> r.mut,
     val |-> [f \in Field |-> InsertArg(r, f)]]

\* Mutation: the counters' placeholders are NULL too.
UpdateRowUncounted(r) == [set |-> Written, add |-> NoChange, val |-> r.data]

\* One row of the UPDATE's VALUES: all the columns FullUpdate writes.
UpdateRow(r) == [set |-> Written, add |-> r.mut, val |-> r.data]

\* The RETURNING columns.
Results(op) ==
    CASE op = "InsertMulti" -> InsertResult(Table)
      [] op = "UpdateMulti" -> UpdateResult(Table)
      [] op = "DeleteMulti" -> {}

----------------------------------------------------------------------------
(* What PostgreSQL does with a statement, in one atomic step. *)

\* Every choice of one element of options[i] for each i in S.
OneEach(S, options) ==
    {f \in [S -> UNION {options[i] : i \in S}] : \A i \in S : f[i] \in options[i]}

\* The records in S, in the order of VALUES.
InOrder(S) ==
    CHOOSE s \in [1 .. Cardinality(S) -> S] :
        \A m, n \in DOMAIN s : m < n => s[m] < s[n]

\* A row is stored for each record in S, under key[i] and in place of old[i].
Stored(S, key, row, old) ==
    LET order == InOrder(S)
    IN [status |-> "done",
        rows |-> [n \in 1 .. Cardinality(S) |->
                    LET i == order[n]
                    IN [of |-> i, key |-> key[i], row |-> row[i],
                        effect |-> Diff(row[i], old[i])]]]

Refused == [status |-> "error", rows |-> <<>>]

\* The keys the rows of an INSERT may end up with.
InsertKeys ==
    IF KeyByStorage
    THEN {k \in [Slot -> Key \ used] : IsInjective(k)}
    ELSE {[i \in Slot |-> slice[i].key]}

\* Does record i find its key free, also by the records before it?
FindsFree(k, i) == db[k[i]] = NoRow /\ \A j \in 1 .. i - 1 : k[j] # k[i]

\* A record that does not is skipped by DO NOTHING; DO UPDATE refuses to touch
\* a row of its own statement.
InsertAnswers ==
    UNION {
        LET free == {i \in Slot : FindsFree(k, i)}
            arg == [i \in Slot |-> InsertRow(slice[i])]
            rows == [i \in Slot |->
                       IF i \in free THEN {Inserted(arg[i])}
                       ELSE Triggered(Merged(db[k[i]], arg[i]))]
            old == [i \in Slot |->
                       IF i \in free THEN Uncounted(arg[i]) ELSE db[k[i]]]
        IN IF free = Slot \/ (Upsert(Table) /\ IsInjective(k))
           THEN {Stored(Slot, k, row, old) : row \in OneEach(Slot, rows)}
           ELSE IF DoNothing(Table)
           THEN {Stored(free, k, row, old) : row \in OneEach(free, rows)}
           ELSE {Refused}
      : k \in InsertKeys}

\* Each row that exists is updated once, with one of the records that have its
\* key.
UpdateAnswers ==
    LET key == [i \in Slot |-> slice[i].key]
        old == [i \in Slot |-> db[key[i]]]
        found == {i \in Slot : old[i] # NoRow}
        rows == [i \in found |-> Triggered(Updated(old[i], UpdateRow(slice[i])))]
    IN UNION {{Stored(S, key, row, old) : row \in OneEach(S, rows)} :
                 S \in {T \in SUBSET found :
                           \A i \in found : \E j \in T :
                              /\ key[j] = key[i]
                              /\ \A l \in T : key[l] = key[i] => l = j}}

Answers(op) ==
    CASE op = "InsertMulti" -> InsertAnswers
      [] op = "UpdateMulti" -> UpdateAnswers
      [] op = "DeleteMulti" -> {[status |-> "done", rows |-> <<>>]}

\* The row an answer leaves under a key.
RowAfter(k, op, a) ==
    IF op = "DeleteMulti" /\ \E i \in Slot : slice[i].key = k THEN NoRow
    ELSE IF \E n \in DOMAIN a.rows : a.rows[n].key = k
    THEN a.rows[CHOOSE n \in DOMAIN a.rows : a.rows[n].key = k].row
    ELSE db[k]

Execute ==
    /\ call.phase = "sent"
    /\ \E a \in Answers(call.op) :
         /\ call' = [phase |-> "answered", op |-> call.op, reply |-> a]
         /\ db' = [k \in Key |-> RowAfter(k, call.op, a)]
         /\ used' = IF call.op = "InsertMulti" /\ KeyByStorage
                    THEN used \cup {a.rows[n].key : n \in DOMAIN a.rows}
                    ELSE used
    /\ UNCHANGED <<slice, calls, foreign, known, owed>>

\* Another program inserts or deletes a row, or executes late a statement of
\* ours whose caller gave up.
Foreign(k) ==
    /\ foreign < MaxForeign
    /\ foreign' = foreign + 1
    /\ \/ db[k] # NoRow /\ db' = [db EXCEPT ![k] = NoRow]
       \/ /\ db[k] = NoRow
          /\ KeyByStorage => k \in used
          /\ db' = [db EXCEPT ![k] = Default]
    /\ UNCHANGED <<used, slice, call, calls, known, owed>>

----------------------------------------------------------------------------
(* Steps of the application on its records, between calls. *)

CanEdit == call.phase = "idle" /\ calls < MaxCalls

\* A record is made anew, or read by a SELECT.
Place(i, k, data) ==
    /\ CanEdit
    /\ slice' = [slice EXCEPT ![i] = Fresh(k, data)]
    /\ known' = [known EXCEPT ![i] = [f \in Written |-> data[f]]]
    /\ owed' = [owed EXCEPT ![i] = NoChange]
    /\ UNCHANGED <<storage, call, calls>>

Set(i, f, v) ==
    /\ CanEdit
    /\ f \in Setters(Table)
    /\ slice' = [slice EXCEPT ![i] = SetColumn(@, f, v)]
    /\ UNCHANGED <<storage, call, calls, known, owed>>

Add(i, m, x) ==
    /\ CanEdit
    /\ slice[i].mut[m] + x \in -MaxMut .. MaxMut
    /\ slice' = [slice EXCEPT ![i].mut[m] = @ + x]
    /\ owed' = [owed EXCEPT ![i][m] = @ + x]
    /\ UNCHANGED <<storage, call, calls, known>>

----------------------------------------------------------------------------
(* The calls. *)

Call(op) ==
    /\ call.phase = "idle"
    /\ calls < MaxCalls
    /\ calls' = calls + 1
    /\ call' = [phase |-> "sent", op |-> op]
    /\ UNCHANGED <<storage, slice, known, owed>>

\* Is InsertMulti generated?  Not for an upserted table with counters.
HasInsertMulti == ~(Upsert(Table) /\ Counter # {})

InsertMulti == HasInsertMulti /\ Call("InsertMulti")

UpdateMulti == Written # {} /\ Call("UpdateMulti")

DeleteMulti == Call("DeleteMulti")

\* The records after the first n rows have been scanned.
Scanned(op, rows, n) ==
    [i \in Slot |-> IF i <= n THEN Scan(slice[i], Results(op), rows[i])
                    ELSE slice[i]]

\* Mutation: a batch that falls short is not noticed.
ShortUnnoticed(op, a) == FALSE

\* Fewer rows than records: not checked where DO NOTHING may skip some, or
\* where there is nothing to return.
Short(op, a) ==
    /\ Results(op) # {}
    /\ ~(op = "InsertMulti" /\ DoNothing(Table))
    /\ Len(a.rows) < Size

\* Mutation: the records are reset before the rows are counted.
ResetsAlways(op, a) == a.status = "done" /\ op # "DeleteMulti"

Resets(op, a) ==
    a.status = "done" /\ ~Short(op, a) /\ op # "DeleteMulti"

\* The row an answer says was stored for record i.
Own(a, i) ==
    {a.rows[n] : n \in {l \in DOMAIN a.rows : a.rows[l].of = i}}

\* known and owed, after the columns cols of record i have been exchanged.
Learned(i, a, cols) ==
    [f \in Written |->
        IF f \in cols /\ Own(a, i) # {}
        THEN (CHOOSE row \in Own(a, i) : TRUE).row[f]
        ELSE known[i][f]]

Settled(i, a) ==
    IF Own(a, i) = {} THEN owed[i]
    ELSE Diff(owed[i], (CHOOSE row \in Own(a, i) : TRUE).effect)

\* n rows are read, and the records stay as they were otherwise.
Read(n) ==
    /\ slice' = Scanned(call.op, call.reply.rows, n)
    /\ known' = [i \in Slot |->
                   IF i <= n THEN Learned(i, call.reply, Results(call.op))
                   ELSE known[i]]
    /\ UNCHANGED owed

Return ==
    /\ call.phase = "answered"
    /\ LET op == call.op
           a == call.reply
           n == IF Results(op) = {} THEN 0 ELSE Len(a.rows)
       IN IF Resets(op, a)
          THEN /\ slice' = [i \in Slot |-> Reset(Scanned(op, a.rows, n)[i])]
               /\ known' = [i \in Slot |-> Learned(i, a, Written)]
               /\ owed' = [i \in Slot |-> Settled(i, a)]
          ELSE Read(n)
    /\ call' = Idle
    /\ UNCHANGED <<storage, calls>>

\* The call returns an error: the deadline passed or the connection broke,
\* after some rows had been read perhaps.
Fail ==
    /\ call.phase # "idle"
    /\ \/ UNCHANGED <<slice, known, owed>>
       \/ /\ call.phase = "answered"
          /\ Results(call.op) # {}
          /\ \E n \in 1 .. Len(call.reply.rows) : Read(n)
    /\ call' = Idle
    /\ UNCHANGED <<storage, calls>>

----------------------------------------------------------------------------
Init ==
    /\ db = [k \in Key |-> NoRow]
    /\ used = {}
    /\ \E k \in Key : slice = [i \in Slot |-> Fresh(k, BlankRow)]
    /\ call = Idle
    /\ calls = 0
    /\ foreign = 0
    /\ known = [i \in Slot |-> [f \in Written |-> Blank]]
    /\ owed = [i \in Slot |-> NoChange]

Edit(i) ==
    \/ \E k \in Key : Place(i, k, BlankRow)
    \/ \E k \in Key : db[k] # NoRow /\ Place(i, k, db[k])
    \/ \E f \in Field, v \in Value : Set(i, f, v)
    \/ \E m \in Counter, x \in Delta : Add(i, m, x)

Next ==
    \/ \E i \in Slot : Edit(i)
    \/ InsertMulti
    \/ UpdateMulti
    \/ DeleteMulti
    \/ Execute
    \/ Return
    \/ Fail
    \/ \E k \in Key : Foreign(k)

Spec == Init /\ [][Next]_vars
----------------------------------------------------------------------------
(* Properties. *)

\* Every variable holds a value of its type; a bit is set for no column that
\* the UPDATE does not write.
TypeOK ==
    /\ db \in [Key -> Row \cup {NoRow}]
    /\ used \subseteq Key
    /\ slice \in [Slot -> Record]
    /\ call.phase \in {"idle", "sent", "answered"}
    /\ call.phase = "answered" =>
          /\ Len(call.reply.rows) <= Size
          /\ \A n \in DOMAIN call.reply.rows :
                LET r == call.reply.rows[n]
                IN r.of \in Slot /\ r.key \in Key /\ r.row \in Row
    /\ calls \in 0 .. MaxCalls
    /\ foreign \in 0 .. MaxForeign
    /\ known \in [Slot -> [Written -> Int]]
    /\ owed \in [Slot -> Change]

\* The increments pending in a record are those asked for and not yet added to
\* its row by a batch that succeeded: a batch that finds only some of its rows,
\* or is read only in part, gives none up.  (InsertMulti resets every record, so
\* this holds of tables whose counters it writes and of whose records it skips
\* none; see CountsStored in Batch_proofs.)
BatchCounters == \A i \in Slot : slice[i].mut = owed[i]

\* A column whose bit is clear holds what was last exchanged with the record's
\* own row, whatever was scanned into its neighbours.
BatchTracking ==
    \A i \in Slot : \A f \in Written \ slice[i].mask :
        slice[i].data[f] = known[i][f]

\* When a batch with RETURNING columns succeeds, each record has the values of
\* its own row, and different records have different rows: scanning by position
\* gave none the row of another.  (doc.go excepts DO NOTHING.)
BatchReturnsActual ==
    [][LET op == call.op
           a == call.reply
       IN Return /\ Resets(op, a) /\ Results(op) # {}
              /\ ~(op = "InsertMulti" /\ DoNothing(Table))
          => \A i \in Slot : \E own \in Own(a, i) :
                /\ slice'[i].key = own.key
                /\ \A f \in Results(op) \cap Field :
                      slice'[i].data[f] = own.row[f]
                /\ \A j \in Slot \ {i} : slice'[j].key # slice'[i].key]_vars

----------------------------------------------------------------------------
(* What the documentation says and some slice contradicts. *)

\* doc.go, UpdateMulti: equivalent to calling FullUpdate for each record.  A
\* row that exists then holds the values of the last record with its key.
EquivalentToFullUpdates ==
    [][Execute /\ call.op = "UpdateMulti" /\ ~Short(call.op, call'.reply)
       => \A i \in Slot :
             \/ db[slice[i].key] = NoRow
             \/ \E j \in i + 1 .. Size : slice[j].key = slice[i].key
             \/ \A f \in Written : db'[slice[i].key][f] = slice[i].data[f]]_vars
=============================================================================
