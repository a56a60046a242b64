---------------------------- MODULE ActiveRecord ----------------------------
(***************************************************************************)
(* The generated record and its DAO (internal/gen/advpg.go.tmpl) against   *)
(* one PostgreSQL table, whose declaration is any that Records assumes.    *)
(*                                                                         *)
(* A client is a goroutine that owns one Record and calls the DAO with it. *)
(* A call captures a statement, the server executes it as one atomic step, *)
(* the answer is scanned into the record and the change flags are reset.   *)
(* Clients interleave between these steps.  A call may fail at any moment  *)
(* (deadline, lost connection); a statement whose caller gave up may still *)
(* be executed later.                                                      *)
(*                                                                         *)
(* Records has the record in memory and what a statement makes of a row.   *)
(***************************************************************************)
EXTENDS Records

CONSTANTS
    Client,             \* goroutines, each with a record of its own
    Earlier,            \* keys under which another program has stored a row
    Issued,             \* bound: the operations of the statements clients issue
    MaxCalls,           \* bound: DAO calls, by all clients
    MaxMut,             \* bound: absolute value of a mutator counter
    CountBeforeInsert   \* may a record be counted on before its first INSERT?

Op == {"Insert", "Update", "FullUpdate", "Refresh", "Select", "Delete"}
Stored  == {"Insert", "Update", "FullUpdate"}
Writing == Stored \cup {"Delete"}

ASSUME BoundAssumption ==
    /\ Earlier \subseteq Key
    /\ Issued \subseteq Op
    /\ MaxCalls \in Nat
    /\ CountBeforeInsert \in BOOLEAN

VARIABLES
    db,         \* the table: the row stored under each key
    used,       \* keys the storage has handed out (a sequence never repeats)
    late,       \* statements the server may execute though the caller gave up
    rec,        \* the record of each client
    call,       \* the DAO call each client is in
    calls,      \* how many calls have been made
    \* history variables, read by the properties only
    known,      \* the value of each UpdateValue column when it was last
                \* written to or read from the table
    touched,    \* columns changed by Set/Inc/Dec/Add since the last exchange
    owed        \* increments asked for and not yet acknowledged as stored

vars == <<db, used, late, rec, call, calls, known, touched, owed>>
history == <<known, touched, owed>>
storage == <<db, used, late>>

Idle == [phase |-> "idle"]

Statement ==
    [op : Op, by : Client, n : Nat, key : Key,
     set : SUBSET Field, val : Row,
     add : Change, changed : SUBSET Field]

Reply == [status : {"row", "norow", "error"}, key : Key, row : Row \cup {NoRow},
          effect : Change]

----------------------------------------------------------------------------
(* The statements. *)

\* set is the columns the statement writes, val[f] the argument for f in set.
Query(c, op, set) ==
    [op |-> op, by |-> c, n |-> calls, key |-> rec[c].key, set |-> set,
     val |-> [f \in Field |-> IF f \notin set THEN 0
                              ELSE IF op = "Insert" THEN InsertArg(rec[c], f)
                              ELSE rec[c].data[f]],
     add |-> IF op \in Stored THEN rec[c].mut ELSE NoChange,
     changed |-> IF op = "Update" THEN touched[c] ELSE {}]

InsertQuery(c) == Query(c, "Insert", InsertValue(Table) \cap Field)

\* Mutation: Update sends every column.
UpdateEverything(c) == Query(c, "Update", Written)

\* Smart UPDATE: only the columns whose bit is set.  A counter at zero is
\* left out of SET, which is adding zero.
UpdateQuery(c) == Query(c, "Update", rec[c].mask)

FullUpdateQuery(c) == Query(c, "FullUpdate", Written)

----------------------------------------------------------------------------
(* What PostgreSQL does with a statement, in one atomic step. *)

Answer(status, k, row, effect) ==
    [status |-> status, key |-> k, row |-> row, effect |-> effect]

\* The keys an INSERT may end up with.
InsertKeys(s) == IF KeyByStorage THEN Key \ used ELSE {s.key}

InsertAnswers(s) ==
    UNION {
        IF db[k] = NoRow
        THEN {Answer("row", k, Inserted(s), Diff(Inserted(s), Uncounted(s)))}
        ELSE IF Upsert(Table)
        THEN {Answer("row", k, row, Diff(row, db[k])) :
                 row \in Triggered(Merged(db[k], s))}
        ELSE IF DoNothing(Table)
        THEN {Answer("norow", k, db[k], NoChange)}
        ELSE {Answer("error", k, db[k], NoChange)}
      : k \in InsertKeys(s)}

UpdateAnswers(s) ==
    {Answer("row", s.key, row, Diff(row, db[s.key])) :
        row \in Triggered(Updated(db[s.key], s))}

\* Every answer to s, with the row it leaves behind under the answer's key.
Answers(s) ==
    IF s.op = "Insert" THEN InsertAnswers(s)
    ELSE IF db[s.key] = NoRow THEN {Answer("norow", s.key, NoRow, NoChange)}
    ELSE CASE s.op \in {"Update", "FullUpdate"} -> UpdateAnswers(s)
           [] s.op \in {"Select", "Refresh"} ->
                {Answer("row", s.key, db[s.key], NoChange)}
           [] s.op = "Delete" -> {Answer("row", s.key, NoRow, NoChange)}

Effect(s, a) ==
    /\ db' = [db EXCEPT ![a.key] = a.row]
    /\ used' = IF s.op = "Insert" /\ KeyByStorage THEN used \cup {a.key} ELSE used

----------------------------------------------------------------------------
(* Steps of the application on its record, between DAO calls. *)

Free(c) == call[c].phase = "idle"

\* Bound: a record is of no more use after the last call.
CanEdit(c) == Free(c) /\ calls < MaxCalls

New(c, k) ==
    /\ CanEdit(c)
    /\ rec' = [rec EXCEPT ![c] = Fresh(k, BlankRow)]
    /\ known' = [known EXCEPT ![c] = [f \in Written |-> Blank]]
    /\ touched' = [touched EXCEPT ![c] = {}]
    /\ owed' = [owed EXCEPT ![c] = NoChange]
    /\ UNCHANGED <<storage, call, calls>>

Set(c, f, v) ==
    /\ CanEdit(c)
    /\ f \in Setters(Table)
    /\ rec' = [rec EXCEPT ![c] = SetColumn(@, f, v)]
    /\ touched' = [touched EXCEPT ![c] = @ \cup {f}]
    /\ UNCHANGED <<storage, call, calls, known, owed>>

\* A setter of a primary key column changes the data only.
SetKey(c, k) ==
    /\ CanEdit(c)
    /\ Table.primaryKey \cap Setters(Table) # {}
    /\ rec' = [rec EXCEPT ![c].key = k]
    /\ UNCHANGED <<storage, call, calls, history>>

\* Inc, Dec and Add.
Add(c, m, x) ==
    /\ CanEdit(c)
    /\ rec[c].mut[m] + x \in -MaxMut .. MaxMut
    /\ rec' = [rec EXCEPT ![c].mut[m] = @ + x]
    /\ touched' = [touched EXCEPT ![c] = @ \cup {m}]
    /\ owed' = [owed EXCEPT ![c][m] = @ + x]
    /\ UNCHANGED <<storage, call, calls, known>>

----------------------------------------------------------------------------
(* DAO calls. *)

Call(c, s) ==
    /\ Free(c)
    /\ s.op \in Issued
    /\ calls < MaxCalls
    /\ calls' = calls + 1
    /\ call' = [call EXCEPT ![c] = [phase |-> "sent", stmt |-> s]]
    /\ UNCHANGED <<storage, rec, history>>

Insert(c) ==
    /\ CountBeforeInsert \/ rec[c].mut = NoChange
    /\ Call(c, InsertQuery(c))

\* A record with nothing to write reads its counters instead; without
\* counters no statement is issued and Update returns nil.
Update(c) ==
    /\ Written \cup Counter # {}
    /\ \/ /\ ~Unchanged(rec[c])
          /\ Call(c, UpdateQuery(c))
       \/ /\ Unchanged(rec[c])
          /\ Counter # {}
          /\ Call(c, Query(c, "Refresh", {}))
       \/ /\ Free(c)
          /\ Unchanged(rec[c])
          /\ Counter = {}
          /\ UNCHANGED vars

FullUpdate(c) ==
    /\ Written # {}
    /\ Call(c, FullUpdateQuery(c))

Delete(c) == Call(c, Query(c, "Delete", {}))

\* SelectBy<PrimaryKey>(k); the record it returns replaces the client's.
Select(c, k) == Call(c, [Query(c, "Select", {}) EXCEPT !.key = k])

----------------------------------------------------------------------------
(* The server. *)

Execute(c) ==
    /\ call[c].phase = "sent"
    /\ \E a \in Answers(call[c].stmt) :
         /\ Effect(call[c].stmt, a)
         /\ call' = [call EXCEPT ![c] =
                       [phase |-> "answered", stmt |-> call[c].stmt, reply |-> a]]
    /\ UNCHANGED <<late, rec, calls, history>>

\* A statement whose caller is gone.
ExecuteLate(s) ==
    /\ \E a \in Answers(s) : Effect(s, a)
    /\ late' = late \ {s}
    /\ UNCHANGED <<rec, call, calls, history>>

----------------------------------------------------------------------------
(* The end of a DAO call. *)

\* The columns of the RETURNING clause, scanned into the record itself.  (A
\* SELECT is scanned into a new record.)
Results(op) ==
    CASE op = "Insert" -> InsertResult(Table)
      [] op \in {"Update", "FullUpdate"} -> UpdateResult(Table)
      [] op = "Refresh" -> Counter
      [] OTHER -> {}

\* Mutation: the error of a SELECT's Scan is not looked at.
AbsorbUnchecked(r, s, a) ==
    IF s.op = "Select" THEN Fresh(a.key, a.row) ELSE r

\* Mutation: an INSERT that was ignored resets the record.
AbsorbIgnored(r, s, a) == IF s.op = "Insert" THEN Reset(r) ELSE r

\* Mutation: the flags survive an INSERT.
AbsorbFlagged(r, s, a) ==
    IF s.op = "Insert" /\ a.status = "row"
    THEN Scan(r, Results(s.op), a)
    ELSE r

\* The record after a call that got answer a to statement s.
Absorb(r, s, a) ==
    CASE s.op \in Stored \cup {"Refresh"} /\ a.status = "row" ->
            Reset(Scan(r, Results(s.op), a))
      [] s.op = "Insert" /\ a.status = "norow" ->
            IF InsertResult(Table) = {} THEN Reset(r) ELSE r
      [] s.op = "Select" /\ a.status = "row" -> Fresh(a.key, a.row)
      [] OTHER -> r

\* What the call returns.  An INSERT ignored by ON CONFLICT DO NOTHING succeeds.
Outcome(s, a) ==
    IF a.status = "error" THEN "error"
    ELSE IF a.status = "row" \/ s.op = "Insert" THEN "nil"
    ELSE "ErrNoRows"

\* The fields whose stored value the answer tells the client: those the
\* statement wrote, and all of them for an INSERT or a SELECT.
Exchanged(s) == IF s.op \in {"Insert", "Select"} THEN Field ELSE s.set

Return(c) ==
    /\ call[c].phase = "answered"
    /\ LET s == call[c].stmt
           a == call[c].reply
           done == a.status = "row" /\ s.op # "Delete"
       IN /\ rec' = [rec EXCEPT ![c] = Absorb(@, s, a)]
          /\ known' = IF done
                      THEN [known EXCEPT ![c] =
                              [f \in Written |->
                                 IF f \in Exchanged(s) THEN a.row[f] ELSE @[f]]]
                      ELSE known
          /\ touched' = IF done THEN [touched EXCEPT ![c] = {}] ELSE touched
          /\ owed' = IF ~done THEN owed
                     ELSE IF s.op = "Select"
                     THEN [owed EXCEPT ![c] = NoChange]
                     ELSE [owed EXCEPT ![c] = Diff(@, a.effect)]
          /\ call' = [call EXCEPT ![c] = Idle]
    /\ UNCHANGED <<storage, calls>>

\* Mutation: the record is reset without looking at the error.
FailResets(c) ==
    /\ call[c].phase # "idle"
    /\ rec' = [rec EXCEPT ![c] = Reset(@)]
    /\ call' = [call EXCEPT ![c] = Idle]
    /\ UNCHANGED <<storage, calls, history>>

\* A row is scanned into the record before Scan learns of the error.
Scanned(c) ==
    LET s == call[c].stmt
        a == call[c].reply
    IN /\ a.status = "row"
       /\ rec' = [rec EXCEPT ![c] = Scan(@, Results(s.op), a)]
       /\ known' = [known EXCEPT ![c] =
                      [f \in Written |->
                         IF f \in Results(s.op) THEN a.row[f] ELSE @[f]]]

\* The call returns an error: the deadline of the query passed or the
\* connection broke.  The record is left as it was, or has the results in it;
\* its flags and counters stay.
Fail(c) ==
    /\ call[c].phase # "idle"
    /\ late' = IF call[c].phase = "sent" /\ call[c].stmt.op \in Writing
               THEN late \cup {call[c].stmt}
               ELSE late
    /\ call' = [call EXCEPT ![c] = Idle]
    /\ \/ UNCHANGED <<rec, known>>
       \/ call[c].phase = "answered" /\ Scanned(c)
    /\ UNCHANGED <<db, used, calls, touched, owed>>

----------------------------------------------------------------------------
Init ==
    /\ db = [k \in Key |-> IF k \in Earlier THEN Default ELSE NoRow]
    /\ used = IF KeyByStorage THEN Earlier ELSE {}
    /\ late = {}
    /\ \E k \in Key : rec = [c \in Client |-> Fresh(k, BlankRow)]
    /\ known = [c \in Client |-> [f \in Written |-> Blank]]
    /\ call = [c \in Client |-> Idle]
    /\ calls = 0
    /\ touched = [c \in Client |-> {}]
    /\ owed = [c \in Client |-> NoChange]

Edit(c) ==
    \/ \E k \in Key : New(c, k)
    \/ \E f \in Field, v \in Value : Set(c, f, v)
    \/ \E k \in Key : SetKey(c, k)
    \/ \E m \in Counter, x \in Delta : Add(c, m, x)

Next ==
    \/ \E c \in Client :
         \/ Edit(c)
         \/ Insert(c)
         \/ Update(c)
         \/ FullUpdate(c)
         \/ Delete(c)
         \/ \E k \in Key : Select(c, k)
         \/ Execute(c)
         \/ Return(c)
         \/ Fail(c)
    \/ \E s \in late : ExecuteLate(s)

Spec == Init /\ [][Next]_vars
----------------------------------------------------------------------------
(* Properties. *)

\* Every variable holds a value of its type.
TypeOK ==
    /\ db \in [Key -> Row \cup {NoRow}]
    /\ used \in SUBSET Key
    /\ late \in SUBSET Statement
    /\ rec \in [Client -> Record]
    /\ call \in [Client ->
                  {Idle}
                  \cup [phase : {"sent"}, stmt : Statement]
                  \cup [phase : {"answered"}, stmt : Statement, reply : Reply]]
    /\ calls \in 0 .. MaxCalls
    /\ known \in [Client -> [Written -> Int]]
    /\ touched \in [Client -> SUBSET Field]
    /\ owed \in [Client -> Change]

\* Mutators are exactly-once as far as a client can tell: whatever was asked
\* for with Inc, Dec and Add is either still in the record, to be sent by the
\* next call, or was added to a row once by a statement that was acknowledged.
\* A failed call gives nothing up and a successful one sends nothing twice.
CounterExactlyOnce ==
    \A c \in Client, m \in Counter : rec[c].mut[m] = owed[c][m]

\* Change tracking forgets nothing: a column whose bit in updateMask is clear
\* holds the value that was last exchanged with the table, so leaving it out
\* of the next smart UPDATE loses no change of this client.
DirtyTracking ==
    \A c \in Client : \A f \in Written \ rec[c].mask :
        rec[c].data[f] = known[c][f]

\* The statements a step executes.
Executed ==
    {call[c].stmt : c \in {d \in Client : /\ call[d].phase = "sent"
                                         /\ call'[d].phase = "answered"}}
        \cup (late \ late')

\* A smart UPDATE, even one executed after its caller gave up, leaves alone
\* every column the application had not changed since the last exchange: a
\* stale value of one client never overwrites what another has stored.
UpdateWritesOnlyChanges ==
    [][\A s \in Executed : s.op = "Update" =>
          \A k \in Key : db[k] # db'[k] =>
             /\ k = s.key
             /\ db[k] # NoRow /\ db'[k] # NoRow
             /\ \A f \in Field \ (Trigger \cup s.changed) : db'[k][f] = db[k][f]
      ]_vars

\* When Update, FullUpdate or an upserting Insert returns nil, the record's
\* counters hold the values the statement left in the row, the record has the
\* key of that row, and nothing is marked as changed any more.
SuccessReturnsActual ==
    [][\A c \in Client :
          LET s == call[c].stmt
              a == call[c].reply
          IN (/\ Return(c)
              /\ Outcome(s, a) = "nil"
              /\ s.op \in Stored \cup {"Refresh"}
              /\ s.op = "Insert" => Upsert(Table))
             => (/\ rec'[c].key = a.key
                 /\ Unchanged(rec'[c])
                 /\ \A m \in Counter : rec'[c].data[m] = a.row[m])
      ]_vars

----------------------------------------------------------------------------
(* What the documentation says and some declaration contradicts. *)

\* adv-pg.go, EnableMutators: the value after the modification is set by
\* Insert if UpdateOnConflict is enabled.  No increment is then dropped.
InsertKeepsCounts == CounterExactlyOnce
=============================================================================
