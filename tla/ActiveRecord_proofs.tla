------------------------ MODULE ActiveRecord_proofs ------------------------
(***************************************************************************)
(* Theorems about ActiveRecord, for every declaration of a table within    *)
(* TableAssumption and any number of clients, keys, values and calls.      *)
(***************************************************************************)
EXTENDS ActiveRecord, TLAPS

----------------------------------------------------------------------------
(* The column groups of the table. *)

\* Counters and written columns are fields, apart from one another.
LEMMA Groups ==
    /\ Counter \subseteq Field
    /\ Written \subseteq Field
    /\ Counter \cap Written = {}
    /\ Trigger \cap Counter = {}
BY TableAssumption
   DEF TableOver, Accepted, Counter, Field, Written, Trigger, Mutators,
       UpdateValue, Updatable, ByStorage

LEMMA BlankTypes ==
    /\ BlankRow \in Row
    /\ NoChange \in Change
    /\ [f \in Written |-> Blank] \in [Written -> Int]
BY ValueAssumption DEF BlankRow, Row, NoChange, Change

----------------------------------------------------------------------------
(* Types of the operators on a record. *)

LEMMA FreshType ==
    ASSUME NEW k \in Key, NEW data \in Row
    PROVE  Fresh(k, data) \in Record
BY BlankTypes DEF Fresh, Record

LEMMA ResetType ==
    ASSUME NEW r \in Record
    PROVE  Reset(r) \in Record
BY BlankTypes DEF Reset, Record

LEMMA SetColumnType ==
    ASSUME NEW r \in Record, NEW f \in Field, NEW v \in Value
    PROVE  SetColumn(r, f, v) \in Record
BY ValueAssumption DEF SetColumn, Record, Row

LEMMA ScanType ==
    ASSUME NEW r \in Record, NEW cols, NEW a \in Reply, a.row \in Row
    PROVE  Scan(r, cols, a) \in Record
BY DEF Scan, Record, Reply, Row

LEMMA DiffType ==
    ASSUME NEW new \in Change, NEW old \in Change
    PROVE  Diff(new, old) \in Change
BY DEF Diff, Change

LEMMA DiffRowType ==
    ASSUME NEW new \in Row, NEW old \in Row
    PROVE  Diff(new, old) \in Change
BY Groups DEF Diff, Change, Row

----------------------------------------------------------------------------
(* Types of what the server answers. *)

LEMMA AnswerType ==
    ASSUME NEW st \in {"row", "norow", "error"}, NEW k \in Key,
           NEW row \in Row \cup {NoRow}, NEW e \in Change
    PROVE  Answer(st, k, row, e) \in Reply
BY DEF Answer, Reply

LEMMA InsertedType ==
    ASSUME NEW s \in Statement
    PROVE  Inserted(s) \in Row /\ Uncounted(s) \in Change
BY ValueAssumption, Groups DEF Inserted, Uncounted, Statement, Row, Change

LEMMA MergedType ==
    ASSUME NEW s \in Statement, NEW row \in Row
    PROVE  Merged(row, s) \in Row /\ Updated(row, s) \in Row
BY InsertedType, Groups DEF Merged, Updated, Statement, Row, Change

LEMMA TriggeredType ==
    ASSUME NEW row \in Row, NEW new \in Triggered(row)
    PROVE  new \in Row
<1>1. PICK t \in [Trigger -> Stamp] :
           new = [f \in Field |-> IF f \in Trigger THEN t[f] ELSE row[f]]
  BY DEF Triggered
<1> QED
  BY <1>1, ValueAssumption DEF Row

\* Every answer is a Reply, and one that carries a row carries a stored one.
LEMMA AnswersType ==
    ASSUME db \in [Key -> Row \cup {NoRow}], NEW s \in Statement,
           NEW a \in Answers(s)
    PROVE  /\ a \in Reply
           /\ a.status = "row" /\ s.op # "Delete" => a.row \in Row
<1>k. s.key \in Key /\ s.op \in Op
  BY DEF Statement
<1>n. NoChange \in Change
  BY BlankTypes
<1>1. CASE s.op = "Insert"
  <2>1. PICK k \in InsertKeys(s) :
             \/ /\ db[k] = NoRow
                /\ a = Answer("row", k, Inserted(s), Diff(Inserted(s), Uncounted(s)))
             \/ \E row \in Triggered(Merged(db[k], s)) :
                  /\ db[k] # NoRow
                  /\ a = Answer("row", k, row, Diff(row, db[k]))
             \/ a = Answer("norow", k, db[k], NoChange)
             \/ a = Answer("error", k, db[k], NoChange)
    BY <1>1 DEF Answers, InsertAnswers
  <2>k. k \in Key
    BY <1>k DEF InsertKeys
  <2>2. CASE /\ db[k] = NoRow
             /\ a = Answer("row", k, Inserted(s), Diff(Inserted(s), Uncounted(s)))
    <3>1. Inserted(s) \in Row /\ Diff(Inserted(s), Uncounted(s)) \in Change
      BY InsertedType, Groups DEF Diff, Change, Row
    <3> QED
      BY <2>2, <2>k, <3>1, AnswerType DEF Answer
  <2>3. ASSUME NEW row \in Triggered(Merged(db[k], s)), db[k] # NoRow,
               a = Answer("row", k, row, Diff(row, db[k]))
        PROVE  a \in Reply /\ a.row \in Row
    <3>1. db[k] \in Row
      BY <2>3, <2>k
    <3>2. row \in Row
      BY <3>1, MergedType, TriggeredType
    <3>3. Diff(row, db[k]) \in Change
      BY <3>1, <3>2, DiffRowType
    <3> QED
      BY <2>3, <2>k, <3>2, <3>3, AnswerType DEF Answer
  <2>4. CASE a = Answer("norow", k, db[k], NoChange)
    BY <2>4, <2>k, <1>n, AnswerType DEF Answer
  <2>5. CASE a = Answer("error", k, db[k], NoChange)
    BY <2>5, <2>k, <1>n, AnswerType DEF Answer
  <2> QED
    BY <2>1, <2>2, <2>3, <2>4, <2>5
<1>2. CASE s.op # "Insert" /\ db[s.key] = NoRow
  <2>1. a = Answer("norow", s.key, NoRow, NoChange)
    BY <1>2 DEF Answers
  <2> QED
    BY <2>1, <1>k, <1>n, AnswerType DEF Answer
<1>3. CASE s.op \in {"Update", "FullUpdate"} /\ db[s.key] # NoRow
  <2>1. PICK row \in Triggered(Updated(db[s.key], s)) :
             a = Answer("row", s.key, row, Diff(row, db[s.key]))
    BY <1>3 DEF Answers, UpdateAnswers
  <2>2. db[s.key] \in Row
    BY <1>3, <1>k
  <2>3. row \in Row
    BY <2>2, MergedType, TriggeredType
  <2>4. Diff(row, db[s.key]) \in Change
    BY <2>2, <2>3, DiffRowType
  <2> QED
    BY <2>1, <2>3, <2>4, <1>k, AnswerType DEF Answer
<1>4. CASE s.op \in {"Select", "Refresh"} /\ db[s.key] # NoRow
  <2>1. a = Answer("row", s.key, db[s.key], NoChange)
    BY <1>4 DEF Answers
  <2> QED
    BY <2>1, <1>4, <1>k, <1>n, AnswerType DEF Answer
<1>5. CASE s.op = "Delete" /\ db[s.key] # NoRow
  <2>1. a = Answer("row", s.key, NoRow, NoChange)
    BY <1>5 DEF Answers
  <2> QED
    BY <2>1, <1>5, <1>k, <1>n, AnswerType DEF Answer
<1> QED
  BY <1>1, <1>2, <1>3, <1>4, <1>5, <1>k DEF Op

----------------------------------------------------------------------------
(* Types of the calls. *)

\* What TypeOK says of a client in the middle of a call.
LEMMA CallType ==
    ASSUME TypeOK, NEW c \in Client
    PROVE  /\ call[c].phase = "sent" => call[c].stmt \in Statement
           /\ call[c].phase = "answered" =>
                  call[c].stmt \in Statement /\ call[c].reply \in Reply
<1>1. \/ call[c] = Idle
      \/ call[c] \in [phase : {"sent"}, stmt : Statement]
      \/ call[c] \in [phase : {"answered"}, stmt : Statement, reply : Reply]
  BY DEF TypeOK
<1>2. CASE call[c] = Idle
  BY <1>2 DEF Idle
<1>3. CASE call[c] \in [phase : {"sent"}, stmt : Statement]
  BY <1>3
<1>4. CASE call[c] \in [phase : {"answered"}, stmt : Statement, reply : Reply]
  BY <1>4
<1> QED
  BY <1>1, <1>2, <1>3, <1>4

LEMMA QueryType ==
    ASSUME TypeOK, NEW c \in Client, NEW op \in Op, NEW set \in SUBSET Field
    PROVE  Query(c, op, set) \in Statement
<1>1. rec[c] \in Record
  BY DEF TypeOK
<1>2. calls \in Nat
  BY ValueAssumption DEF TypeOK
<1>3. ASSUME NEW f \in Field
      PROVE  InsertArg(rec[c], f) \in Int /\ rec[c].data[f] \in Int
  <2>1. rec[c].data[f] \in Int
    BY <1>1 DEF Record, Row
  <2>2. f \in Counter => rec[c].mut[f] \in Int
    BY <1>1 DEF Record, Change
  <2>3. CASE f \notin Counter
    BY <2>1, <2>3 DEF InsertArg
  <2>4. CASE f \in Counter /\ Upsert(Table)
    BY <2>1, <2>2, <2>4 DEF InsertArg
  <2>5. CASE f \in Counter /\ ~Upsert(Table)
    BY <2>1, <2>2, <2>5 DEF InsertArg
  <2> QED
    BY <2>1, <2>3, <2>4, <2>5
<1>4. [f \in Field |-> IF f \notin set THEN 0
                       ELSE IF op = "Insert" THEN InsertArg(rec[c], f)
                       ELSE rec[c].data[f]] \in Row
  BY <1>3 DEF Row
<1>5. (IF op \in Stored THEN rec[c].mut ELSE NoChange) \in Change
  BY <1>1, BlankTypes DEF Record
<1>6. (IF op = "Update" THEN touched[c] ELSE {}) \in SUBSET Field
  BY DEF TypeOK
<1>7. rec[c].key \in Key
  BY <1>1 DEF Record
<1> QED
  BY <1>2, <1>4, <1>5, <1>6, <1>7 DEF Query, Statement

\* What the end of a call makes of the record, operation by operation.
LEMMA AbsorbCases ==
    ASSUME NEW r, NEW s, NEW a
    PROVE  /\ s.op = "Insert" /\ a.status = "row" =>
                 Absorb(r, s, a) = Reset(Scan(r, InsertResult(Table), a))
           /\ s.op \in {"Update", "FullUpdate"} /\ a.status = "row" =>
                 Absorb(r, s, a) = Reset(Scan(r, UpdateResult(Table), a))
           /\ s.op = "Refresh" /\ a.status = "row" =>
                 Absorb(r, s, a) = Reset(Scan(r, Counter, a))
           /\ s.op = "Insert" /\ a.status = "norow" =>
                 Absorb(r, s, a) = IF InsertResult(Table) = {} THEN Reset(r) ELSE r
           /\ s.op = "Select" /\ a.status = "row" =>
                 Absorb(r, s, a) = Fresh(a.key, a.row)
           /\ \/ s.op = "Delete"
              \/ s.op # "Insert" /\ a.status # "row"
              \/ a.status = "error"
              => Absorb(r, s, a) = r
BY DEF Absorb, Results, Stored

LEMMA AbsorbType ==
    ASSUME NEW r \in Record, NEW s \in Statement, NEW a \in Reply,
           a.status = "row" /\ s.op # "Delete" => a.row \in Row
    PROVE  Absorb(r, s, a) \in Record
<1>1. CASE s.op \in Stored \cup {"Refresh"} /\ a.status = "row"
  <2>1. \A cols : Scan(r, cols, a) \in Record
    BY <1>1, ScanType DEF Stored
  <2> QED
    BY <2>1, <1>1, ResetType, AbsorbCases DEF Stored
<1>2. CASE s.op = "Insert" /\ a.status = "norow"
  BY <1>2, ResetType, AbsorbCases
<1>3. CASE s.op = "Select" /\ a.status = "row"
  BY <1>3, FreshType, AbsorbCases DEF Reply
<1>4. CASE \/ s.op = "Delete"
           \/ s.op # "Insert" /\ a.status # "row"
           \/ a.status = "error"
  BY <1>4, AbsorbCases
<1>5. s.op \in Op /\ a.status \in {"row", "norow", "error"}
  BY DEF Statement, Reply
<1> QED
  BY <1>1, <1>2, <1>3, <1>4, <1>5 DEF Op, Stored

----------------------------------------------------------------------------
(* Type correctness.  TypeOK says nothing of the row in a reply, so the    *)
(* inductive invariant adds that an answer that found a row carries it.    *)

RowAnswered ==
    \A c \in Client :
        call[c].phase = "answered" /\ call[c].reply.status = "row"
            /\ call[c].stmt.op # "Delete"
        => call[c].reply.row \in Row

TypeInv == TypeOK /\ RowAnswered

LEMMA TypeInit == Init => TypeInv
<1> SUFFICES ASSUME Init PROVE TypeInv
  OBVIOUS
<1>1. PICK k \in Key : rec = [c \in Client |-> Fresh(k, BlankRow)]
  BY DEF Init
<1>2. rec \in [Client -> Record]
  BY <1>1, FreshType, BlankTypes
<1>3. known \in [Client -> [Written -> Int]] /\ owed \in [Client -> Change]
  BY BlankTypes DEF Init
<1>4. /\ db \in [Key -> Row \cup {NoRow}]
      /\ used \in SUBSET Key
      /\ late \in SUBSET Statement
      /\ calls \in 0 .. MaxCalls
      /\ touched \in [Client -> SUBSET Field]
  BY ValueAssumption, BoundAssumption DEF Init
<1>5. call = [c \in Client |-> Idle]
  BY DEF Init
<1> QED
  BY <1>2, <1>3, <1>4, <1>5 DEF TypeInv, TypeOK, RowAnswered, Idle

\* A step of the application on its own record.
LEMMA TypeEdit ==
    ASSUME TypeInv, NEW c \in Client, Edit(c)
    PROVE  TypeInv'
<1>t. TypeOK /\ RowAnswered
  BY DEF TypeInv
<1>r. rec[c] \in Record
  BY <1>t DEF TypeOK
<1>u. UNCHANGED <<db, used, late, call, calls>>
  BY DEF Edit, New, Set, SetKey, Add, storage, history
<1>1. CASE \E k \in Key : New(c, k)
  <2>1. PICK k \in Key : New(c, k)
    BY <1>1
  <2>2. rec' \in [Client -> Record]
    BY <2>1, <1>t, FreshType, BlankTypes DEF New, TypeOK
  <2> QED
    BY <2>1, <2>2, <1>t, <1>u, BlankTypes DEF New, TypeInv, TypeOK, RowAnswered
<1>2. CASE \E f \in Field, v \in Value : Set(c, f, v)
  <2>1. PICK f \in Field, v \in Value : Set(c, f, v)
    BY <1>2
  <2>2. rec' \in [Client -> Record]
    BY <2>1, <1>t, <1>r, SetColumnType DEF Set, TypeOK
  <2> QED
    BY <2>1, <2>2, <1>t, <1>u DEF Set, TypeInv, TypeOK, RowAnswered
<1>3. CASE \E k \in Key : SetKey(c, k)
  <2>1. PICK k \in Key : SetKey(c, k)
    BY <1>3
  <2>2. rec' \in [Client -> Record]
    BY <2>1, <1>t, <1>r DEF SetKey, TypeOK, Record
  <2> QED
    BY <2>1, <2>2, <1>t, <1>u DEF SetKey, TypeInv, TypeOK, RowAnswered, history
<1>4. CASE \E m \in Counter, x \in Delta : Add(c, m, x)
  <2>1. PICK m \in Counter, x \in Delta : Add(c, m, x)
    BY <1>4
  <2>2. rec' \in [Client -> Record]
    <3>1. x \in Int /\ rec[c].mut \in [Counter -> Int]
      BY <1>r, ValueAssumption DEF Record, Change
    <3>2. [rec[c].mut EXCEPT ![m] = @ + x] \in Change
      BY <3>1 DEF Change
    <3>3. [rec[c] EXCEPT !.mut = [rec[c].mut EXCEPT ![m] = @ + x]] \in Record
      BY <3>2, <1>r DEF Record
    <3>4. rec' = [rec EXCEPT ![c] =
                    [rec[c] EXCEPT !.mut = [rec[c].mut EXCEPT ![m] = @ + x]]]
      BY <2>1 DEF Add
    <3> QED
      BY <3>3, <3>4, <1>t DEF TypeOK
  <2>3. owed' \in [Client -> Change] /\ touched' \in [Client -> SUBSET Field]
    BY <2>1, <1>t, ValueAssumption, Groups DEF Add, TypeOK, Change
  <2> QED
    BY <2>1, <2>2, <2>3, <1>t, <1>u DEF Add, TypeInv, TypeOK, RowAnswered
<1> QED
  BY <1>1, <1>2, <1>3, <1>4 DEF Edit

\* A call that sends a statement.
LEMMA TypeCall ==
    ASSUME TypeInv, NEW c \in Client, NEW s \in Statement, Call(c, s)
    PROVE  TypeInv'
<1>t. TypeOK /\ RowAnswered
  BY DEF TypeInv
<1>1. calls' \in 0 .. MaxCalls
  BY <1>t, ValueAssumption, BoundAssumption DEF Call, TypeOK
<1>2. [phase |-> "sent", stmt |-> s] \in [phase : {"sent"}, stmt : Statement]
  OBVIOUS
<1>3. call' = [call EXCEPT ![c] = [phase |-> "sent", stmt |-> s]]
  BY DEF Call
<1>4. TypeOK'
  BY <1>t, <1>1, <1>2, <1>3 DEF Call, TypeOK, storage, history
<1>5. RowAnswered'
  BY <1>t, <1>3 DEF RowAnswered, TypeOK
<1> QED
  BY <1>4, <1>5 DEF TypeInv

\* The effect of a statement on the table.
LEMMA TypeEffect ==
    ASSUME TypeOK, NEW s \in Statement, NEW a \in Answers(s), Effect(s, a)
    PROVE  db' \in [Key -> Row \cup {NoRow}] /\ used' \in SUBSET Key
<1>1. a \in Reply
  BY AnswersType DEF TypeOK
<1> QED
  BY <1>1 DEF Effect, TypeOK, Reply

LEMMA TypeExecute ==
    ASSUME TypeInv, NEW c \in Client, Execute(c)
    PROVE  TypeInv'
<1>t. TypeOK /\ RowAnswered
  BY DEF TypeInv
<1> DEFINE s == call[c].stmt
<1>1. PICK a \in Answers(s) :
           /\ Effect(s, a)
           /\ call' = [call EXCEPT ![c] =
                         [phase |-> "answered", stmt |-> s, reply |-> a]]
  BY DEF Execute
<1>2. s \in Statement
  BY <1>t, CallType DEF Execute
<1>3. a \in Reply /\ (a.status = "row" /\ s.op # "Delete" => a.row \in Row)
  BY <1>2, <1>t, AnswersType DEF TypeOK
<1>4. db' \in [Key -> Row \cup {NoRow}] /\ used' \in SUBSET Key
  BY <1>1, <1>2, <1>t, TypeEffect
<1> HIDE DEF s
<1>5. [phase |-> "answered", stmt |-> s, reply |-> a]
          \in [phase : {"answered"}, stmt : Statement, reply : Reply]
  BY <1>2, <1>3
<1>6. TypeOK'
  BY <1>t, <1>1, <1>4, <1>5 DEF Execute, TypeOK, history
<1>7. RowAnswered'
  BY <1>t, <1>1, <1>3 DEF RowAnswered, TypeOK
<1> QED
  BY <1>6, <1>7 DEF TypeInv

LEMMA TypeExecuteLate ==
    ASSUME TypeInv, NEW s \in late, ExecuteLate(s)
    PROVE  TypeInv'
<1>t. TypeOK /\ RowAnswered
  BY DEF TypeInv
<1>1. PICK a \in Answers(s) : Effect(s, a)
  BY DEF ExecuteLate
<1>2. s \in Statement
  BY <1>t DEF TypeOK
<1>3. db' \in [Key -> Row \cup {NoRow}] /\ used' \in SUBSET Key
  BY <1>1, <1>2, <1>t, TypeEffect
<1> QED
  BY <1>t, <1>3 DEF ExecuteLate, TypeInv, TypeOK, RowAnswered, history

LEMMA TypeReturn ==
    ASSUME TypeInv, NEW c \in Client, Return(c)
    PROVE  TypeInv'
<1>t. TypeOK /\ RowAnswered
  BY DEF TypeInv
<1> DEFINE s == call[c].stmt
           a == call[c].reply
           done == a.status = "row" /\ s.op # "Delete"
<1>1. s \in Statement /\ a \in Reply /\ (done => a.row \in Row)
  BY <1>t, CallType DEF Return, RowAnswered
<1>2. /\ rec' = [rec EXCEPT ![c] = Absorb(@, s, a)]
      /\ known' = IF done
                  THEN [known EXCEPT ![c] =
                          [f \in Written |->
                             IF f \in Exchanged(s) THEN a.row[f] ELSE @[f]]]
                  ELSE known
      /\ touched' = IF done THEN [touched EXCEPT ![c] = {}] ELSE touched
      /\ owed' = IF ~done THEN owed
                 ELSE IF s.op = "Select"
                 THEN [owed EXCEPT ![c] = NoChange]
                 ELSE [owed EXCEPT ![c] = Diff(@, a.effect)]
      /\ call' = [call EXCEPT ![c] = Idle]
      /\ UNCHANGED <<storage, calls>>
  BY DEF Return
<1> HIDE DEF s, a
<1>3. rec' \in [Client -> Record]
  <2>1. Absorb(rec[c], s, a) \in Record
    BY <1>t, <1>1, AbsorbType DEF TypeOK, done
  <2> QED
    BY <2>1, <1>2, <1>t DEF TypeOK
<1>4. known' \in [Client -> [Written -> Int]]
  BY <1>1, <1>2, <1>t, Groups DEF TypeOK, Row
<1>5. owed' \in [Client -> Change]
  <2>1. Diff(owed[c], a.effect) \in Change
    BY <1>1, <1>t, DiffType DEF TypeOK, Reply
  <2> QED
    BY <2>1, <1>2, <1>t, BlankTypes DEF TypeOK
<1>6. touched' \in [Client -> SUBSET Field]
  BY <1>2, <1>t DEF TypeOK
<1>7. TypeOK'
  BY <1>2, <1>3, <1>4, <1>5, <1>6, <1>t DEF TypeOK, storage
<1>8. RowAnswered'
  BY <1>2, <1>t DEF RowAnswered, TypeOK, Idle
<1> QED
  BY <1>7, <1>8 DEF TypeInv

\* What a failed call does to the record: the flags and counters stay, and a
\* column is as it was or holds the value in the row that was scanned.
LEMMA FailRecord ==
    ASSUME TypeInv, NEW c \in Client, Fail(c)
    PROVE  /\ call' = [call EXCEPT ![c] = Idle]
           /\ rec' \in [Client -> Record]
           /\ known' \in [Client -> [Written -> Int]]
           /\ \A d \in Client : d # c => rec'[d] = rec[d] /\ known'[d] = known[d]
           /\ \A d \in Client : /\ rec'[d].mask = rec[d].mask
                                /\ rec'[d].mut = rec[d].mut
           /\ \A f \in Written :
                 \/ rec'[c].data[f] = rec[c].data[f] /\ known'[c][f] = known[c][f]
                 \/ rec'[c].data[f] = known'[c][f]
<1> DEFINE s == call[c].stmt
           a == call[c].reply
<1>t. TypeOK /\ RowAnswered
  BY DEF TypeInv
<1>0. /\ rec \in [Client -> Record]
      /\ known \in [Client -> [Written -> Int]]
      /\ call' = [call EXCEPT ![c] = Idle]
  BY <1>t DEF TypeOK, Fail
<1>1. CASE UNCHANGED <<rec, known>>
  BY <1>0, <1>1
<1>2. CASE call[c].phase = "answered" /\ Scanned(c)
  <2>1. /\ a.status = "row"
        /\ rec' = [rec EXCEPT ![c] = Scan(@, Results(s.op), a)]
        /\ known' = [known EXCEPT ![c] =
                       [f \in Written |->
                          IF f \in Results(s.op) THEN a.row[f] ELSE @[f]]]
    BY <1>2 DEF Scanned
  <2>2. a \in Reply /\ (s.op # "Delete" => a.row \in Row)
    BY <2>1, <1>2, <1>t, CallType DEF RowAnswered
  <2> HIDE DEF s, a
  <2>3. CASE s.op # "Delete"
    <3>r. rec[c] \in Record
      BY <1>0
    <3>1. Scan(rec[c], Results(s.op), a) \in Record
      BY <3>r, <2>2, <2>3, ScanType
    <3>2. [f \in Written |-> IF f \in Results(s.op) THEN a.row[f] ELSE known[c][f]]
              \in [Written -> Int]
      BY <2>2, <2>3, <1>0, Groups DEF Row
    <3>3. /\ rec'[c] = Scan(rec[c], Results(s.op), a)
          /\ known'[c] = [f \in Written |->
                            IF f \in Results(s.op) THEN a.row[f] ELSE known[c][f]]
          /\ \A d \in Client : d # c => rec'[d] = rec[d] /\ known'[d] = known[d]
      BY <2>1, <1>0
    <3>4. rec' \in [Client -> Record] /\ known' \in [Client -> [Written -> Int]]
      BY <2>1, <1>0, <3>1, <3>2
    <3>5. \A f \in Field : Scan(rec[c], Results(s.op), a).data[f] =
                           IF f \in Results(s.op) THEN a.row[f] ELSE rec[c].data[f]
      BY <3>r DEF Scan, Record, Row
    <3>6. /\ Scan(rec[c], Results(s.op), a).mask = rec[c].mask
          /\ Scan(rec[c], Results(s.op), a).mut = rec[c].mut
      BY <3>r DEF Scan, Record
    <3> QED
      BY <3>3, <3>4, <3>5, <3>6, <1>0, Groups
  <2>4. CASE s.op = "Delete"
    <3>1. Results(s.op) = {}
      BY <2>4 DEF Results
    <3>2. /\ rec' = [rec EXCEPT ![c] = [rec[c] EXCEPT !.data = [f \in Field |-> rec[c].data[f]]]]
          /\ known' = [known EXCEPT ![c] = [f \in Written |-> known[c][f]]]
      BY <2>1, <3>1 DEF Scan
    <3>3. rec[c] \in Record /\ rec[c].data \in [Field -> Int]
      BY <1>0 DEF Record, Row
    <3>4. [rec[c] EXCEPT !.data = [f \in Field |-> rec[c].data[f]]] = rec[c]
      BY <3>3 DEF Record
    <3>5. [f \in Written |-> known[c][f]] = known[c]
      BY <1>0
    <3>6. rec' = rec /\ known' = known
      BY <3>2, <3>4, <3>5, <1>0
    <3> QED
      BY <3>6, <1>0
  <2> QED
    BY <2>3, <2>4
<1> QED
  BY <1>1, <1>2 DEF Fail

LEMMA TypeFail ==
    ASSUME TypeInv, NEW c \in Client, Fail(c)
    PROVE  TypeInv'
<1>t. TypeOK /\ RowAnswered
  BY DEF TypeInv
<1>1. late' \in SUBSET Statement
  BY <1>t, CallType DEF Fail, TypeOK
<1>2. /\ call' = [call EXCEPT ![c] = Idle]
      /\ rec' \in [Client -> Record]
      /\ known' \in [Client -> [Written -> Int]]
  BY FailRecord
<1>3. TypeOK'
  BY <1>t, <1>1, <1>2 DEF Fail, TypeOK
<1>4. RowAnswered'
  BY <1>t, <1>2 DEF RowAnswered, TypeOK, Idle
<1> QED
  BY <1>3, <1>4 DEF TypeInv

\* The statement each DAO method sends.
LEMMA SentType ==
    ASSUME TypeOK, NEW c \in Client
    PROVE  /\ InsertQuery(c) \in Statement
           /\ UpdateQuery(c) \in Statement
           /\ FullUpdateQuery(c) \in Statement
           /\ Query(c, "Refresh", {}) \in Statement
           /\ Query(c, "Delete", {}) \in Statement
           /\ \A k \in Key :
                 [Query(c, "Select", {}) EXCEPT !.key = k] \in Statement
<1>1. \A op \in Op, set \in SUBSET Field : Query(c, op, set) \in Statement
  BY QueryType
<1>2. {"Insert", "Update", "FullUpdate", "Refresh", "Select", "Delete"} = Op
  BY DEF Op
<1>3. rec[c].mask \in SUBSET Field
  BY Groups DEF TypeOK, Record
<1>4. InsertQuery(c) \in Statement
  BY <1>1, <1>2 DEF InsertQuery
<1>5. UpdateQuery(c) \in Statement
  BY <1>1, <1>2, <1>3 DEF UpdateQuery
<1>6. FullUpdateQuery(c) \in Statement
  BY <1>1, <1>2, Groups DEF FullUpdateQuery
<1>7. Query(c, "Refresh", {}) \in Statement /\ Query(c, "Delete", {}) \in Statement
  BY <1>1, <1>2
<1>8. ASSUME NEW k \in Key
      PROVE  [Query(c, "Select", {}) EXCEPT !.key = k] \in Statement
  <2>1. Query(c, "Select", {}) \in Statement
    BY <1>1, <1>2
  <2> QED
    BY <2>1 DEF Statement
<1> QED
  BY <1>4, <1>5, <1>6, <1>7, <1>8

\* What a DAO method does: sends its statement or, with nothing to do, nothing.
LEMMA DAOStep ==
    ASSUME TypeOK, NEW c \in Client,
           \/ Insert(c)
           \/ Update(c)
           \/ FullUpdate(c)
           \/ Delete(c)
           \/ \E k \in Key : Select(c, k)
    PROVE  (\E s \in Statement : Call(c, s)) \/ UNCHANGED vars
BY SentType DEF Insert, Update, FullUpdate, Delete, Select

LEMMA TypeStutter == TypeInv /\ UNCHANGED vars => TypeInv'
BY DEF TypeInv, TypeOK, RowAnswered, vars

LEMMA TypeNext == TypeInv /\ [Next]_vars => TypeInv'
<1> SUFFICES ASSUME TypeInv, [Next]_vars PROVE TypeInv'
  OBVIOUS
<1>1. ASSUME NEW c \in Client, Edit(c) PROVE TypeInv'
  BY <1>1, TypeEdit
<1>2. ASSUME NEW c \in Client,
             \/ Insert(c)
             \/ Update(c)
             \/ FullUpdate(c)
             \/ Delete(c)
             \/ \E k \in Key : Select(c, k)
      PROVE  TypeInv'
  <2>1. (\E s \in Statement : Call(c, s)) \/ UNCHANGED vars
    BY <1>2, DAOStep DEF TypeInv
  <2> QED
    BY <2>1, TypeCall, TypeStutter
<1>3. ASSUME NEW c \in Client, Execute(c) PROVE TypeInv'
  BY <1>3, TypeExecute
<1>4. ASSUME NEW c \in Client, Return(c) PROVE TypeInv'
  BY <1>4, TypeReturn
<1>5. ASSUME NEW c \in Client, Fail(c) PROVE TypeInv'
  BY <1>5, TypeFail
<1>6. ASSUME NEW s \in late, ExecuteLate(s) PROVE TypeInv'
  BY <1>6, TypeExecuteLate
<1> QED
  BY <1>1, <1>2, <1>3, <1>4, <1>5, <1>6, TypeStutter DEF Next

\* Every variable of the active record model keeps its type, whatever the
\* declaration of the table and however the calls interleave and fail.
THEOREM TypeCorrect == Spec => []TypeOK
<1>1. TypeInv => TypeOK
  BY DEF TypeInv
<1> QED
  BY TypeInit, TypeNext, <1>1, PTL DEF Spec

----------------------------------------------------------------------------
(* Change tracking forgets nothing.  The invariant is not inductive alone: *)
(* it also takes that the statement in flight sends the record's changes,  *)
(* and that the row it leaves holds the values it sent.                    *)

\* An INSERT writes or reads back every column a smart UPDATE may write, and
\* one that is ignored leaves the record's flags alone.
InsertTracked ==
    /\ Written \cap Table.disableInsert = {}
    /\ DoNothing(Table) => InsertResult(Table) # {}

\* The statement in flight sends what the record marks as changed.
Sends(c) ==
    LET s == call[c].stmt
    IN call[c].phase \in {"sent", "answered"} =>
        /\ s.op = "Insert" => s.set = InsertValue(Table) \cap Field
        /\ s.op = "Update" => s.set = rec[c].mask
        /\ s.op = "FullUpdate" => s.set = Written
        /\ s.op = "Refresh" => s.set = {} /\ rec[c].mask = {}
        /\ s.op \in Stored =>
              \A f \in s.set \cap Written : s.val[f] = rec[c].data[f]

\* The row an answer carries holds what its statement sent.
Keeps(s, a) ==
    /\ s.op \in Stored /\ a.status = "row" =>
          \A f \in s.set \cap Written : a.row[f] = s.val[f]
    /\ s.op = "Insert" /\ a.status = "norow" => DoNothing(Table)

Kept(c) == call[c].phase = "answered" => Keeps(call[c].stmt, call[c].reply)

Tracked(c) ==
    \A f \in Written \ rec[c].mask : rec[c].data[f] = known[c][f]

TrackInv ==
    /\ TypeInv
    /\ \A c \in Client : Tracked(c) /\ Sends(c) /\ Kept(c)

\* A trigger stamps none of the columns the statement writes.
LEMMA TriggeredWritten ==
    ASSUME NEW row \in Row, NEW new \in Triggered(row), NEW f \in Written
    PROVE  new[f] = row[f]
<1>1. PICK t \in [Trigger -> Stamp] :
           new = [g \in Field |-> IF g \in Trigger THEN t[g] ELSE row[g]]
  BY DEF Triggered
<1>2. f \in Field /\ f \notin Trigger
  BY Groups DEF Written, UpdateValue, ByStorage, Trigger
<1> QED
  BY <1>1, <1>2

\* Whatever the statement finds, the row it leaves holds what it sent.
LEMMA AnswerKeeps ==
    ASSUME db \in [Key -> Row \cup {NoRow}], NEW s \in Statement,
           s.op = "Insert" => s.set = InsertValue(Table) \cap Field,
           NEW a \in Answers(s)
    PROVE  Keeps(s, a)
<1>k. s.key \in Key
  BY DEF Statement
<1>1. CASE s.op = "Insert"
  <2>1. PICK k \in InsertKeys(s) :
             \/ a = Answer("row", k, Inserted(s), Diff(Inserted(s), Uncounted(s)))
             \/ \E row \in Triggered(Merged(db[k], s)) :
                  /\ db[k] # NoRow
                  /\ a = Answer("row", k, row, Diff(row, db[k]))
             \/ a = Answer("norow", k, db[k], NoChange) /\ DoNothing(Table)
             \/ a = Answer("error", k, db[k], NoChange)
    BY <1>1 DEF Answers, InsertAnswers
  <2>k. k \in Key
    BY <1>k DEF InsertKeys
  <2>2. \A f \in s.set \cap Written : Inserted(s)[f] = s.val[f]
    BY Groups DEF Inserted
  <2>3. CASE a = Answer("row", k, Inserted(s), Diff(Inserted(s), Uncounted(s)))
    BY <2>2, <2>3, <1>1 DEF Keeps, Answer
  <2>4. ASSUME NEW row \in Triggered(Merged(db[k], s)), db[k] # NoRow,
               a = Answer("row", k, row, Diff(row, db[k]))
        PROVE  Keeps(s, a)
    <3>1. Merged(db[k], s) \in Row
      BY <2>4, <2>k, MergedType
    <3>2. \A f \in Written : Merged(db[k], s)[f] = Inserted(s)[f]
      BY Groups DEF Merged
    <3>3. \A f \in Written : row[f] = Merged(db[k], s)[f]
      BY <3>1, TriggeredWritten
    <3> QED
      BY <3>2, <3>3, <2>2, <2>4, <1>1 DEF Keeps, Answer
  <2>5. CASE a = Answer("norow", k, db[k], NoChange) /\ DoNothing(Table)
    BY <2>5, <1>1 DEF Keeps, Answer
  <2>6. CASE a = Answer("error", k, db[k], NoChange)
    BY <2>6, <1>1 DEF Keeps, Answer
  <2> QED
    BY <2>1, <2>3, <2>4, <2>5, <2>6
<1>2. CASE s.op # "Insert" /\ db[s.key] = NoRow
  <2>1. a = Answer("norow", s.key, NoRow, NoChange)
    BY <1>2 DEF Answers
  <2> QED
    BY <2>1, <1>2 DEF Keeps, Answer
<1>3. CASE s.op \in {"Update", "FullUpdate"} /\ db[s.key] # NoRow
  <2>1. PICK row \in Triggered(Updated(db[s.key], s)) :
             a = Answer("row", s.key, row, Diff(row, db[s.key]))
    BY <1>3 DEF Answers, UpdateAnswers
  <2>2. Updated(db[s.key], s) \in Row
    BY <1>3, <1>k, MergedType
  <2>3. \A f \in s.set \cap Written : Updated(db[s.key], s)[f] = s.val[f]
    BY Groups DEF Updated
  <2>4. \A f \in Written : row[f] = Updated(db[s.key], s)[f]
    BY <2>2, TriggeredWritten
  <2> QED
    BY <2>1, <2>3, <2>4, <1>3 DEF Keeps, Answer
<1>4. CASE s.op \notin Stored
  BY <1>4 DEF Keeps, Stored
<1> QED
  BY <1>1, <1>2, <1>3, <1>4 DEF Stored

\* What holds of a client still holds when its record, its call and its
\* ledger stay as they are.
LEMMA TrackFrame ==
    ASSUME TrackInv, NEW d \in Client,
           rec'[d] = rec[d], call'[d] = call[d], known'[d] = known[d]
    PROVE  Tracked(d)' /\ Sends(d)' /\ Kept(d)'
BY DEF TrackInv, Tracked, Sends, Kept

LEMMA TrackInit == Init => TrackInv
<1> SUFFICES ASSUME Init PROVE TrackInv
  OBVIOUS
<1>1. TypeInv
  BY TypeInit
<1>2. PICK k \in Key : rec = [c \in Client |-> Fresh(k, BlankRow)]
  BY DEF Init
<1>3. ASSUME NEW c \in Client PROVE Tracked(c)
  BY <1>2, Groups DEF Init, Fresh, BlankRow, Tracked
<1>4. \A c \in Client : call[c].phase = "idle"
  BY DEF Init, Idle
<1> QED
  BY <1>1, <1>3, <1>4 DEF TrackInv, Sends, Kept

\* A setter of a column an UPDATE writes sets its bit.
LEMMA TrackEdit ==
    ASSUME TrackInv, NEW c \in Client, Edit(c)
    PROVE  TrackInv'
<1>t. TypeInv /\ TypeOK
  BY DEF TrackInv, TypeInv
<1>r. rec[c] \in Record /\ rec \in [Client -> Record]
      /\ known \in [Client -> [Written -> Int]]
  BY <1>t DEF TypeOK
<1>m. Tracked(c)
  BY DEF TrackInv
<1>1. TypeInv'
  BY <1>t, TypeEdit
<1>2. call' = call /\ call[c].phase = "idle"
  BY DEF Edit, New, Set, SetKey, Add, CanEdit, Free
<1>3. \A d \in Client : d # c => rec'[d] = rec[d] /\ known'[d] = known[d]
  BY <1>r DEF Edit, New, Set, SetKey, Add, history
<1>4. Tracked(c)'
  <2>1. CASE \E k \in Key : New(c, k)
    BY <2>1, <1>r, Groups DEF New, Fresh, BlankRow, Tracked
  <2>2. ASSUME NEW f \in Field, NEW v \in Value, Set(c, f, v)
        PROVE  Tracked(c)'
    <3>1. rec'[c] = SetColumn(rec[c], f, v) /\ known' = known
      BY <2>2, <1>r DEF Set
    <3>2. /\ rec'[c].data = [rec[c].data EXCEPT ![f] = v]
          /\ rec'[c].mask = rec[c].mask \cup ({f} \cap Written)
      BY <3>1, <1>r DEF SetColumn, Record
    <3>3. rec[c].data \in [Field -> Int]
      BY <1>r DEF Record, Row
    <3> QED
      BY <3>1, <3>2, <3>3, <1>m, Groups DEF Tracked
  <2>3. CASE \E k \in Key : SetKey(c, k)
    BY <2>3, <1>r, <1>m DEF SetKey, Record, history, Tracked
  <2>4. CASE \E m \in Counter, x \in Delta : Add(c, m, x)
    BY <2>4, <1>r, <1>m DEF Add, Record, Tracked
  <2> QED
    BY <2>1, <2>2, <2>3, <2>4 DEF Edit
<1>5. Sends(c)' /\ Kept(c)'
  BY <1>2 DEF Sends, Kept
<1>6. ASSUME NEW d \in Client
      PROVE  Tracked(d)' /\ Sends(d)' /\ Kept(d)'
  BY <1>2, <1>3, <1>4, <1>5, TrackFrame
<1> QED
  BY <1>1, <1>6 DEF TrackInv

\* A statement sent by a DAO method sends the record's changes.
LEMMA TrackCall ==
    ASSUME TrackInv, NEW c \in Client, NEW s \in Statement, Call(c, s),
           s.op = "Insert" => s.set = InsertValue(Table) \cap Field,
           s.op = "Update" => s.set = rec[c].mask,
           s.op = "FullUpdate" => s.set = Written,
           s.op = "Refresh" => s.set = {} /\ rec[c].mask = {},
           s.op \in Stored =>
              \A f \in s.set \cap Written : s.val[f] = rec[c].data[f]
    PROVE  TrackInv'
<1>t. TypeInv /\ TypeOK
  BY DEF TrackInv, TypeInv
<1>1. TypeInv'
  BY <1>t, TypeCall
<1>2. /\ call' = [call EXCEPT ![c] = [phase |-> "sent", stmt |-> s]]
      /\ rec' = rec /\ known' = known
  BY DEF Call, history
<1>3. call'[c] = [phase |-> "sent", stmt |-> s]
  BY <1>2, <1>t DEF TypeOK
<1>4. Sends(c)' /\ Kept(c)'
  BY <1>2, <1>3 DEF Sends, Kept
<1>5. ASSUME NEW d \in Client
      PROVE  Tracked(d)' /\ Sends(d)' /\ Kept(d)'
  <2>1. CASE d = c
    BY <2>1, <1>2, <1>4 DEF TrackInv, Tracked
  <2>2. CASE d # c
    BY <2>2, <1>2, TrackFrame
  <2> QED
    BY <2>1, <2>2
<1> QED
  BY <1>1, <1>5 DEF TrackInv

\* The arguments of a statement are the record's values.
LEMMA QueryArguments ==
    ASSUME NEW c \in Client, NEW op, NEW set
    PROVE  /\ Query(c, op, set).op = op
           /\ Query(c, op, set).set = set
           /\ \A f \in set \cap Written :
                 Query(c, op, set).val[f] = rec[c].data[f]
BY Groups DEF Query, InsertArg

\* Each DAO method sends such a statement.
LEMMA TrackDAO ==
    ASSUME TrackInv, NEW c \in Client,
           \/ Insert(c)
           \/ Update(c)
           \/ FullUpdate(c)
           \/ Delete(c)
           \/ \E k \in Key : Select(c, k)
    PROVE  TrackInv' \/ UNCHANGED vars
<1>t. TypeOK
  BY DEF TrackInv, TypeInv
<1>1. CASE Insert(c)
  <2>1. InsertQuery(c) \in Statement
    BY <1>t, SentType
  <2>2. /\ InsertQuery(c).op = "Insert"
        /\ InsertQuery(c).set = InsertValue(Table) \cap Field
        /\ \A f \in InsertQuery(c).set \cap Written :
              InsertQuery(c).val[f] = rec[c].data[f]
    BY QueryArguments DEF InsertQuery
  <2> QED
    BY <1>1, <2>1, <2>2, TrackCall DEF Insert
<1>2. CASE Update(c)
  <2>1. UpdateQuery(c) \in Statement /\ Query(c, "Refresh", {}) \in Statement
    BY <1>t, SentType
  <2>2. /\ UpdateQuery(c).op = "Update"
        /\ UpdateQuery(c).set = rec[c].mask
        /\ \A f \in UpdateQuery(c).set \cap Written :
              UpdateQuery(c).val[f] = rec[c].data[f]
    BY QueryArguments DEF UpdateQuery
  <2>3. Query(c, "Refresh", {}).op = "Refresh" /\ Query(c, "Refresh", {}).set = {}
    BY QueryArguments
  <2>4. CASE Call(c, UpdateQuery(c))
    BY <2>4, <2>1, <2>2, TrackCall
  <2>5. CASE Unchanged(rec[c]) /\ Call(c, Query(c, "Refresh", {}))
    BY <2>5, <2>1, <2>3, TrackCall DEF Unchanged, Stored
  <2> QED
    BY <1>2, <2>4, <2>5 DEF Update
<1>3. CASE FullUpdate(c)
  <2>1. FullUpdateQuery(c) \in Statement
    BY <1>t, SentType
  <2>2. /\ FullUpdateQuery(c).op = "FullUpdate"
        /\ FullUpdateQuery(c).set = Written
        /\ \A f \in FullUpdateQuery(c).set \cap Written :
              FullUpdateQuery(c).val[f] = rec[c].data[f]
    BY QueryArguments DEF FullUpdateQuery
  <2> QED
    BY <1>3, <2>1, <2>2, TrackCall DEF FullUpdate
<1>4. CASE Delete(c)
  <2>1. Query(c, "Delete", {}) \in Statement
    BY <1>t, SentType
  <2>2. Query(c, "Delete", {}).op = "Delete"
    BY QueryArguments
  <2> QED
    BY <1>4, <2>1, <2>2, TrackCall DEF Delete, Stored
<1>5. ASSUME NEW k \in Key, Select(c, k) PROVE TrackInv'
  <2> DEFINE s == [Query(c, "Select", {}) EXCEPT !.key = k]
  <2>1. s \in Statement
    BY <1>t, SentType
  <2>2. s.op = "Select"
    BY DEF Query
  <2>3. Call(c, s)
    BY <1>5 DEF Select
  <2> HIDE DEF s
  <2> QED
    BY <2>1, <2>2, <2>3, TrackCall DEF Stored
<1> QED
  BY <1>1, <1>2, <1>3, <1>4, <1>5

LEMMA TrackExecute ==
    ASSUME TrackInv, NEW c \in Client, Execute(c)
    PROVE  TrackInv'
<1>t. TypeInv /\ TypeOK
  BY DEF TrackInv, TypeInv
<1> DEFINE s == call[c].stmt
<1>1. PICK a \in Answers(s) :
           call' = [call EXCEPT ![c] =
                      [phase |-> "answered", stmt |-> s, reply |-> a]]
  BY DEF Execute
<1>2. s \in Statement
  BY <1>t, CallType DEF Execute
<1>3. s.op = "Insert" => s.set = InsertValue(Table) \cap Field
  BY DEF TrackInv, Sends, Execute
<1>4. rec' = rec /\ known' = known
  BY DEF Execute, history
<1>5. Keeps(s, a)
  BY <1>2, <1>3, <1>t, AnswerKeeps DEF TypeOK
<1>6. call'[c] = [phase |-> "answered", stmt |-> s, reply |-> a]
  BY <1>1, <1>t DEF TypeOK
<1>7. Sends(c)'
  BY <1>4, <1>6 DEF TrackInv, Sends, Execute
<1> HIDE DEF s
<1>8. Kept(c)'
  BY <1>5, <1>6 DEF Kept, Keeps
<1>9. ASSUME NEW d \in Client
      PROVE  Tracked(d)' /\ Sends(d)' /\ Kept(d)'
  <2>1. CASE d = c
    BY <2>1, <1>4, <1>7, <1>8 DEF TrackInv, Tracked
  <2>2. CASE d # c
    BY <2>2, <1>1, <1>4, TrackFrame
  <2> QED
    BY <2>1, <2>2
<1>10. TypeInv'
  BY <1>t, TypeExecute
<1> QED
  BY <1>9, <1>10 DEF TrackInv

LEMMA TrackExecuteLate ==
    ASSUME TrackInv, NEW s \in late, ExecuteLate(s)
    PROVE  TrackInv'
<1>1. rec' = rec /\ known' = known /\ call' = call
  BY DEF ExecuteLate, history
<1>2. TypeInv'
  BY TypeExecuteLate DEF TrackInv
<1>3. ASSUME NEW d \in Client
      PROVE  Tracked(d)' /\ Sends(d)' /\ Kept(d)'
  BY <1>1, TrackFrame
<1> QED
  BY <1>2, <1>3 DEF TrackInv

\* A call that clears the flags leaves the record with the row's values.
LEMMA TrackReturn ==
    ASSUME InsertTracked, TrackInv, NEW c \in Client, Return(c)
    PROVE  TrackInv'
<1>t. TypeInv /\ TypeOK
  BY DEF TrackInv, TypeInv
<1> DEFINE s == call[c].stmt
           a == call[c].reply
<1>1. s \in Statement /\ a \in Reply /\ rec[c] \in Record
  BY <1>t, CallType DEF Return, TypeOK
<1>2. /\ s.op = "Insert" => s.set = InsertValue(Table) \cap Field
      /\ s.op = "Update" => s.set = rec[c].mask
      /\ s.op = "FullUpdate" => s.set = Written
      /\ s.op = "Refresh" => s.set = {} /\ rec[c].mask = {}
      /\ s.op \in Stored =>
            \A f \in s.set \cap Written : s.val[f] = rec[c].data[f]
      /\ Keeps(s, a)
      /\ Tracked(c)
  BY DEF TrackInv, Sends, Kept, Return
<1>3. /\ rec' = [rec EXCEPT ![c] = Absorb(rec[c], s, a)]
      /\ known' = IF a.status = "row" /\ s.op # "Delete"
                  THEN [known EXCEPT ![c] =
                          [f \in Written |->
                             IF f \in Exchanged(s) THEN a.row[f] ELSE known[c][f]]]
                  ELSE known
      /\ call' = [call EXCEPT ![c] = Idle]
  BY DEF Return
<1> HIDE DEF s, a
<1>4. rec'[c] = Absorb(rec[c], s, a)
  BY <1>3, <1>t DEF TypeOK
<1>5. a.status = "row" /\ s.op # "Delete" =>
          \A f \in Written :
             known'[c][f] = IF f \in Exchanged(s) THEN a.row[f] ELSE known[c][f]
  BY <1>3, <1>t DEF TypeOK
<1>s. \A cols : \A f \in Field :
          Reset(Scan(rec[c], cols, a)).data[f] =
              IF f \in cols THEN a.row[f] ELSE rec[c].data[f]
  BY <1>1 DEF Reset, Scan, Record
<1>6. Tracked(c)'
  <2>1. CASE s.op = "Insert" /\ a.status = "row"
    <3>1. rec'[c] = Reset(Scan(rec[c], InsertResult(Table), a))
      BY <2>1, <1>4, AbsorbCases
    <3>2. ASSUME NEW f \in Written PROVE rec'[c].data[f] = known'[c][f]
      <4>1. f \in Field /\ known'[c][f] = a.row[f]
        BY <2>1, <1>5, Groups DEF Exchanged
      <4>2. CASE f \in InsertResult(Table)
        BY <3>1, <4>1, <4>2, <1>s
      <4>3. CASE f \notin InsertResult(Table)
        <5>1. f \in s.set
          BY <2>1, <4>1, <4>3, <1>2
             DEF InsertTracked, InsertValue, InsertResult, InsertColumns,
                 Written, UpdateValue, Updatable
        <5>2. a.row[f] = rec[c].data[f]
          BY <2>1, <5>1, <1>2 DEF Keeps, Stored
        <5> QED
          BY <3>1, <4>1, <4>3, <5>2, <1>s
      <4> QED
        BY <4>2, <4>3
    <3> QED
      BY <3>2 DEF Tracked
  <2>2. CASE s.op = "Insert" /\ a.status = "norow"
    <3>1. Absorb(rec[c], s, a) = rec[c]
      BY <2>2, <1>2, AbsorbCases DEF Keeps, InsertTracked
    <3>2. known' = known
      BY <2>2, <1>3
    <3> QED
      BY <3>1, <3>2, <1>2, <1>4 DEF Tracked
  <2>3. CASE s.op \in {"Update", "FullUpdate"} /\ a.status = "row"
    <3>1. rec'[c] = Reset(Scan(rec[c], UpdateResult(Table), a))
      BY <2>3, <1>4, AbsorbCases
    <3>2. ASSUME NEW f \in Written PROVE rec'[c].data[f] = known'[c][f]
      <4>1. f \in Field /\ f \notin UpdateResult(Table)
        BY Groups DEF Written, UpdateValue, UpdateResult
      <4>2. rec'[c].data[f] = rec[c].data[f]
        BY <3>1, <4>1, <1>s
      <4>3. CASE f \in s.set
        BY <2>3, <4>2, <4>3, <1>2, <1>5 DEF Exchanged, Keeps, Stored
      <4>4. CASE f \notin s.set
        <5>1. f \notin rec[c].mask
          BY <2>3, <4>4, <1>2
        <5> QED
          BY <2>3, <4>2, <4>4, <5>1, <1>2, <1>5 DEF Exchanged, Tracked
      <4> QED
        BY <4>3, <4>4
    <3> QED
      BY <3>2 DEF Tracked
  <2>4. CASE s.op = "Refresh" /\ a.status = "row"
    <3>1. rec'[c] = Reset(Scan(rec[c], Counter, a))
      BY <2>4, <1>4, AbsorbCases
    <3>2. ASSUME NEW f \in Written PROVE rec'[c].data[f] = known'[c][f]
      <4>1. rec'[c].data[f] = rec[c].data[f]
        BY <3>1, <1>s, Groups
      <4> QED
        BY <2>4, <4>1, <1>2, <1>5 DEF Exchanged, Tracked
    <3> QED
      BY <3>2 DEF Tracked
  <2>5. CASE s.op = "Select" /\ a.status = "row"
    <3>1. rec'[c].data = a.row
      BY <2>5, <1>4, AbsorbCases DEF Fresh
    <3> QED
      BY <2>5, <3>1, <1>5, Groups DEF Exchanged, Tracked
  <2>6. CASE s.op = "Delete" \/ (a.status # "row" /\ s.op # "Insert")
                             \/ a.status = "error"
    <3>1. Absorb(rec[c], s, a) = rec[c]
      BY <2>6, AbsorbCases
    <3>2. known' = known
      BY <2>6, <1>3
    <3> QED
      BY <3>1, <3>2, <1>2, <1>4 DEF Tracked
  <2>7. s.op \in Op /\ a.status \in {"row", "norow", "error"}
    BY <1>1 DEF Statement, Reply
  <2> QED
    BY <2>1, <2>2, <2>3, <2>4, <2>5, <2>6, <2>7 DEF Op
<1>7. call'[c].phase = "idle"
  BY <1>3, <1>t DEF TypeOK, Idle
<1>8. Sends(c)' /\ Kept(c)'
  BY <1>7 DEF Sends, Kept
<1>9. ASSUME NEW d \in Client
      PROVE  Tracked(d)' /\ Sends(d)' /\ Kept(d)'
  <2>1. CASE d = c
    BY <2>1, <1>6, <1>8
  <2>2. CASE d # c
    BY <2>2, <1>3, <1>t, TrackFrame DEF TypeOK
  <2> QED
    BY <2>1, <2>2
<1>10. TypeInv'
  BY <1>t, TypeReturn
<1> QED
  BY <1>9, <1>10 DEF TrackInv

\* A call that fails clears no flag.
LEMMA TrackFail ==
    ASSUME TrackInv, NEW c \in Client, Fail(c)
    PROVE  TrackInv'
<1>t. TypeInv /\ TypeOK
  BY DEF TrackInv, TypeInv
<1>1. /\ call' = [call EXCEPT ![c] = Idle]
      /\ \A d \in Client : d # c => rec'[d] = rec[d] /\ known'[d] = known[d]
      /\ rec'[c].mask = rec[c].mask
      /\ \A f \in Written :
            \/ rec'[c].data[f] = rec[c].data[f] /\ known'[c][f] = known[c][f]
            \/ rec'[c].data[f] = known'[c][f]
  BY <1>t, FailRecord
<1>2. TypeInv'
  BY <1>t, TypeFail
<1>3. call'[c].phase = "idle"
  BY <1>1, <1>t DEF TypeOK, Idle
<1>4. ASSUME NEW d \in Client
      PROVE  Tracked(d)' /\ Sends(d)' /\ Kept(d)'
  <2>1. CASE d = c
    BY <2>1, <1>1, <1>3 DEF TrackInv, Tracked, Sends, Kept
  <2>2. CASE d # c
    BY <2>2, <1>1, TrackFrame
  <2> QED
    BY <2>1, <2>2
<1> QED
  BY <1>2, <1>4 DEF TrackInv

LEMMA TrackStutter == TrackInv /\ UNCHANGED vars => TrackInv'
<1> SUFFICES ASSUME TrackInv, UNCHANGED vars PROVE TrackInv'
  OBVIOUS
<1>1. rec' = rec /\ known' = known /\ call' = call
  BY DEF vars
<1>2. TypeInv'
  BY TypeStutter DEF TrackInv
<1>3. ASSUME NEW d \in Client
      PROVE  Tracked(d)' /\ Sends(d)' /\ Kept(d)'
  BY <1>1, TrackFrame
<1> QED
  BY <1>2, <1>3 DEF TrackInv

LEMMA TrackNext ==
    ASSUME InsertTracked
    PROVE  TrackInv /\ [Next]_vars => TrackInv'
<1> SUFFICES ASSUME TrackInv, [Next]_vars PROVE TrackInv'
  OBVIOUS
<1>1. ASSUME NEW c \in Client, Edit(c) PROVE TrackInv'
  BY <1>1, TrackEdit
<1>2. ASSUME NEW c \in Client,
             \/ Insert(c)
             \/ Update(c)
             \/ FullUpdate(c)
             \/ Delete(c)
             \/ \E k \in Key : Select(c, k)
      PROVE  TrackInv'
  BY <1>2, TrackDAO, TrackStutter
<1>3. ASSUME NEW c \in Client, Execute(c) PROVE TrackInv'
  BY <1>3, TrackExecute
<1>4. ASSUME NEW c \in Client, Return(c) PROVE TrackInv'
  BY <1>4, TrackReturn
<1>5. ASSUME NEW c \in Client, Fail(c) PROVE TrackInv'
  BY <1>5, TrackFail
<1>6. ASSUME NEW s \in late, ExecuteLate(s) PROVE TrackInv'
  BY <1>6, TrackExecuteLate
<1> QED
  BY <1>1, <1>2, <1>3, <1>4, <1>5, <1>6, TrackStutter DEF Next

\* A column whose bit is clear holds the value last exchanged with the table,
\* for every number of clients and every interleaving and failure, as long as
\* the declaration lets an INSERT reach every column an UPDATE may write and
\* keeps the flags of an INSERT that was ignored.
THEOREM TrackingCorrect ==
    ASSUME InsertTracked
    PROVE  Spec => []DirtyTracking
<1>1. TrackInv => DirtyTracking
  BY DEF TrackInv, Tracked, DirtyTracking
<1>2. TrackInv /\ [Next]_vars => TrackInv'
  BY TrackNext
<1> QED
  BY TrackInit, <1>1, <1>2, PTL DEF Spec

----------------------------------------------------------------------------
(* A smart UPDATE writes only changes.  What it sends is what the record   *)
(* marks, and what the record marks was changed since the last exchange.   *)

\* The columns an UPDATE may alter in a row it finds.
Alters(s) == s.set \cup {m \in Counter : s.add[m] # 0}

Honest(s) == s.op = "Update" => Alters(s) \subseteq s.changed

Marked(c) == rec[c].mask \cup {m \in Counter : rec[c].mut[m] # 0} \subseteq touched[c]

ChangedInv ==
    /\ TypeInv
    /\ \A c \in Client : Marked(c) /\ (call[c].phase = "sent" => Honest(call[c].stmt))
    /\ \A s \in late : Honest(s)

LEMMA ChangedInit == Init => ChangedInv
<1> SUFFICES ASSUME Init PROVE ChangedInv
  OBVIOUS
<1>1. PICK k \in Key : rec = [c \in Client |-> Fresh(k, BlankRow)]
  BY DEF Init
<1>2. \A c \in Client : Marked(c)
  BY <1>1 DEF Marked, Fresh, NoChange
<1> QED
  BY <1>2, TypeInit DEF Init, ChangedInv, Idle

LEMMA MarkedEdit ==
    ASSUME ChangedInv, NEW c \in Client, Edit(c)
    PROVE  Marked(c)'
<1>t. /\ rec \in [Client -> Record] /\ touched \in [Client -> SUBSET Field]
      /\ rec[c] \in Record
  BY DEF ChangedInv, TypeInv, TypeOK
<1>m. rec[c].mask \subseteq touched[c]
      /\ \A n \in Counter : rec[c].mut[n] # 0 => n \in touched[c]
  BY DEF ChangedInv, Marked
<1>1. ASSUME NEW k \in Key, New(c, k) PROVE Marked(c)'
  <2>1. rec'[c] = Fresh(k, BlankRow)
    BY <1>1, <1>t DEF New
  <2> QED
    BY <2>1 DEF Marked, Fresh, NoChange
<1>2. ASSUME NEW f \in Field, NEW v \in Value, Set(c, f, v) PROVE Marked(c)'
  <2>1. rec'[c] = SetColumn(rec[c], f, v) /\ touched'[c] = touched[c] \cup {f}
    BY <1>2, <1>t DEF Set
  <2>2. /\ rec'[c].mask \subseteq rec[c].mask \cup {f}
        /\ rec'[c].mut = rec[c].mut
    BY <2>1, <1>t DEF SetColumn, Record
  <2> QED
    BY <2>1, <2>2, <1>m DEF Marked
<1>3. ASSUME NEW k \in Key, SetKey(c, k) PROVE Marked(c)'
  <2>1. /\ rec'[c].mask = rec[c].mask /\ rec'[c].mut = rec[c].mut
        /\ touched' = touched
    BY <1>3, <1>t DEF SetKey, Record, history
  <2> QED
    BY <2>1, <1>m DEF Marked
<1>4. ASSUME NEW m \in Counter, NEW x \in Delta, Add(c, m, x) PROVE Marked(c)'
  <2>1. /\ rec'[c].mask = rec[c].mask
        /\ \A n \in Counter \ {m} : rec'[c].mut[n] = rec[c].mut[n]
        /\ touched'[c] = touched[c] \cup {m}
    BY <1>4, <1>t DEF Add, Record, Change
  <2> QED
    BY <2>1, <1>m DEF Marked
<1> QED
  BY <1>1, <1>2, <1>3, <1>4 DEF Edit

\* A call that exchanged its record's columns leaves nothing marked; any other
\* marks nothing new.
LEMMA AbsorbMarks ==
    ASSUME NEW r \in Record, NEW s \in Statement, NEW a \in Reply
    PROVE  \/ Absorb(r, s, a).mask = {} /\ Absorb(r, s, a).mut = NoChange
           \/ Absorb(r, s, a) = r /\ ~(a.status = "row" /\ s.op # "Delete")
<1>1. \A cols : Reset(Scan(r, cols, a)).mask = {} /\ Reset(Scan(r, cols, a)).mut = NoChange
  BY DEF Reset, Scan, Record
<1>2. Reset(r).mask = {} /\ Reset(r).mut = NoChange
  BY DEF Reset, Record
<1>3. Fresh(a.key, a.row).mask = {} /\ Fresh(a.key, a.row).mut = NoChange
  BY DEF Fresh
<1>4. CASE s.op = "Insert"
  BY <1>1, <1>2, <1>4, AbsorbCases DEF Reply
<1>5. CASE s.op \in {"Update", "FullUpdate"}
  BY <1>1, <1>5, AbsorbCases
<1>6. CASE s.op = "Refresh"
  BY <1>1, <1>6, AbsorbCases
<1>7. CASE s.op = "Select"
  BY <1>3, <1>7, AbsorbCases
<1>8. CASE s.op = "Delete"
  BY <1>8, AbsorbCases
<1> QED
  BY <1>4, <1>5, <1>6, <1>7, <1>8 DEF Statement, Op

LEMMA MarkedReturn ==
    ASSUME ChangedInv, NEW c \in Client, Return(c)
    PROVE  Marked(c)'
<1> DEFINE s == call[c].stmt
           a == call[c].reply
<1>t. TypeOK
  BY DEF ChangedInv, TypeInv
<1>1. /\ call[c].phase = "answered"
      /\ rec'[c] = Absorb(rec[c], s, a)
      /\ touched' = IF a.status = "row" /\ s.op # "Delete"
                    THEN [touched EXCEPT ![c] = {}] ELSE touched
  BY <1>t DEF Return, TypeOK
<1>2. s \in Statement /\ a \in Reply /\ rec[c] \in Record
  BY <1>1, <1>t, CallType DEF TypeOK
<1>3. Marked(c)
  BY DEF ChangedInv
<1> HIDE DEF s, a
<1>4. CASE Absorb(rec[c], s, a).mask = {} /\ Absorb(rec[c], s, a).mut = NoChange
  BY <1>1, <1>4 DEF Marked, NoChange
<1>5. CASE Absorb(rec[c], s, a) = rec[c] /\ ~(a.status = "row" /\ s.op # "Delete")
  BY <1>1, <1>3, <1>5 DEF Marked
<1> QED
  BY <1>2, <1>4, <1>5, AbsorbMarks

\* What a DAO method sends.
LEMMA HonestCall ==
    ASSUME ChangedInv, NEW c \in Client,
           \/ Insert(c) \/ Update(c) \/ FullUpdate(c) \/ Delete(c)
           \/ \E k \in Key : Select(c, k)
    PROVE  (\E s \in Statement : Call(c, s) /\ Honest(s)) \/ UNCHANGED vars
<1>t. TypeOK
  BY DEF ChangedInv, TypeInv
<1>1. \A op, set : Query(c, op, set).op = op
  BY DEF Query
<1>2. CASE Insert(c)
  BY <1>1, <1>2, <1>t, SentType DEF Insert, InsertQuery, Honest
<1>3. CASE Update(c)
  <2>1. Honest(UpdateQuery(c))
    <3>1. /\ UpdateQuery(c).set = rec[c].mask
          /\ UpdateQuery(c).add = rec[c].mut
          /\ UpdateQuery(c).changed = touched[c]
      BY DEF UpdateQuery, Query, Stored
    <3> QED
      BY <3>1 DEF Honest, Alters, ChangedInv, Marked
  <2>2. Honest(Query(c, "Refresh", {}))
    BY <1>1 DEF Honest
  <2> QED
    BY <1>3, <2>1, <2>2, <1>t, SentType DEF Update
<1>4. CASE FullUpdate(c)
  BY <1>1, <1>4, <1>t, SentType DEF FullUpdate, FullUpdateQuery, Honest
<1>5. CASE Delete(c)
  BY <1>1, <1>5, <1>t, SentType DEF Delete, Honest
<1>6. ASSUME NEW k \in Key, Select(c, k)
      PROVE  \E s \in Statement : Call(c, s) /\ Honest(s)
  <2> DEFINE s == [Query(c, "Select", {}) EXCEPT !.key = k]
  <2>1. s \in Statement /\ Call(c, s)
    BY <1>6, <1>t, SentType DEF Select
  <2>2. s.op = "Select"
    BY DEF Query
  <2> HIDE DEF s
  <2> QED
    BY <2>1, <2>2 DEF Honest
<1> QED
  BY <1>2, <1>3, <1>4, <1>5, <1>6

\* A client whose record and call are as they were.
LEMMA ChangedFrame ==
    ASSUME ChangedInv, NEW d \in Client, rec'[d] = rec[d], touched'[d] = touched[d]
    PROVE  Marked(d)'
BY DEF ChangedInv, Marked

LEMMA ChangedNext == ChangedInv /\ [Next]_vars => ChangedInv'
<1> SUFFICES ASSUME ChangedInv, [Next]_vars PROVE ChangedInv'
  OBVIOUS
<1>t. TypeInv /\ TypeOK
  BY DEF ChangedInv, TypeInv
<1>c. TypeInv'
  BY <1>t, TypeNext
<1> DEFINE Told(d) == call[d].phase = "sent" => Honest(call[d].stmt)
<1>h. (\A d \in Client : Told(d)) /\ (\A s \in late : Honest(s))
  BY DEF ChangedInv
<1>1. ASSUME NEW c \in Client, Edit(c) PROVE ChangedInv'
  <2>1. call' = call /\ late' = late
    BY <1>1 DEF Edit, New, Set, SetKey, Add, storage
  <2>2. \A d \in Client \ {c} : rec'[d] = rec[d] /\ touched'[d] = touched[d]
    BY <1>1, <1>t DEF Edit, New, Set, SetKey, Add, history, TypeOK
  <2>3. \A d \in Client : Marked(d)'
    BY <1>1, <2>2, MarkedEdit, ChangedFrame
  <2> QED
    BY <1>c, <1>h, <2>1, <2>3 DEF ChangedInv, Honest, Alters
<1>2. ASSUME NEW c \in Client, NEW s \in Statement, Call(c, s), Honest(s)
      PROVE  ChangedInv'
  <2>1. /\ rec' = rec /\ touched' = touched /\ late' = late
        /\ call' = [call EXCEPT ![c] = [phase |-> "sent", stmt |-> s]]
    BY <1>2 DEF Call, storage, history
  <2>2. \A d \in Client : Marked(d)'
    BY <2>1, ChangedFrame
  <2>3. \A d \in Client : call'[d].phase = "sent" =>
                            Honest(call'[d].stmt)
    BY <2>1, <1>2, <1>h, <1>t DEF TypeOK
  <2> QED
    BY <1>c, <1>h, <2>1, <2>2, <2>3 DEF ChangedInv, Honest, Alters
<1>3. ASSUME NEW c \in Client, Execute(c) PROVE ChangedInv'
  <2>1. /\ rec' = rec /\ touched' = touched /\ late' = late
        /\ call'[c].phase = "answered" /\ \A d \in Client \ {c} : call'[d] = call[d]
    BY <1>3, <1>t DEF Execute, history, TypeOK
  <2>2. \A d \in Client : Marked(d)'
    BY <2>1, ChangedFrame
  <2> QED
    BY <1>c, <1>h, <2>1, <2>2 DEF ChangedInv, Honest, Alters
<1>4. ASSUME NEW c \in Client, Return(c) PROVE ChangedInv'
  <2>1. /\ late' = late /\ call'[c].phase = "idle"
        /\ \A d \in Client \ {c} :
              call'[d] = call[d] /\ rec'[d] = rec[d] /\ touched'[d] = touched[d]
    BY <1>4, <1>t DEF Return, storage, Idle, TypeOK
  <2>2. \A d \in Client : Marked(d)'
    BY <1>4, <2>1, MarkedReturn, ChangedFrame
  <2> QED
    BY <1>c, <1>h, <2>1, <2>2 DEF ChangedInv, Honest, Alters
<1>5. ASSUME NEW c \in Client, Fail(c) PROVE ChangedInv'
  <2>1. /\ touched' = touched
        /\ call'[c].phase = "idle" /\ \A d \in Client \ {c} : call'[d] = call[d]
        /\ late' = late \/ (call[c].phase = "sent" /\ late' = late \cup {call[c].stmt})
    BY <1>5, <1>t DEF Fail, Idle, TypeOK
  <2>m. \A d \in Client : rec'[d].mask = rec[d].mask /\ rec'[d].mut = rec[d].mut
    BY <1>5, <1>t, FailRecord
  <2>2. \A d \in Client : Marked(d)'
    BY <2>1, <2>m DEF ChangedInv, Marked
  <2>3. \A s \in late' : Honest(s)
    BY <1>h, <2>1
  <2> QED
    BY <1>c, <1>h, <2>1, <2>2, <2>3 DEF ChangedInv, Honest, Alters
<1>6. ASSUME NEW s \in late, ExecuteLate(s) PROVE ChangedInv'
  <2>1. /\ rec' = rec /\ touched' = touched /\ call' = call /\ late' \subseteq late
    BY <1>6 DEF ExecuteLate, history
  <2>2. \A d \in Client : Marked(d)'
    BY <2>1, ChangedFrame
  <2> QED
    BY <1>c, <1>h, <2>1, <2>2 DEF ChangedInv, Honest, Alters
<1>7. CASE UNCHANGED vars
  <2>1. rec' = rec /\ touched' = touched /\ call' = call /\ late' = late
    BY <1>7 DEF vars
  <2>2. \A d \in Client : Marked(d)'
    BY <2>1, ChangedFrame
  <2> QED
    BY <1>c, <1>h, <2>1, <2>2 DEF ChangedInv, Honest, Alters
<1>8. ASSUME NEW c \in Client,
             \/ Insert(c) \/ Update(c) \/ FullUpdate(c) \/ Delete(c)
             \/ \E k \in Key : Select(c, k)
      PROVE  ChangedInv'
  BY <1>2, <1>7, <1>8, HonestCall
<1> QED
  BY <1>1, <1>3, <1>4, <1>5, <1>6, <1>7, <1>8 DEF Next

\* The row that an UPDATE finds keeps what the UPDATE does not alter.
OnlyChanges(s) ==
    s.op = "Update" =>
        \A k \in Key : db[k] # db'[k] =>
            /\ k = s.key
            /\ db[k] # NoRow /\ db'[k] # NoRow
            /\ \A f \in Field \ (Trigger \cup s.changed) : db'[k][f] = db[k][f]

LEMMA HonestEffect ==
    ASSUME TypeOK, NEW s \in Statement, Honest(s), NEW a \in Answers(s), Effect(s, a)
    PROVE  OnlyChanges(s)
<1> SUFFICES ASSUME s.op = "Update", NEW k \in Key, db[k] # db'[k]
             PROVE  /\ k = s.key
                    /\ db[k] # NoRow /\ db'[k] # NoRow
                    /\ \A f \in Field \ (Trigger \cup s.changed) :
                          db'[k][f] = db[k][f]
  BY DEF OnlyChanges
<1>1. db \in [Key -> Row \cup {NoRow}] /\ s.key \in Key /\ s.add \in Change
  BY DEF TypeOK, Statement
<1>2. db' = [db EXCEPT ![a.key] = a.row]
  BY DEF Effect
<1>3. db[s.key] # NoRow
  <2>1. ASSUME db[s.key] = NoRow PROVE a.key = s.key /\ a.row = NoRow
    BY <2>1 DEF Answers, Answer
  <2> QED
    BY <1>1, <1>2, <2>1
<1>4. PICK row \in Triggered(Updated(db[s.key], s)) :
           a = Answer("row", s.key, row, Diff(row, db[s.key]))
  BY <1>3 DEF Answers, UpdateAnswers
<1>5. k = s.key /\ db'[k] = row
  BY <1>1, <1>2, <1>4 DEF Answer
<1>6. db[k] \in Row /\ Updated(db[k], s) \in Row
  BY <1>1, <1>3, <1>5, MergedType
<1>7. row \in Row
  BY <1>4, <1>5, <1>6, TriggeredType
<1>8. ASSUME NEW f \in Field \ (Trigger \cup s.changed) PROVE row[f] = db[k][f]
  <2>1. row[f] = Updated(db[k], s)[f]
    BY <1>4, <1>5 DEF Triggered
  <2>2. f \notin s.set /\ (f \in Counter => s.add[f] = 0)
    BY <1>8 DEF Honest, Alters
  <2>3. db[k][f] \in Int
    BY <1>6 DEF Row
  <2> QED
    BY <2>1, <2>2, <2>3 DEF Updated
<1> QED
  BY <1>3, <1>5, <1>7, <1>8, ValueAssumption

LEMMA WritesChanges ==
    ASSUME ChangedInv, [Next]_vars
    PROVE  \A s \in Executed : OnlyChanges(s)
<1>t. TypeOK
  BY DEF ChangedInv, TypeInv
<1>e. Executed = {call[c].stmt : c \in {d \in Client : /\ call[d].phase = "sent"
                                                    /\ call'[d].phase = "answered"}}
                 \cup (late \ late')
  BY DEF Executed
<1>1. ASSUME late \subseteq late',
             \A d \in Client : call'[d] = call[d] \/ call'[d].phase # "answered"
      PROVE  Executed = {}
  BY <1>1, <1>e
<1>2. ASSUME NEW c \in Client, Edit(c) PROVE Executed = {}
  BY <1>1, <1>2 DEF Edit, New, Set, SetKey, Add, storage
<1>3. ASSUME NEW c \in Client,
             \/ Insert(c) \/ Update(c) \/ FullUpdate(c) \/ Delete(c)
             \/ \E k \in Key : Select(c, k)
      PROVE  Executed = {}
  <2>1. ASSUME NEW s \in Statement, Call(c, s) PROVE Executed = {}
    BY <2>1, <1>1, <1>t DEF Call, storage, TypeOK
  <2>2. CASE UNCHANGED vars
    BY <2>2, <1>1 DEF vars
  <2> QED
    BY <1>3, <1>t, <2>1, <2>2, DAOStep
<1>4. ASSUME NEW c \in Client, Return(c) \/ Fail(c) PROVE Executed = {}
  <2>1. late \subseteq late' /\ call' = [call EXCEPT ![c] = Idle]
    BY <1>4 DEF Return, Fail, storage
  <2>2. \A d \in Client : call'[d] = call[d] \/ call'[d].phase # "answered"
    BY <2>1, <1>t DEF TypeOK, Idle
  <2> QED
    BY <1>1, <2>1, <2>2
<1>5. ASSUME NEW c \in Client, Execute(c) PROVE \A s \in Executed : OnlyChanges(s)
  <2>1. PICK a \in Answers(call[c].stmt) :
             /\ Effect(call[c].stmt, a)
             /\ call' = [call EXCEPT ![c] =
                           [phase |-> "answered", stmt |-> call[c].stmt, reply |-> a]]
    BY <1>5 DEF Execute
  <2>2. call[c].stmt \in Statement /\ Honest(call[c].stmt)
    BY <1>5, <1>t, CallType DEF Execute, ChangedInv
  <2>3. OnlyChanges(call[c].stmt)
    BY <2>1, <2>2, <1>t, HonestEffect
  <2>4. late' = late /\ \A d \in Client \ {c} : call'[d] = call[d]
    BY <2>1, <1>5, <1>t DEF Execute, TypeOK
  <2>5. Executed \subseteq {call[c].stmt}
    BY <2>4, <1>e
  <2> QED
    BY <2>3, <2>5
<1>6. ASSUME NEW s \in late, ExecuteLate(s) PROVE \A x \in Executed : OnlyChanges(x)
  <2>1. PICK a \in Answers(s) : Effect(s, a)
    BY <1>6 DEF ExecuteLate
  <2>2. s \in Statement /\ Honest(s)
    BY <1>t DEF TypeOK, ChangedInv
  <2>3. OnlyChanges(s)
    BY <2>1, <2>2, <1>t, HonestEffect
  <2>4. Executed \subseteq {s}
    BY <1>6, <1>e DEF ExecuteLate
  <2> QED
    BY <2>3, <2>4
<1>7. CASE UNCHANGED vars
  BY <1>7, <1>1 DEF vars
<1> QED
  BY <1>2, <1>3, <1>4, <1>5, <1>6, <1>7 DEF Next

\* A smart UPDATE alters only columns the application had changed since its
\* record was last exchanged with the table, even if it is executed after its
\* caller gave up, for every declaration within TableAssumption.
THEOREM UpdatesWriteChanges == Spec => UpdateWritesOnlyChanges
<1>1. ChangedInv /\ [Next]_vars => ChangedInv'
  BY ChangedNext
<1>2. ChangedInv /\ [Next]_vars =>
          \A s \in Executed : s.op = "Update" =>
              \A k \in Key : db[k] # db'[k] =>
                 /\ k = s.key
                 /\ db[k] # NoRow /\ db'[k] # NoRow
                 /\ \A f \in Field \ (Trigger \cup s.changed) : db'[k][f] = db[k][f]
  BY WritesChanges DEF OnlyChanges
<1> QED
  BY ChangedInit, <1>1, <1>2, PTL DEF Spec, UpdateWritesOnlyChanges
=============================================================================
