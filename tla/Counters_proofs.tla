-------------------------- MODULE Counters_proofs --------------------------
(***************************************************************************)
(* Mutators are exactly-once.  The invariant is not inductive alone: it    *)
(* also takes that the statement in flight carries what the record holds,  *)
(* and that its answer tells what the row has gained.  From it follows     *)
(* that the records implement Tally.                                       *)
(***************************************************************************)
EXTENDS ActiveRecord_proofs, Counting, Replicas

\* Counting before the first INSERT is safe when the INSERT stores the
\* counters, and when a row it leaves alone does not reset them.
CountsStored ==
    CountBeforeInsert =>
        /\ Counter \subseteq InsertValue(Table)
        /\ DoNothing(Table) => InsertResult(Table) # {}

\* What a statement writes, by its operation.
WellFormed(s) ==
    /\ s.op = "Insert" => /\ s.set = InsertValue(Table) \cap Field
                          /\ CountBeforeInsert \/ s.add = NoChange
    /\ s.op \in {"Update", "FullUpdate"} => s.set \subseteq Written

\* The statement in flight carries the pending increments of its record.
Carries(c) ==
    call[c].phase \in {"sent", "answered"} =>
        /\ WellFormed(call[c].stmt)
        /\ call[c].stmt.op \in Stored => call[c].stmt.add = rec[c].mut
        /\ call[c].stmt.op = "Refresh" => rec[c].mut = NoChange

\* An answer's effect is the increments of its statement.
Gains(s, a) ==
    /\ s.op \in Stored /\ a.status = "row" => a.effect = s.add
    /\ s.op = "Refresh" => a.effect = NoChange
    /\ s.op = "Insert" /\ a.status = "norow" => DoNothing(Table)

Answered(c) ==
    call[c].phase = "answered" => Gains(call[c].stmt, call[c].reply)

CountInv ==
    /\ TypeInv
    /\ \A c \in Client : rec[c].mut = owed[c] /\ Carries(c) /\ Answered(c)

LEMMA TriggeredCounter ==
    ASSUME NEW row \in Row, NEW new \in Triggered(row), NEW m \in Counter
    PROVE  new[m] = row[m]
<1>1. PICK t \in [Trigger -> Stamp] :
           new = [f \in Field |-> IF f \in Trigger THEN t[f] ELSE row[f]]
  BY DEF Triggered
<1> QED
  BY <1>1, Groups

\* Whatever the statement finds, it adds its increments, once.
LEMMA AnswerGains ==
    ASSUME CountsStored, db \in [Key -> Row \cup {NoRow}],
           NEW s \in Statement, WellFormed(s), NEW a \in Answers(s)
    PROVE  Gains(s, a)
<1>k. s.key \in Key /\ s.add \in Change
  BY DEF Statement
<1>1. CASE s.op = "Insert"
  <2>1. PICK k \in InsertKeys(s) :
             \/ a = Answer("row", k, Inserted(s), Diff(Inserted(s), Uncounted(s)))
             \/ \E row \in Triggered(Merged(db[k], s)) :
                  /\ db[k] # NoRow
                  /\ a = Answer("row", k, row, Diff(row, db[k]))
             \/ a = Answer("norow", k, db[k], NoChange) /\ DoNothing(Table)
             \/ a = Answer("error", k, db[k], NoChange)
    BY <1>1 DEF Answers, InsertAnswers
  <2>k. k \in Key
    BY <1>k DEF InsertKeys
  <2>2. CASE a = Answer("row", k, Inserted(s), Diff(Inserted(s), Uncounted(s)))
    <3>1. ASSUME NEW m \in Counter
          PROVE  Diff(Inserted(s), Uncounted(s))[m] = s.add[m]
      <4>1. m \in Field /\ s.add[m] \in Int /\ s.val[m] \in Int /\ Default[m] \in Int
        BY Groups, ValueAssumption DEF Statement, Change, Row
      <4>2. CASE m \in s.set
        BY <4>1, <4>2 DEF Diff, Inserted, Uncounted
      <4>3. CASE m \notin s.set
        <5>1. s.add = NoChange
          BY <4>1, <4>3, <1>1 DEF WellFormed, CountsStored
        <5> QED
          BY <4>1, <4>3, <5>1 DEF Diff, Inserted, Uncounted, NoChange
      <4> QED
        BY <4>2, <4>3
    <3>2. Diff(Inserted(s), Uncounted(s)) = s.add
      BY <3>1, <1>k DEF Diff, Change
    <3> QED
      BY <2>2, <3>2, <1>1 DEF Gains, Answer
  <2>3. ASSUME NEW row \in Triggered(Merged(db[k], s)), db[k] # NoRow,
               a = Answer("row", k, row, Diff(row, db[k]))
        PROVE  Gains(s, a)
    <3>1. db[k] \in Row /\ Merged(db[k], s) \in Row
      BY <2>3, <2>k, MergedType
    <3>2. ASSUME NEW m \in Counter
          PROVE  row[m] - db[k][m] = s.add[m]
      <4>1. row[m] = Merged(db[k], s)[m]
        BY <3>1, TriggeredCounter
      <4>2. Merged(db[k], s)[m] = db[k][m] + s.add[m]
        BY Groups DEF Merged
      <4>3. db[k][m] \in Int /\ s.add[m] \in Int
        BY <3>1, <1>k, Groups DEF Row, Change
      <4> QED
        BY <4>1, <4>2, <4>3
    <3>3. Diff(row, db[k]) = s.add
      BY <3>2, <1>k DEF Diff, Change
    <3> QED
      BY <2>3, <3>3, <1>1 DEF Gains, Answer
  <2>4. CASE a = Answer("norow", k, db[k], NoChange) /\ DoNothing(Table)
    BY <2>4, <1>1 DEF Gains, Answer
  <2>5. CASE a = Answer("error", k, db[k], NoChange)
    BY <2>5, <1>1 DEF Gains, Answer
  <2> QED
    BY <2>1, <2>2, <2>3, <2>4, <2>5
<1>2. CASE s.op # "Insert" /\ db[s.key] = NoRow
  <2>1. a = Answer("norow", s.key, NoRow, NoChange)
    BY <1>2 DEF Answers
  <2> QED
    BY <2>1, <1>2 DEF Gains, Answer
<1>3. CASE s.op \in {"Update", "FullUpdate"} /\ db[s.key] # NoRow
  <2>1. PICK row \in Triggered(Updated(db[s.key], s)) :
             a = Answer("row", s.key, row, Diff(row, db[s.key]))
    BY <1>3 DEF Answers, UpdateAnswers
  <2>2. db[s.key] \in Row /\ Updated(db[s.key], s) \in Row
    BY <1>3, <1>k, MergedType
  <2>3. ASSUME NEW m \in Counter
        PROVE  row[m] - db[s.key][m] = s.add[m]
    <3>1. row[m] = Updated(db[s.key], s)[m]
      BY <2>2, TriggeredCounter
    <3>2. Updated(db[s.key], s)[m] = db[s.key][m] + s.add[m]
      BY <1>3, Groups DEF Updated, WellFormed
    <3>3. db[s.key][m] \in Int /\ s.add[m] \in Int
      BY <2>2, <1>k, Groups DEF Row, Change
    <3> QED
      BY <3>1, <3>2, <3>3
  <2>4. Diff(row, db[s.key]) = s.add
    BY <2>3, <1>k DEF Diff, Change
  <2> QED
    BY <2>1, <2>4, <1>3 DEF Gains, Answer
<1>4. CASE s.op \in {"Select", "Refresh", "Delete"} /\ db[s.key] # NoRow
  <2>1. a.effect = NoChange
    BY <1>4 DEF Answers, Answer
  <2> QED
    BY <2>1, <1>4 DEF Gains, Stored
<1> QED
  BY <1>1, <1>2, <1>3, <1>4 DEF Op, Statement

\* What holds of a client still holds when its record, its call and its
\* ledger stay as they are.
LEMMA CountFrame ==
    ASSUME CountInv, NEW d \in Client,
           rec'[d] = rec[d], call'[d] = call[d], owed'[d] = owed[d]
    PROVE  rec'[d].mut = owed'[d] /\ Carries(d)' /\ Answered(d)'
BY DEF CountInv, Carries, Answered

LEMMA CountInit == Init => CountInv
<1> SUFFICES ASSUME Init PROVE CountInv
  OBVIOUS
<1>1. TypeInv
  BY TypeInit
<1>2. PICK k \in Key : rec = [c \in Client |-> Fresh(k, BlankRow)]
  BY DEF Init
<1>3. ASSUME NEW c \in Client
      PROVE  rec[c].mut = owed[c] /\ call[c].phase = "idle"
  BY <1>2 DEF Init, Fresh, Idle
<1> QED
  BY <1>1, <1>3 DEF CountInv, Carries, Answered

\* Inc, Dec and Add count in the record and in the ledger alike; a record
\* made anew has counted nothing.
LEMMA CountEdit ==
    ASSUME CountInv, NEW c \in Client, Edit(c)
    PROVE  CountInv'
<1>t. TypeInv /\ TypeOK
  BY DEF CountInv, TypeInv
<1>r. rec[c] \in Record /\ rec \in [Client -> Record] /\ owed \in [Client -> Change]
  BY <1>t DEF TypeOK
<1>m. rec[c].mut = owed[c]
  BY DEF CountInv
<1>1. TypeInv'
  BY <1>t, TypeEdit
<1>2. call' = call /\ call[c].phase = "idle"
  BY DEF Edit, New, Set, SetKey, Add, CanEdit, Free
<1>3. \A d \in Client : d # c => rec'[d] = rec[d] /\ owed'[d] = owed[d]
  BY <1>r DEF Edit, New, Set, SetKey, Add, history
<1>4. rec'[c].mut = owed'[c]
  <2>1. CASE \E k \in Key : New(c, k)
    BY <2>1, <1>r DEF New, Fresh
  <2>2. CASE \E f \in Field, v \in Value : Set(c, f, v)
    BY <2>2, <1>r, <1>m DEF Set, SetColumn, Record
  <2>3. CASE \E k \in Key : SetKey(c, k)
    BY <2>3, <1>r, <1>m DEF SetKey, Record, history
  <2>4. CASE \E m \in Counter, x \in Delta : Add(c, m, x)
    <3>1. PICK m \in Counter, x \in Delta : Add(c, m, x)
      BY <2>4
    <3>2. rec'[c].mut = [rec[c].mut EXCEPT ![m] = @ + x]
      BY <3>1, <1>r DEF Add, Record
    <3>3. owed'[c] = [owed[c] EXCEPT ![m] = @ + x]
      BY <3>1, <1>r DEF Add
    <3> QED
      BY <3>2, <3>3, <1>m
  <2> QED
    BY <2>1, <2>2, <2>3, <2>4 DEF Edit
<1>5. Carries(c)' /\ Answered(c)'
  BY <1>2 DEF Carries, Answered
<1>6. ASSUME NEW d \in Client
      PROVE  rec'[d].mut = owed'[d] /\ Carries(d)' /\ Answered(d)'
  BY <1>2, <1>3, <1>4, <1>5, CountFrame
<1> QED
  BY <1>1, <1>6 DEF CountInv

\* A statement sent by a DAO method carries the pending increments.
LEMMA CountCall ==
    ASSUME CountInv, NEW c \in Client, NEW s \in Statement, Call(c, s),
           WellFormed(s),
           s.op \in Stored => s.add = rec[c].mut,
           s.op = "Refresh" => rec[c].mut = NoChange
    PROVE  CountInv'
<1>t. TypeInv /\ TypeOK
  BY DEF CountInv, TypeInv
<1>1. TypeInv'
  BY <1>t, TypeCall
<1>2. /\ call' = [call EXCEPT ![c] = [phase |-> "sent", stmt |-> s]]
      /\ rec' = rec /\ owed' = owed
  BY DEF Call, history
<1>3. call'[c] = [phase |-> "sent", stmt |-> s]
  BY <1>2, <1>t DEF TypeOK
<1>4. Carries(c)' /\ Answered(c)'
  <2>1. WellFormed(call'[c].stmt)
    BY <1>3
  <2> QED
    BY <1>2, <1>3, <2>1 DEF Carries, Answered, WellFormed
<1>5. ASSUME NEW d \in Client
      PROVE  rec'[d].mut = owed'[d] /\ Carries(d)' /\ Answered(d)'
  <2>1. CASE d = c
    BY <2>1, <1>2, <1>4 DEF CountInv
  <2>2. CASE d # c
    BY <2>2, <1>2, CountFrame
  <2> QED
    BY <2>1, <2>2
<1> QED
  BY <1>1, <1>5 DEF CountInv

\* Each DAO method sends such a statement.
LEMMA CountDAO ==
    ASSUME CountInv, NEW c \in Client,
           \/ Insert(c)
           \/ Update(c)
           \/ FullUpdate(c)
           \/ Delete(c)
           \/ \E k \in Key : Select(c, k)
    PROVE  CountInv' \/ UNCHANGED vars
<1>t. TypeOK
  BY DEF CountInv, TypeInv
<1>m. rec[c].mask \subseteq Written
  BY <1>t DEF TypeOK, Record
<1>1. CASE Insert(c)
  <2>1. /\ InsertQuery(c) \in Statement
        /\ InsertQuery(c).op = "Insert"
        /\ InsertQuery(c).set = InsertValue(Table) \cap Field
        /\ InsertQuery(c).add = rec[c].mut
    BY <1>t, SentType DEF InsertQuery, Query, Stored
  <2>2. WellFormed(InsertQuery(c))
    BY <1>1, <2>1 DEF Insert, WellFormed
  <2> QED
    BY <1>1, <2>1, <2>2, CountCall DEF Insert
<1>2. CASE Update(c)
  <2>1. /\ UpdateQuery(c) \in Statement
        /\ UpdateQuery(c).op = "Update"
        /\ UpdateQuery(c).set = rec[c].mask
        /\ UpdateQuery(c).add = rec[c].mut
    BY <1>t, SentType DEF UpdateQuery, Query, Stored
  <2>2. WellFormed(UpdateQuery(c))
    BY <2>1, <1>m DEF WellFormed
  <2>3. Query(c, "Refresh", {}) \in Statement /\ Query(c, "Refresh", {}).op = "Refresh"
    BY <1>t, SentType DEF Query
  <2>4. WellFormed(Query(c, "Refresh", {}))
    BY <2>3 DEF WellFormed
  <2>5. CASE Call(c, UpdateQuery(c))
    BY <2>5, <2>1, <2>2, CountCall
  <2>6. CASE Unchanged(rec[c]) /\ Call(c, Query(c, "Refresh", {}))
    BY <2>6, <2>3, <2>4, CountCall DEF Unchanged, Stored
  <2> QED
    BY <1>2, <2>5, <2>6 DEF Update
<1>3. CASE FullUpdate(c)
  <2>1. /\ FullUpdateQuery(c) \in Statement
        /\ FullUpdateQuery(c).op = "FullUpdate"
        /\ FullUpdateQuery(c).set = Written
        /\ FullUpdateQuery(c).add = rec[c].mut
    BY <1>t, SentType DEF FullUpdateQuery, Query, Stored
  <2>2. WellFormed(FullUpdateQuery(c))
    BY <2>1 DEF WellFormed
  <2> QED
    BY <1>3, <2>1, <2>2, CountCall DEF FullUpdate
<1>4. CASE Delete(c)
  <2>1. Query(c, "Delete", {}) \in Statement /\ Query(c, "Delete", {}).op = "Delete"
    BY <1>t, SentType DEF Query
  <2>2. WellFormed(Query(c, "Delete", {}))
    BY <2>1 DEF WellFormed
  <2> QED
    BY <1>4, <2>1, <2>2, CountCall DEF Delete, Stored
<1>5. ASSUME NEW k \in Key, Select(c, k) PROVE CountInv'
  <2> DEFINE s == [Query(c, "Select", {}) EXCEPT !.key = k]
  <2>1. s \in Statement /\ s.op = "Select"
    BY <1>t, SentType DEF Query
  <2>2. Call(c, s)
    BY <1>5 DEF Select
  <2> HIDE DEF s
  <2>3. WellFormed(s)
    BY <2>1 DEF WellFormed
  <2> QED
    BY <2>1, <2>2, <2>3, CountCall DEF Stored
<1> QED
  BY <1>1, <1>2, <1>3, <1>4, <1>5

\* The answer to a statement tells what its increments came to.
LEMMA CountExecute ==
    ASSUME CountsStored, CountInv, NEW c \in Client, Execute(c)
    PROVE  CountInv'
<1>t. TypeInv /\ TypeOK
  BY DEF CountInv, TypeInv
<1> DEFINE s == call[c].stmt
<1>1. PICK a \in Answers(s) :
           call' = [call EXCEPT ![c] =
                      [phase |-> "answered", stmt |-> s, reply |-> a]]
  BY DEF Execute
<1>2. s \in Statement
  BY <1>t, CallType DEF Execute
<1>3. /\ WellFormed(s)
      /\ s.op \in Stored => s.add = rec[c].mut
      /\ s.op = "Refresh" => rec[c].mut = NoChange
  BY DEF CountInv, Carries, Execute
<1>4. rec' = rec /\ owed' = owed
  BY DEF Execute, history
<1> HIDE DEF s
<1>5. Gains(s, a)
  BY <1>2, <1>3, <1>t, AnswerGains DEF TypeOK
<1>6. call'[c] = [phase |-> "answered", stmt |-> s, reply |-> a]
  BY <1>1, <1>t DEF TypeOK
<1>7. Carries(c)'
  BY <1>3, <1>4, <1>6 DEF Carries, WellFormed
<1>8. Answered(c)'
  BY <1>5, <1>6 DEF Answered, Gains
<1>9. ASSUME NEW d \in Client
      PROVE  rec'[d].mut = owed'[d] /\ Carries(d)' /\ Answered(d)'
  <2>1. CASE d = c
    BY <2>1, <1>4, <1>7, <1>8 DEF CountInv
  <2>2. CASE d # c
    BY <2>2, <1>1, <1>4, CountFrame
  <2> QED
    BY <2>1, <2>2
<1>10. TypeInv'
  BY <1>t, TypeExecute
<1> QED
  BY <1>9, <1>10 DEF CountInv

LEMMA CountExecuteLate ==
    ASSUME CountInv, NEW s \in late, ExecuteLate(s)
    PROVE  CountInv'
<1>1. rec' = rec /\ owed' = owed /\ call' = call
  BY DEF ExecuteLate, history
<1>2. TypeInv'
  BY TypeExecuteLate DEF CountInv
<1>3. ASSUME NEW d \in Client
      PROVE  rec'[d].mut = owed'[d] /\ Carries(d)' /\ Answered(d)'
  BY <1>1, CountFrame
<1> QED
  BY <1>2, <1>3 DEF CountInv

\* An acknowledged call resets what it sent; any other keeps it all.
LEMMA CountReturn ==
    ASSUME CountsStored, CountInv, NEW c \in Client, Return(c)
    PROVE  CountInv'
<1>t. TypeInv /\ TypeOK
  BY DEF CountInv, TypeInv
<1> DEFINE s == call[c].stmt
           a == call[c].reply
<1>1. s \in Statement /\ a \in Reply /\ rec[c] \in Record /\ owed[c] \in Change
  BY <1>t, CallType DEF Return, TypeOK
<1>2. /\ WellFormed(s)
      /\ s.op \in Stored => s.add = rec[c].mut
      /\ s.op = "Refresh" => rec[c].mut = NoChange
      /\ Gains(s, a)
      /\ rec[c].mut = owed[c]
  BY DEF CountInv, Carries, Answered, Return
<1>3. /\ rec' = [rec EXCEPT ![c] = Absorb(rec[c], s, a)]
      /\ owed' = IF ~(a.status = "row" /\ s.op # "Delete") THEN owed
                 ELSE IF s.op = "Select"
                 THEN [owed EXCEPT ![c] = NoChange]
                 ELSE [owed EXCEPT ![c] = Diff(owed[c], a.effect)]
      /\ call' = [call EXCEPT ![c] = Idle]
  BY DEF Return
<1> HIDE DEF s, a
<1>4. rec'[c] = Absorb(rec[c], s, a)
  BY <1>3, <1>t DEF TypeOK
<1>d. \A x \in Change : Diff(x, x) = NoChange /\ Diff(x, NoChange) = x
  BY DEF Diff, Change, NoChange
<1>s. \A cols : Reset(Scan(rec[c], cols, a)).mut = NoChange
  BY <1>1 DEF Reset, Scan, Record
<1>5. rec'[c].mut = owed'[c]
  <2>1. CASE s.op \in Stored /\ a.status = "row"
    <3>1. Absorb(rec[c], s, a).mut = NoChange
      BY <2>1, <1>s, AbsorbCases DEF Stored
    <3>2. owed'[c] = Diff(owed[c], owed[c])
      BY <2>1, <1>2, <1>3, <1>t DEF Gains, Stored, TypeOK
    <3> QED
      BY <3>1, <3>2, <1>1, <1>4, <1>d
  <2>2. CASE s.op = "Insert" /\ a.status = "norow"
    <3>1. owed'[c] = owed[c]
      BY <2>2, <1>3
    <3>2. InsertResult(Table) = {} => rec[c].mut = NoChange
      BY <2>2, <1>2 DEF Gains, CountsStored, WellFormed, Stored
    <3>3. Absorb(rec[c], s, a) \in {rec[c], Reset(rec[c])}
      BY <2>2, AbsorbCases
    <3>4. InsertResult(Table) # {} => Absorb(rec[c], s, a) = rec[c]
      BY <2>2, AbsorbCases
    <3>5. Reset(rec[c]).mut = NoChange
      BY <1>1 DEF Reset, Record
    <3> QED
      BY <3>1, <3>2, <3>3, <3>4, <3>5, <1>2, <1>4
  <2>3. CASE s.op = "Refresh" /\ a.status = "row"
    <3>1. Absorb(rec[c], s, a).mut = NoChange
      BY <2>3, <1>s, AbsorbCases
    <3>2. owed'[c] = Diff(owed[c], NoChange)
      BY <2>3, <1>2, <1>3, <1>t DEF Gains, TypeOK
    <3> QED
      BY <2>3, <3>1, <3>2, <1>1, <1>2, <1>4, <1>d
  <2>4. CASE s.op = "Select" /\ a.status = "row"
    <3>1. Absorb(rec[c], s, a).mut = NoChange
      BY <2>4, AbsorbCases DEF Fresh
    <3>2. owed'[c] = NoChange
      BY <2>4, <1>3, <1>t DEF TypeOK
    <3> QED
      BY <3>1, <3>2, <1>4
  <2>5. CASE s.op = "Delete" \/ (a.status # "row" /\ s.op # "Insert")
                             \/ a.status = "error"
    <3>1. Absorb(rec[c], s, a) = rec[c]
      BY <2>5, AbsorbCases
    <3>2. owed' = owed
      BY <2>5, <1>3
    <3> QED
      BY <3>1, <3>2, <1>2, <1>4
  <2>6. s.op \in Op /\ a.status \in {"row", "norow", "error"}
    BY <1>1 DEF Statement, Reply
  <2> QED
    BY <2>1, <2>2, <2>3, <2>4, <2>5, <2>6 DEF Op, Stored
<1>6. call'[c].phase = "idle"
  BY <1>3, <1>t DEF TypeOK, Idle
<1>7. Carries(c)' /\ Answered(c)'
  BY <1>6 DEF Carries, Answered
<1>8. ASSUME NEW d \in Client
      PROVE  rec'[d].mut = owed'[d] /\ Carries(d)' /\ Answered(d)'
  <2>1. CASE d = c
    BY <2>1, <1>5, <1>7
  <2>2. CASE d # c
    BY <2>2, <1>3, <1>t, CountFrame DEF TypeOK
  <2> QED
    BY <2>1, <2>2
<1>9. TypeInv'
  BY <1>t, TypeReturn
<1> QED
  BY <1>8, <1>9 DEF CountInv

\* A call that fails gives nothing up.
LEMMA CountFail ==
    ASSUME CountInv, NEW c \in Client, Fail(c)
    PROVE  CountInv'
<1>t. TypeInv /\ TypeOK
  BY DEF CountInv, TypeInv
<1>1. /\ owed' = owed /\ rec'[c].mut = rec[c].mut
      /\ call' = [call EXCEPT ![c] = Idle]
      /\ \A d \in Client : d # c => rec'[d] = rec[d]
  BY <1>t, FailRecord DEF Fail
<1>2. TypeInv'
  BY <1>t, TypeFail
<1>3. call'[c].phase = "idle"
  BY <1>1, <1>t DEF TypeOK, Idle
<1>4. ASSUME NEW d \in Client
      PROVE  rec'[d].mut = owed'[d] /\ Carries(d)' /\ Answered(d)'
  <2>1. CASE d = c
    BY <2>1, <1>1, <1>3 DEF CountInv, Carries, Answered
  <2>2. CASE d # c
    BY <2>2, <1>1, CountFrame
  <2> QED
    BY <2>1, <2>2
<1> QED
  BY <1>2, <1>4 DEF CountInv

LEMMA CountStutter == CountInv /\ UNCHANGED vars => CountInv'
<1> SUFFICES ASSUME CountInv, UNCHANGED vars PROVE CountInv'
  OBVIOUS
<1>1. rec' = rec /\ owed' = owed /\ call' = call
  BY DEF vars
<1>2. TypeInv'
  BY TypeStutter DEF CountInv
<1>3. ASSUME NEW d \in Client
      PROVE  rec'[d].mut = owed'[d] /\ Carries(d)' /\ Answered(d)'
  BY <1>1, CountFrame
<1> QED
  BY <1>2, <1>3 DEF CountInv

LEMMA CountNext ==
    ASSUME CountsStored
    PROVE  CountInv /\ [Next]_vars => CountInv'
<1> SUFFICES ASSUME CountInv, [Next]_vars PROVE CountInv'
  OBVIOUS
<1>1. ASSUME NEW c \in Client, Edit(c) PROVE CountInv'
  BY <1>1, CountEdit
<1>2. ASSUME NEW c \in Client,
             \/ Insert(c)
             \/ Update(c)
             \/ FullUpdate(c)
             \/ Delete(c)
             \/ \E k \in Key : Select(c, k)
      PROVE  CountInv'
  BY <1>2, CountDAO, CountStutter
<1>3. ASSUME NEW c \in Client, Execute(c) PROVE CountInv'
  BY <1>3, CountExecute
<1>4. ASSUME NEW c \in Client, Return(c) PROVE CountInv'
  BY <1>4, CountReturn
<1>5. ASSUME NEW c \in Client, Fail(c) PROVE CountInv'
  BY <1>5, CountFail
<1>6. ASSUME NEW s \in late, ExecuteLate(s) PROVE CountInv'
  BY <1>6, CountExecuteLate
<1> QED
  BY <1>1, <1>2, <1>3, <1>4, <1>5, <1>6, CountStutter DEF Next

\* Mutators are exactly-once for every number of clients, every declaration
\* within TableAssumption and every interleaving, as long as records are counted on only after their
\* first INSERT or the table stores the counters of an INSERT.
THEOREM CountersCorrect ==
    ASSUME CountsStored
    PROVE  Spec => []CounterExactlyOnce
<1>1. CountInv => CounterExactlyOnce
  BY DEF CountInv, CounterExactlyOnce
<1>2. CountInv /\ [Next]_vars => CountInv'
  BY CountNext
<1> QED
  BY CountInit, <1>1, <1>2, PTL DEF Spec

----------------------------------------------------------------------------
(* ActiveRecord implements Tally.  To the invariant for the counters it    *)
(* takes that a statement whose caller gave up still writes no counter but *)
(* by adding to it, and that an answer without a row has had no effect.    *)

Added(s, a) == s.op \in Stored /\ a.status = "row"

TallyInv ==
    /\ CountInv
    /\ \A s \in late : WellFormed(s)
    /\ \A c \in Client :
          call[c].phase = "answered" /\ ~Added(call[c].stmt, call[c].reply)
          => call[c].reply.effect = NoChange

----------------------------------------------------------------------------
(* What a statement does to the counters of the table. *)

\* What an answer says of the row under its key, counters apart from the rest.
Leaves(s, a) ==
    /\ a.key \in Key
    /\ Added(s, a) => /\ a.row \in Row
                      /\ db[a.key] # NoRow =>
                            \A m \in Counter : a.row[m] = db[a.key][m] + s.add[m]
    /\ ~Added(s, a) => /\ a.effect = NoChange
                       /\ \/ a.row = db[a.key]
                          \/ s.op = "Delete" /\ a.row = NoRow

LEMMA AnswerLeaves ==
    ASSUME db \in [Key -> Row \cup {NoRow}], NEW s \in Statement, WellFormed(s),
           NEW a \in Answers(s)
    PROVE  Leaves(s, a)
<1>k. s.key \in Key /\ s.add \in Change
  BY DEF Statement
<1>1. CASE s.op = "Insert"
  <2>1. PICK k \in InsertKeys(s) :
             \/ /\ a = Answer("row", k, Inserted(s), Diff(Inserted(s), Uncounted(s)))
                /\ db[k] = NoRow
             \/ \E row \in Triggered(Merged(db[k], s)) :
                  /\ db[k] # NoRow
                  /\ a = Answer("row", k, row, Diff(row, db[k]))
             \/ a = Answer("norow", k, db[k], NoChange)
             \/ a = Answer("error", k, db[k], NoChange)
    BY <1>1 DEF Answers, InsertAnswers
  <2>k. k \in Key
    BY <1>k DEF InsertKeys
  <2>2. CASE a = Answer("row", k, Inserted(s), Diff(Inserted(s), Uncounted(s)))
             /\ db[k] = NoRow
    <3>1. Inserted(s) \in Row
      BY InsertedType
    <3> QED
      BY <2>2, <3>1, <2>k, <1>1 DEF Leaves, Added, Answer, Stored
  <2>3. ASSUME NEW row \in Triggered(Merged(db[k], s)), db[k] # NoRow,
               a = Answer("row", k, row, Diff(row, db[k]))
        PROVE  Leaves(s, a)
    <3>1. Merged(db[k], s) \in Row
      BY <2>3, <2>k, MergedType
    <3>2. row \in Row
      BY <3>1, TriggeredType
    <3>3. \A m \in Counter : row[m] = db[k][m] + s.add[m]
      BY <3>1, TriggeredCounter, Groups DEF Merged
    <3> QED
      BY <2>3, <2>k, <3>2, <3>3, <1>1 DEF Leaves, Added, Answer, Stored
  <2>4. CASE \/ a = Answer("norow", k, db[k], NoChange)
             \/ a = Answer("error", k, db[k], NoChange)
    BY <2>4, <2>k DEF Leaves, Added, Answer
  <2> QED
    BY <2>1, <2>2, <2>3, <2>4
<1>2. CASE s.op # "Insert" /\ db[s.key] = NoRow
  <2>1. a = Answer("norow", s.key, NoRow, NoChange)
    BY <1>2 DEF Answers
  <2> QED
    BY <2>1, <1>2, <1>k DEF Leaves, Added, Answer
<1>3. CASE s.op \in {"Update", "FullUpdate"} /\ db[s.key] # NoRow
  <2>1. PICK row \in Triggered(Updated(db[s.key], s)) :
             a = Answer("row", s.key, row, Diff(row, db[s.key]))
    BY <1>3 DEF Answers, UpdateAnswers
  <2>2. Updated(db[s.key], s) \in Row
    BY <1>3, <1>k, MergedType
  <2>3. row \in Row
    BY <2>2, TriggeredType
  <2>4. \A m \in Counter : row[m] = db[s.key][m] + s.add[m]
    BY <2>2, <1>3, TriggeredCounter, Groups DEF Updated, WellFormed
  <2> QED
    BY <2>1, <2>3, <2>4, <1>3, <1>k DEF Leaves, Added, Answer, Stored
<1>4. CASE s.op \in {"Select", "Refresh", "Delete"} /\ db[s.key] # NoRow
  <2>1. /\ a.effect = NoChange /\ a.key = s.key
        /\ \/ a.row = db[s.key]
           \/ s.op = "Delete" /\ a.row = NoRow
    BY <1>4 DEF Answers, Answer
  <2> QED
    BY <2>1, <1>4, <1>k DEF Leaves, Added, Stored
<1> QED
  BY <1>1, <1>2, <1>3, <1>4 DEF Op, Statement

LEMMA CountsChange ==
    ASSUME TypeOK, NEW s \in Statement, WellFormed(s), NEW a \in Answers(s),
           Effect(s, a)
    PROVE  /\ Added(s, a) => T!Added(s.add)
           /\ ~Added(s, a) =>
                 \/ Count' = Count
                 \/ /\ s.op = "Delete"
                    /\ \E k \in Key : Count' = [Count EXCEPT ![k] = NoRow]
<1>t. db \in [Key -> Row \cup {NoRow}] /\ s.add \in Change
  BY DEF TypeOK, Statement
<1>1. Leaves(s, a)
  BY <1>t, AnswerLeaves
<1>k. a.key \in Key
  BY <1>1 DEF Leaves
<1>2. db' = [db EXCEPT ![a.key] = a.row]
  BY DEF Effect
<1>3. Count' = [Count EXCEPT ![a.key] = Counts(a.row)]
  BY <1>t, <1>2 DEF Count
<1>4. Count[a.key] = Counts(db[a.key])
  BY <1>k DEF Count
<1>5. ASSUME Added(s, a) PROVE T!Added(s.add)
  <2>1. a.row \in Row /\ a.row # NoRow
    BY <1>1, <1>5, ValueAssumption DEF Leaves
  <2>2. Counts(a.row) = [m \in Counter |-> a.row[m]]
    BY <2>1 DEF Counts
  <2>3. Counts(a.row) \in T!Change
    BY <2>1, <2>2, Groups DEF T!Change, Row
  <2>4. Count'[a.key] = Counts(a.row)
    BY <1>3, <1>k DEF Count
  <2>5. CASE Count[a.key] = NoRow
    BY <1>3, <1>k, <2>3, <2>4, <2>5 DEF T!Added
  <2>6. CASE Count[a.key] # NoRow
    <3>1. db[a.key] # NoRow
      BY <2>6, <1>4 DEF Counts
    <3>2. Count[a.key] = [m \in Counter |-> db[a.key][m]]
      BY <3>1, <1>4 DEF Counts
    <3>3. \A m \in Counter : a.row[m] = db[a.key][m] + s.add[m]
      BY <3>1, <1>1, <1>5 DEF Leaves
    <3>4. Counts(a.row) = T!Sum(Count[a.key], s.add)
      BY <2>2, <3>2, <3>3 DEF T!Sum
    <3> QED
      BY <1>3, <1>k, <2>6, <3>4 DEF T!Added
  <2> QED
    BY <2>5, <2>6
<1>6. ASSUME ~Added(s, a)
      PROVE  \/ Count' = Count
             \/ /\ s.op = "Delete"
                /\ \E k \in Key : Count' = [Count EXCEPT ![k] = NoRow]
  <2>1. CASE a.row = db[a.key]
    BY <2>1, <1>3, <1>4 DEF Count
  <2>2. CASE s.op = "Delete" /\ a.row = NoRow
    BY <2>2, <1>3, <1>k DEF Counts
  <2> QED
    BY <2>1, <2>2, <1>1, <1>6 DEF Leaves
<1> QED
  BY <1>5, <1>6

----------------------------------------------------------------------------
(* The ledger of a client in each phase of a call. *)

LEMMA DiffNothing ==
    ASSUME NEW x \in Change
    PROVE  /\ Diff(x, x) = NoChange
           /\ Diff(x, NoChange) = x
           /\ T!Sum(x, NoChange) = x
           /\ T!Sum(NoChange, x) = x
           /\ T!Minus(x, NoChange) = x
           /\ T!NoChange = NoChange
BY DEF Diff, Change, NoChange, T!Sum, T!Minus, T!NoChange

Ledgers ==
    \A c \in Client :
        /\ Taken[c] \in Change /\ Pending[c] \in Change
        /\ rec[c].mut \in Change /\ owed[c] = rec[c].mut
        /\ call[c].phase # "answered" =>
              Taken[c] = NoChange /\ Pending[c] = rec[c].mut
        /\ call[c].phase = "answered" =>
              /\ Taken[c] = call[c].reply.effect
              /\ IF Added(call[c].stmt, call[c].reply)
                 THEN Taken[c] = rec[c].mut /\ Pending[c] = NoChange
                 ELSE Taken[c] = NoChange /\ Pending[c] = rec[c].mut

LEMMA Ledger == TallyInv => Ledgers
<1> SUFFICES ASSUME TallyInv, NEW c \in Client
             PROVE  /\ Taken[c] \in Change /\ Pending[c] \in Change
                    /\ rec[c].mut \in Change /\ owed[c] = rec[c].mut
                    /\ call[c].phase # "answered" =>
                          Taken[c] = NoChange /\ Pending[c] = rec[c].mut
                    /\ call[c].phase = "answered" =>
                          /\ Taken[c] = call[c].reply.effect
                          /\ IF Added(call[c].stmt, call[c].reply)
                             THEN Taken[c] = rec[c].mut /\ Pending[c] = NoChange
                             ELSE Taken[c] = NoChange /\ Pending[c] = rec[c].mut
  BY DEF Ledgers
<1>1. rec[c].mut \in Change /\ owed[c] = rec[c].mut
  BY DEF TallyInv, CountInv, TypeInv, TypeOK, Record
<1>2. Taken[c] = IF call[c].phase = "answered" THEN call[c].reply.effect
                 ELSE NoChange
  BY DEF Taken
<1>3. Pending[c] = Diff(rec[c].mut, Taken[c])
  BY DEF Pending
<1>4. CASE call[c].phase # "answered"
  BY <1>1, <1>2, <1>3, <1>4, DiffNothing, BlankTypes
<1>5. CASE call[c].phase = "answered" /\ Added(call[c].stmt, call[c].reply)
  <2>1. Taken[c] = rec[c].mut
    BY <1>2, <1>5 DEF TallyInv, CountInv, Carries, Answered, Gains, Added
  <2> QED
    BY <1>1, <1>2, <1>3, <1>5, <2>1, DiffNothing, BlankTypes
<1>6. CASE call[c].phase = "answered" /\ ~Added(call[c].stmt, call[c].reply)
  <2>1. Taken[c] = NoChange
    BY <1>2, <1>6 DEF TallyInv
  <2> QED
    BY <1>1, <1>2, <1>3, <1>6, <2>1, DiffNothing, BlankTypes
<1> QED
  BY <1>4, <1>5, <1>6

LEMMA LedgerNext == TallyInv' => Ledgers'
BY Ledger, PTL

\* Only the ledger of c changes where only its record and its call do.
LEMMA LedgerFrame ==
    ASSUME NEW c \in Client,
           \A d \in Client \ {c} : rec'[d] = rec[d] /\ call'[d] = call[d]
    PROVE  /\ Taken' = [Taken EXCEPT ![c] = Taken'[c]]
           /\ Pending' = [Pending EXCEPT ![c] = Pending'[c]]
<1>1. \A d \in Client \ {c} : Taken'[d] = Taken[d] /\ Pending'[d] = Pending[d]
  BY DEF Taken, Pending
<1>2. \A d \in Client :
          /\ Taken'[d] = [Taken EXCEPT ![c] = Taken'[c]][d]
          /\ Pending'[d] = [Pending EXCEPT ![c] = Pending'[c]][d]
  BY <1>1 DEF Taken, Pending
<1> QED
  BY <1>2 DEF Taken, Pending

----------------------------------------------------------------------------
(* The invariant. *)

Quiet(c) ==
    call[c].phase = "answered" /\ ~Added(call[c].stmt, call[c].reply)
    => call[c].reply.effect = NoChange

LEMMA TallyInit == Init => TallyInv
<1> SUFFICES ASSUME Init PROVE TallyInv
  OBVIOUS
<1>1. CountInv
  BY CountInit
<1>2. late = {} /\ \A c \in Client : call[c].phase = "idle"
  BY DEF Init, Idle
<1> QED
  BY <1>1, <1>2 DEF TallyInv

\* A statement given up was the statement of a call.
LEMMA LateWellFormed ==
    ASSUME TallyInv, [Next]_vars
    PROVE  \A s \in late' : WellFormed(s)
<1>1. ASSUME NEW c \in Client, Fail(c) PROVE \A s \in late' : WellFormed(s)
  <2>1. late' = late \/ (call[c].phase = "sent" /\ late' = late \cup {call[c].stmt})
    BY <1>1 DEF Fail
  <2>2. call[c].phase = "sent" => WellFormed(call[c].stmt)
    BY DEF TallyInv, CountInv, Carries
  <2> QED
    BY <2>1, <2>2 DEF TallyInv
<1>2. CASE late' \subseteq late
  BY <1>2 DEF TallyInv
<1>3. ASSUME NEW c \in Client,
             \/ Edit(c) \/ Insert(c) \/ Update(c) \/ FullUpdate(c) \/ Delete(c)
             \/ \E k \in Key : Select(c, k)
             \/ Execute(c) \/ Return(c)
      PROVE  late' \subseteq late
  BY <1>3 DEF Edit, New, Set, SetKey, Add, Insert, Update, FullUpdate, Delete,
              Select, Call, Execute, Return, storage, vars
<1>4. ASSUME NEW s \in late, ExecuteLate(s) PROVE late' \subseteq late
  BY <1>4 DEF ExecuteLate
<1>5. CASE UNCHANGED vars
  BY <1>5, <1>2 DEF vars
<1> QED
  BY <1>1, <1>2, <1>3, <1>4, <1>5 DEF Next

LEMMA QuietNext ==
    ASSUME TallyInv, [Next]_vars, NEW d \in Client
    PROVE  Quiet(d)'
<1>t. TypeOK
  BY DEF TallyInv, CountInv, TypeInv
<1>1. ASSUME NEW c \in Client, Execute(c) PROVE Quiet(d)'
  <2>1. PICK a \in Answers(call[c].stmt) :
             call' = [call EXCEPT ![c] =
                        [phase |-> "answered", stmt |-> call[c].stmt, reply |-> a]]
    BY <1>1 DEF Execute
  <2>2. call[c].stmt \in Statement /\ WellFormed(call[c].stmt)
    BY <1>1, <1>t, CallType DEF Execute, TallyInv, CountInv, Carries
  <2>3. Leaves(call[c].stmt, a)
    BY <1>t, <2>2, AnswerLeaves DEF TypeOK
  <2>4. call'[d] = IF d = c THEN [phase |-> "answered", stmt |-> call[c].stmt,
                                  reply |-> a]
                   ELSE call[d]
    BY <2>1, <1>t DEF TypeOK
  <2> QED
    BY <2>3, <2>4 DEF Leaves, Quiet, TallyInv, Added
<1>2. ASSUME call'[d] = call[d] \/ call'[d].phase # "answered" PROVE Quiet(d)'
  BY <1>2 DEF TallyInv, Quiet, Added
<1>3. ASSUME NEW c \in Client, Edit(c) PROVE call'[d] = call[d]
  BY <1>3 DEF Edit, New, Set, SetKey, Add
<1>4. ASSUME NEW c \in Client,
             \/ Insert(c) \/ Update(c) \/ FullUpdate(c) \/ Delete(c)
             \/ \E k \in Key : Select(c, k)
      PROVE  call'[d] = call[d] \/ call'[d].phase # "answered"
  <2>1. CASE \E s \in Statement : Call(c, s)
    BY <2>1, <1>t DEF Call, TypeOK
  <2> QED
    BY <1>4, <1>t, <2>1, DAOStep DEF vars
<1>5. ASSUME NEW c \in Client, Return(c) \/ Fail(c)
      PROVE  call'[d] = call[d] \/ call'[d].phase # "answered"
  BY <1>5, <1>t DEF Return, Fail, Idle, TypeOK
<1>6. ASSUME NEW s \in late, ExecuteLate(s) PROVE call'[d] = call[d]
  BY <1>6 DEF ExecuteLate
<1>7. CASE UNCHANGED vars
  BY <1>7, <1>2 DEF vars
<1> QED
  BY <1>1, <1>2, <1>3, <1>4, <1>5, <1>6, <1>7 DEF Next

LEMMA TallyNext ==
    ASSUME CountsStored
    PROVE  TallyInv /\ [Next]_vars => TallyInv'
<1> SUFFICES ASSUME TallyInv, [Next]_vars PROVE TallyInv'
  OBVIOUS
<1>1. CountInv'
  BY CountNext DEF TallyInv
<1>2. \A s \in late' : WellFormed(s)
  BY LateWellFormed
<1>3. \A d \in Client : Quiet(d)'
  BY QuietNext
<1>4. \A s \in late' : WellFormed(s)'
  BY <1>2 DEF WellFormed
<1> QED
  BY <1>1, <1>3, <1>4 DEF TallyInv, Quiet

----------------------------------------------------------------------------
(* The refinement, action by action. *)

Abstract == <<Count, owed, Pending, Taken, Adrift>>

LEMMA MapInit == Init => T!Init
<1> SUFFICES ASSUME Init PROVE T!Init
  OBVIOUS
<1>1. TallyInv /\ Ledgers
  BY TallyInit, Ledger
<1>2. Count \in [Key -> T!Change \cup {NoRow}]
  <2>1. db \in [Key -> Row \cup {NoRow}]
    BY <1>1 DEF TallyInv, CountInv, TypeInv, TypeOK
  <2>2. ASSUME NEW row \in Row \cup {NoRow}
        PROVE  Counts(row) \in T!Change \cup {NoRow}
    BY Groups DEF Counts, Row, T!Change
  <2> QED
    BY <2>1, <2>2 DEF Count
<1>3. \A c \in Client : call[c].phase = "idle" /\ owed[c] = NoChange
  BY DEF Init, Idle
<1>4. \A c \in Client : Taken[c] = NoChange /\ Pending[c] = NoChange
  BY <1>1, <1>3 DEF Ledgers
<1>5. /\ owed = [c \in Client |-> NoChange]
      /\ Taken = [c \in Client |-> NoChange]
      /\ Pending = [c \in Client |-> NoChange]
  BY <1>4 DEF Init, Taken, Pending
<1>6. Adrift = {}
  BY DEF Init, Adrift
<1> QED
  BY <1>2, <1>5, <1>6 DEF T!Init, T!NoChange, NoChange

\* A record made anew forgets what was counted; Inc, Dec and Add ask for more.
LEMMA MapEdit ==
    ASSUME TallyInv, TallyInv', NEW c \in Client, Edit(c)
    PROVE  T!Next \/ UNCHANGED Abstract
<1>t. TypeOK
  BY DEF TallyInv, CountInv, TypeInv
<1>l. Ledgers /\ Ledgers'
  BY Ledger, LedgerNext
<1>1. call' = call /\ call[c].phase = "idle"
  BY DEF Edit, New, Set, SetKey, Add, CanEdit, Free
<1>2. Count' = Count /\ Adrift' = Adrift
  BY DEF Edit, New, Set, SetKey, Add, storage, Count, Adrift
<1>3. \A d \in Client \ {c} : rec'[d] = rec[d] /\ owed'[d] = owed[d]
  BY <1>t DEF Edit, New, Set, SetKey, Add, history, TypeOK
<1>4. Taken[c] = NoChange /\ Taken'[c] = NoChange /\ Taken' = Taken
  BY <1>1, <1>l DEF Ledgers, Taken
<1>5. /\ Pending' = [Pending EXCEPT ![c] = Pending'[c]]
      /\ Pending'[c] = owed'[c] /\ Pending[c] = owed[c] /\ owed'[c] \in Change
  BY <1>1, <1>3, <1>l, LedgerFrame DEF Ledgers
<1>6. owed' = [owed EXCEPT ![c] = owed'[c]]
  BY <1>3, <1>t DEF Edit, New, Set, SetKey, Add, history, TypeOK
<1>7. T!Sum(Pending[c], T!Minus(owed'[c], owed[c])) = owed'[c]
  BY <1>5, <1>l DEF T!Sum, T!Minus, Ledgers, Change
<1>8. T!Ask(c)
  BY <1>2, <1>4, <1>5, <1>6, <1>7
     DEF T!Ask, T!NoChange, NoChange, T!Change, Change, Ledgers
<1> QED
  BY <1>8 DEF T!Next

\* Sending a statement, or having nothing to send, is not seen.
LEMMA MapCall ==
    ASSUME TallyInv, TallyInv', NEW c \in Client, NEW s, Call(c, s)
    PROVE  UNCHANGED Abstract
<1>t. TypeOK
  BY DEF TallyInv, CountInv, TypeInv
<1>l. Ledgers /\ Ledgers'
  BY Ledger, LedgerNext
<1>1. /\ call' = [call EXCEPT ![c] = [phase |-> "sent", stmt |-> s]]
      /\ db' = db /\ late' = late /\ rec' = rec /\ owed' = owed
      /\ call[c].phase = "idle"
  BY DEF Call, Free, storage, history
<1>2. call'[c].phase = "sent" /\ \A d \in Client \ {c} : call'[d] = call[d]
  BY <1>1, <1>t DEF TypeOK
<1>3. Taken'[c] = Taken[c] /\ Pending'[c] = Pending[c]
  BY <1>1, <1>2, <1>l DEF Ledgers
<1>4. Taken' = Taken /\ Pending' = Pending
  BY <1>1, <1>2, <1>3, LedgerFrame DEF Taken, Pending
<1> QED
  BY <1>1, <1>4 DEF Abstract, Count, Adrift

\* Executing a statement takes what its client has pending, all of it, or
\* leaves the counters of the table alone, or removes a row.
LEMMA MapExecute ==
    ASSUME TallyInv, TallyInv', NEW c \in Client, Execute(c)
    PROVE  T!Next \/ UNCHANGED Abstract
<1> DEFINE s == call[c].stmt
<1>t. TypeOK
  BY DEF TallyInv, CountInv, TypeInv
<1>l. Ledgers /\ Ledgers'
  BY Ledger, LedgerNext
<1>1. PICK a \in Answers(s) :
           /\ Effect(s, a)
           /\ call' = [call EXCEPT ![c] =
                         [phase |-> "answered", stmt |-> s, reply |-> a]]
  BY DEF Execute
<1>2. /\ s \in Statement /\ WellFormed(s) /\ call[c].phase = "sent"
      /\ s.op \in Stored => s.add = rec[c].mut
  BY <1>t, CallType DEF Execute, TallyInv, CountInv, Carries
<1>3. rec' = rec /\ owed' = owed /\ late' = late
  BY DEF Execute, history
<1> HIDE DEF s
<1>4. call'[c] = [phase |-> "answered", stmt |-> s, reply |-> a]
  BY <1>1, <1>t DEF TypeOK
<1>5. \A d \in Client \ {c} : rec'[d] = rec[d] /\ call'[d] = call[d]
  BY <1>1, <1>3, <1>t DEF TypeOK
<1>6. Adrift' = Adrift
  BY <1>3 DEF Adrift
<1>7. /\ Taken' = [Taken EXCEPT ![c] = Taken'[c]]
      /\ Pending' = [Pending EXCEPT ![c] = Pending'[c]]
  BY <1>5, LedgerFrame
<1>8. /\ Taken[c] = NoChange /\ Pending[c] = rec[c].mut
      /\ IF Added(s, a) THEN Taken'[c] = rec[c].mut /\ Pending'[c] = NoChange
         ELSE Taken'[c] = NoChange /\ Pending'[c] = rec[c].mut
  BY <1>2, <1>3, <1>4, <1>l DEF Ledgers, Added
<1>9. CASE Added(s, a)
  <2>1. T!Added(s.add)
    BY <1>9, <1>1, <1>2, <1>t, CountsChange
  <2>2. s.add = Pending[c]
    BY <1>9, <1>2, <1>8 DEF Added
  <2>3. T!Added(Pending[c])
    BY <2>1, <2>2
  <2>4. T!Take(c)
    BY <2>3, <1>3, <1>6, <1>7, <1>8, <1>9 DEF T!Take, T!NoChange, NoChange
  <2> QED
    BY <2>4 DEF T!Next
<1>10. CASE ~Added(s, a)
  <2>1. Taken' = Taken /\ Pending' = Pending
    <3>1. /\ Taken' = [Taken EXCEPT ![c] = Taken[c]]
          /\ Pending' = [Pending EXCEPT ![c] = Pending[c]]
      BY <1>7, <1>8, <1>10
    <3>2. /\ Taken = [Taken EXCEPT ![c] = Taken[c]]
          /\ Pending = [Pending EXCEPT ![c] = Pending[c]]
      BY DEF Taken, Pending
    <3> QED
      BY <3>1, <3>2
  <2>2. \/ Count' = Count
        \/ \E k \in Key : Count' = [Count EXCEPT ![k] = NoRow]
    BY <1>10, <1>1, <1>2, <1>t, CountsChange
  <2>3. CASE Count' = Count
    BY <2>1, <2>3, <1>3, <1>6 DEF Abstract
  <2>4. CASE \E k \in Key : Count' = [Count EXCEPT ![k] = NoRow]
    BY <2>1, <2>4, <1>3, <1>6 DEF T!Next, T!Remove, T!ledger
  <2> QED
    BY <2>2, <2>3, <2>4
<1> QED
  BY <1>9, <1>10

\* A statement without a caller is executed once.
LEMMA MapExecuteLate ==
    ASSUME TallyInv, NEW s \in late, ExecuteLate(s)
    PROVE  T!Next \/ UNCHANGED Abstract
<1>t. TypeOK
  BY DEF TallyInv, CountInv, TypeInv
<1>1. PICK a \in Answers(s) : Effect(s, a)
  BY DEF ExecuteLate
<1>2. s \in Statement /\ WellFormed(s)
  BY <1>t DEF TallyInv, TypeOK
<1>3. /\ rec' = rec /\ owed' = owed /\ call' = call
      /\ late' = late \ {s}
  BY DEF ExecuteLate, history
<1>4. Taken' = Taken /\ Pending' = Pending
  BY <1>3 DEF Taken, Pending
<1>5. /\ Added(s, a) => T!Added(s.add)
      /\ ~Added(s, a) => \/ Count' = Count
                        \/ /\ s.op = "Delete"
                           /\ \E k \in Key : Count' = [Count EXCEPT ![k] = NoRow]
  BY <1>1, <1>2, <1>t, CountsChange
<1>6. CASE s.op \in Stored
  <2>1. s \in Adrift /\ Adrift' = Adrift \ {s}
    BY <1>3, <1>6 DEF Adrift
  <2>2. T!Added(s.add) \/ Count' = Count
    BY <1>5, <1>6 DEF Stored
  <2> QED
    BY <2>1, <2>2, <1>3, <1>4 DEF T!Next, T!Late, T!ledger
<1>7. CASE s.op \notin Stored
  <2>1. Adrift' = Adrift
    BY <1>3, <1>7 DEF Adrift
  <2>2. \/ Count' = Count
        \/ \E k \in Key : Count' = [Count EXCEPT ![k] = NoRow]
    BY <1>5, <1>7 DEF Added
  <2> QED
    BY <2>1, <2>2, <1>3, <1>4 DEF T!Next, T!Remove, T!ledger, Abstract
<1> QED
  BY <1>6, <1>7

\* The call returns: what it has added is acknowledged, or a SELECT brings
\* another record.
LEMMA MapReturn ==
    ASSUME TallyInv, TallyInv', NEW c \in Client, Return(c)
    PROVE  T!Next
<1> DEFINE s == call[c].stmt
           a == call[c].reply
<1>t. TypeOK
  BY DEF TallyInv, CountInv, TypeInv
<1>l. Ledgers /\ Ledgers'
  BY Ledger, LedgerNext
<1>1. /\ rec' = [rec EXCEPT ![c] = Absorb(rec[c], s, a)]
      /\ owed' = IF ~(a.status = "row" /\ s.op # "Delete") THEN owed
                 ELSE IF s.op = "Select"
                 THEN [owed EXCEPT ![c] = NoChange]
                 ELSE [owed EXCEPT ![c] = Diff(owed[c], a.effect)]
      /\ call' = [call EXCEPT ![c] = Idle]
      /\ call[c].phase = "answered"
      /\ db' = db /\ late' = late
  BY DEF Return, storage
<1>2. Count' = Count /\ Adrift' = Adrift
  BY <1>1 DEF Count, Adrift
<1>3. call'[c].phase = "idle"
  BY <1>1, <1>t DEF TypeOK, Idle
<1>4. \A d \in Client \ {c} : rec'[d] = rec[d] /\ call'[d] = call[d]
  BY <1>1, <1>t DEF TypeOK
<1>5. /\ Taken' = [Taken EXCEPT ![c] = NoChange]
      /\ Pending' = [Pending EXCEPT ![c] = owed'[c]]
  BY <1>3, <1>4, <1>l, LedgerFrame DEF Ledgers
<1>6. /\ Taken[c] = a.effect /\ owed[c] \in Change /\ Taken[c] \in Change
      /\ IF Added(s, a) THEN Taken[c] = owed[c] /\ Pending[c] = NoChange
         ELSE Taken[c] = NoChange /\ Pending[c] = owed[c]
  BY <1>1, <1>l DEF Ledgers
<1> HIDE DEF s, a
<1>o. owed \in [Client -> Change] /\ NoChange \in Change
  BY <1>t, BlankTypes DEF TypeOK
<1>m. T!Minus(owed[c], Taken[c]) = Diff(owed[c], a.effect)
  BY <1>6 DEF T!Minus, Diff
<1>7. CASE a.status = "row" /\ s.op = "Select"
  <2>1. owed' = [owed EXCEPT ![c] = NoChange] /\ Taken[c] = NoChange
    BY <1>1, <1>6, <1>7 DEF Added, Stored
  <2>2. Taken' = Taken
    BY <1>5, <2>1 DEF Taken
  <2>3. owed'[c] = NoChange
    BY <2>1, <1>o
  <2> QED
    BY <1>2, <1>5, <2>1, <2>2, <2>3 DEF T!Next, T!Forget, T!NoChange, NoChange
<1>8. CASE ~(a.status = "row" /\ s.op = "Select")
  <2>1. owed' = [owed EXCEPT ![c] = T!Minus(owed[c], Taken[c])]
    <3>1. CASE a.status = "row" /\ s.op # "Delete"
      BY <3>1, <1>1, <1>8, <1>m
    <3>2. CASE ~(a.status = "row" /\ s.op # "Delete")
      <4>1. Taken[c] = NoChange /\ owed' = owed
        BY <3>2, <1>1, <1>6 DEF Added, Stored
      <4> QED
        BY <4>1, <1>6, <1>o, DiffNothing
    <3> QED
      BY <3>1, <3>2
  <2>2. owed'[c] = T!Minus(owed[c], Taken[c])
    BY <2>1, <1>o
  <2>3. owed'[c] = Pending[c]
    <3>1. CASE Added(s, a)
      BY <3>1, <2>2, <1>6, <1>m, DiffNothing
    <3>2. CASE ~Added(s, a)
      BY <3>2, <2>2, <1>6, DiffNothing
    <3> QED
      BY <3>1, <3>2
  <2>4. Pending' = Pending
    <3>1. Pending' = [Pending EXCEPT ![c] = Pending[c]]
      BY <1>5, <2>3
    <3>2. [Pending EXCEPT ![c] = Pending[c]] = Pending
      BY DEF Pending
    <3> QED
      BY <3>1, <3>2
  <2> QED
    BY <1>2, <1>5, <2>1, <2>4 DEF T!Next, T!Confirm, T!NoChange, NoChange
<1> QED
  BY <1>7, <1>8

\* The call fails: what it has added will be added again, and what it would
\* have added may still be.
LEMMA MapFail ==
    ASSUME TallyInv, TallyInv', NEW c \in Client, Fail(c)
    PROVE  T!Next \/ UNCHANGED Abstract
<1>t. TypeOK
  BY DEF TallyInv, CountInv, TypeInv
<1>l. Ledgers /\ Ledgers'
  BY Ledger, LedgerNext
<1>1. /\ owed' = owed /\ db' = db
      /\ call' = [call EXCEPT ![c] = Idle]
      /\ late' = IF call[c].phase = "sent" /\ call[c].stmt.op \in Writing
                 THEN late \cup {call[c].stmt}
                 ELSE late
  BY DEF Fail
<1>r. /\ rec'[c].mut = rec[c].mut
      /\ \A d \in Client : d # c => rec'[d] = rec[d]
  BY FailRecord DEF TallyInv, CountInv
<1>2. Count' = Count
  BY <1>1 DEF Count
<1>3. call'[c].phase = "idle"
  BY <1>1, <1>t DEF TypeOK, Idle
<1>4. \A d \in Client \ {c} : rec'[d] = rec[d] /\ call'[d] = call[d]
  BY <1>1, <1>r, <1>t DEF TypeOK
<1>5. /\ Taken' = [Taken EXCEPT ![c] = NoChange]
      /\ Pending' = [Pending EXCEPT ![c] = rec[c].mut]
  BY <1>1, <1>r, <1>3, <1>4, <1>l, LedgerFrame DEF Ledgers
<1>6. CASE call[c].phase = "answered"
  <2>1. Adrift' = Adrift
    BY <1>1, <1>6 DEF Adrift
  <2>2. T!Sum(Pending[c], Taken[c]) = rec[c].mut
    BY <1>6, <1>l, DiffNothing DEF Ledgers
  <2> QED
    BY <1>1, <1>2, <1>5, <2>1, <2>2 DEF T!Next, T!Doubt, T!NoChange, NoChange
<1>7. CASE call[c].phase # "answered"
  <2>1. Taken' = Taken /\ Pending' = Pending
    <3>1. Taken[c] = NoChange /\ Pending[c] = rec[c].mut
      BY <1>7, <1>l DEF Ledgers
    <3>2. /\ Taken = [Taken EXCEPT ![c] = Taken[c]]
          /\ Pending = [Pending EXCEPT ![c] = Pending[c]]
      BY DEF Taken, Pending
    <3> QED
      BY <3>1, <3>2, <1>5
  <2>2. CASE call[c].phase = "sent" /\ call[c].stmt.op \in Stored
    <3>1. Adrift' = Adrift \cup {call[c].stmt}
      BY <1>1, <2>2 DEF Adrift, Writing
    <3>2. call[c].stmt.add = Pending[c]
      BY <1>7, <2>2, <1>l DEF TallyInv, CountInv, Carries, Ledgers
    <3>3. T!Abandon(c)
      BY <3>1, <3>2, <2>1, <1>1, <1>2 DEF T!Abandon, T!ledger
    <3> QED
      BY <3>3 DEF T!Next
  <2>3. CASE ~(call[c].phase = "sent" /\ call[c].stmt.op \in Stored)
    <3>1. Adrift' = Adrift
      BY <1>1, <2>3 DEF Adrift
    <3> QED
      BY <3>1, <2>1, <1>1, <1>2 DEF Abstract
  <2> QED
    BY <2>2, <2>3
<1> QED
  BY <1>6, <1>7

LEMMA MapNext ==
    ASSUME TallyInv, TallyInv', [Next]_vars
    PROVE  [T!Next]_T!vars
<1>t. TypeOK
  BY DEF TallyInv, CountInv, TypeInv
<1>v. UNCHANGED vars => UNCHANGED Abstract
  BY DEF vars, Abstract, Count, Taken, Pending, Adrift
<1>1. ASSUME NEW c \in Client, Edit(c) PROVE T!Next \/ UNCHANGED Abstract
  BY <1>1, MapEdit
<1>2. ASSUME NEW c \in Client,
             \/ Insert(c)
             \/ Update(c)
             \/ FullUpdate(c)
             \/ Delete(c)
             \/ \E k \in Key : Select(c, k)
      PROVE  T!Next \/ UNCHANGED Abstract
  <2>1. CASE \E s \in Statement : Call(c, s)
    BY <2>1, MapCall
  <2> QED
    BY <1>2, <2>1, <1>t, <1>v, DAOStep
<1>3. ASSUME NEW c \in Client, Execute(c) PROVE T!Next \/ UNCHANGED Abstract
  BY <1>3, MapExecute
<1>4. ASSUME NEW c \in Client, Return(c) PROVE T!Next
  BY <1>4, MapReturn
<1>5. ASSUME NEW c \in Client, Fail(c) PROVE T!Next \/ UNCHANGED Abstract
  BY <1>5, MapFail
<1>6. ASSUME NEW s \in late, ExecuteLate(s) PROVE T!Next \/ UNCHANGED Abstract
  BY <1>6, MapExecuteLate
<1>7. T!Next \/ UNCHANGED Abstract
  BY <1>1, <1>2, <1>3, <1>4, <1>5, <1>6, <1>v DEF Next
<1> QED
  BY <1>7 DEF Abstract, T!vars

\* The generated records implement Tally for any clients, keys and failures and
\* any declaration within TableAssumption where an INSERT stores what was counted before it: counters change
\* by whole increments of one client at a time, none is lost between clients,
\* and none is added twice unless a call that carried it has failed.
THEOREM CountingCorrect ==
    ASSUME CountsStored
    PROVE  Spec => CountsAreTallied
<1>1. TallyInv /\ [Next]_vars => TallyInv'
  BY TallyNext
<1>2. TallyInv /\ TallyInv' /\ [Next]_vars => [T!Next]_T!vars
  BY MapNext
<1> QED
  BY TallyInit, MapInit, <1>1, <1>2, PTL DEF Spec, CountsAreTallied, T!Spec
----------------------------------------------------------------------------
(* Records that are read from a replica: what holds against the master     *)
(* alone holds still, and what a call returns was the master's.            *)

ReplicaTyped == replica \in [Key -> Row \cup {NoRow}]

\* The answers that are to be the master's.
Told(s, a) == s.op \in Stored \cup {"Refresh"} /\ a.status = "row"

\* A statement is about the row of its client's record, but for a SELECT; an
\* INSERT may find another key only where the storage hands keys out.
Placed(s, a) ==
    /\ s.op # "Insert" \/ ~KeyByStorage => a.key = s.key
    /\ s.op = "Insert" /\ a.status = "norow" => DoNothing(Table)

Keyed(c) ==
    /\ call[c].phase \in {"sent", "answered"} /\ call[c].stmt.op # "Select" =>
           call[c].stmt.key = rec[c].key
    /\ call[c].phase = "answered" => Placed(call[c].stmt, call[c].reply)

\* The row of an answer has been in the master since the call was made.
Current(c) ==
    call[c].phase = "answered" /\ Told(call[c].stmt, call[c].reply) =>
        \E count \in during[c] :
            count[call[c].reply.key] = Counts(call[c].reply.row)

CurrentInv ==
    /\ TypeInv
    /\ ReplicaTyped
    /\ \A c \in Client : Keyed(c) /\ Current(c)

----------------------------------------------------------------------------
(* An answer of the replica. *)

LEMMA ReplicaAnswers ==
    ASSUME TypeInv, ReplicaTyped, NEW c \in Client, ReadReplica(c)
    PROVE  LET s == call[c].stmt
               r == call'[c].reply
           IN /\ call' = [call EXCEPT ![c] = [phase |-> "answered", stmt |-> s,
                                              reply |-> r]]
              /\ call'[c].phase = "answered" /\ call'[c].stmt = s
              /\ s \in Statement /\ s.op = "Select" /\ call[c].phase = "sent"
              /\ r \in Reply /\ r.key = s.key /\ r.effect = NoChange
              /\ r.status = "row" => r.row \in Row
<1> DEFINE s == call[c].stmt
           st == IF replica[s.key] = NoRow THEN "norow" ELSE "row"
           r == Answer(st, s.key, replica[s.key], NoChange)
<1>t. TypeOK
  BY DEF TypeInv
<1>1. /\ call' = [call EXCEPT ![c] = [phase |-> "answered", stmt |-> s, reply |-> r]]
      /\ call[c].phase = "sent" /\ s.op = "Select"
  BY DEF ReadReplica, Routed
<1>2. s \in Statement
  BY <1>1, <1>t, CallType
<1>3. s.key \in Key /\ replica[s.key] \in Row \cup {NoRow}
  BY <1>2 DEF Statement, ReplicaTyped
<1>4. r \in Reply
  BY <1>3, BlankTypes, AnswerType
<1>5. r.key = s.key /\ r.effect = NoChange /\ (r.status = "row" => r.row \in Row)
  BY <1>3 DEF Answer
<1> HIDE DEF r
<1>6. call'[c] = [phase |-> "answered", stmt |-> s, reply |-> r]
  BY <1>1, <1>t DEF TypeOK
<1>7. call'[c].reply = r /\ call'[c].phase = "answered" /\ call'[c].stmt = s
  BY <1>6
<1> QED
  BY <1>1, <1>2, <1>4, <1>5, <1>7

LEMMA TypeReadReplica ==
    ASSUME TypeInv, ReplicaTyped, NEW c \in Client, ReadReplica(c)
    PROVE  TypeInv'
<1>t. TypeOK /\ RowAnswered
  BY DEF TypeInv
<1> DEFINE s == call[c].stmt
           r == call'[c].reply
<1>1. /\ call' = [call EXCEPT ![c] = [phase |-> "answered", stmt |-> s, reply |-> r]]
      /\ s \in Statement /\ r \in Reply
      /\ r.status = "row" => r.row \in Row
      /\ call'[c].phase = "answered" /\ call'[c].stmt = s
  BY ReplicaAnswers
<1>2. UNCHANGED <<db, used, late, rec, calls, known, touched, owed>>
  BY DEF ReadReplica, storage, history
<1> HIDE DEF s, r
<1>3. [phase |-> "answered", stmt |-> s, reply |-> r]
          \in [phase : {"answered"}, stmt : Statement, reply : Reply]
  BY <1>1
<1>4. call' \in [Client -> {Idle}
                           \cup [phase : {"sent"}, stmt : Statement]
                           \cup [phase : {"answered"}, stmt : Statement, reply : Reply]]
  BY <1>1, <1>3, <1>t DEF TypeOK
<1>5. TypeOK'
  BY <1>2, <1>4, <1>t DEF TypeOK
<1>6. RowAnswered'
  <2>1. \A d \in Client \ {c} : call'[d] = call[d]
    BY <1>1, <1>t DEF TypeOK
  <2> QED
    BY <1>1, <2>1, <1>t DEF RowAnswered, r
<1> QED
  BY <1>5, <1>6 DEF TypeInv

LEMMA ReplicaTypedNext ==
    ASSUME TypeInv, ReplicaTyped, [ReplicaNext]_replicaVars
    PROVE  ReplicaTyped'
BY DEF ReplicaNext, ReadReplica, Replicate, replicaVars, ReplicaTyped, TypeInv, TypeOK

----------------------------------------------------------------------------
(* Counting is what it was. *)

LEMMA TallyReadReplica ==
    ASSUME TallyInv, ReplicaTyped, NEW c \in Client, ReadReplica(c)
    PROVE  TallyInv' /\ UNCHANGED Abstract
<1>t. TypeInv /\ TypeOK
  BY DEF TallyInv, CountInv, TypeInv
<1> DEFINE s == call[c].stmt
           r == call'[c].reply
<1>1. /\ call' = [call EXCEPT ![c] = [phase |-> "answered", stmt |-> s, reply |-> r]]
      /\ call'[c].phase = "answered" /\ call'[c].stmt = s
      /\ s.op = "Select" /\ call[c].phase = "sent" /\ r.effect = NoChange
  BY <1>t, ReplicaAnswers
<1>2. UNCHANGED <<db, late, rec, owed>>
  BY DEF ReadReplica, storage, history
<1>3. \A d \in Client \ {c} : call'[d] = call[d]
  BY <1>1, <1>t DEF TypeOK
<1>4. TypeInv'
  BY <1>t, TypeReadReplica
<1>5. WellFormed(s)
  BY <1>1 DEF WellFormed
<1> HIDE DEF s, r
<1>6. ASSUME NEW d \in Client
      PROVE  (rec[d].mut = owed[d] /\ Carries(d) /\ Answered(d))'
  <2>1. rec[d].mut = owed[d] /\ Carries(d) /\ Answered(d)
    BY DEF TallyInv, CountInv
  <2>2. CASE d = c
    BY <2>1, <2>2, <1>1, <1>2, <1>5
       DEF Carries, Answered, Gains, WellFormed, Stored, r
  <2>3. CASE d # c
    BY <2>1, <2>3, <1>2, <1>3 DEF Carries, Answered, Gains, WellFormed
  <2> QED
    BY <2>2, <2>3
<1>7. CountInv'
  BY <1>4, <1>6 DEF CountInv
<1>8. \A d \in Client : Quiet(d)'
  <2>1. Quiet(c)'
    BY <1>1 DEF Quiet, r
  <2>2. \A d \in Client \ {c} : Quiet(d)'
    BY <1>3 DEF Quiet, Added, TallyInv
  <2> QED
    BY <2>1, <2>2
<1>9. TallyInv'
  BY <1>2, <1>7, <1>8 DEF TallyInv, Quiet, WellFormed
<1>10. Taken' = Taken
  <2>1. \A d \in Client : Taken'[d] = Taken[d]
    BY <1>1, <1>3 DEF Taken, r
  <2> QED
    BY <2>1 DEF Taken
<1> QED
  BY <1>2, <1>9, <1>10 DEF Abstract, Count, Pending, Adrift

LEMMA TallyReplicaNext ==
    ASSUME CountsStored, TallyInv, ReplicaTyped, [ReplicaNext]_replicaVars
    PROVE  TallyInv' /\ [T!Next]_T!vars
<1>1. CASE [Next]_vars
  BY <1>1, TallyNext, MapNext
<1>2. ASSUME NEW c \in Client, ReadReplica(c) PROVE TallyInv' /\ UNCHANGED Abstract
  BY <1>2, TallyReadReplica
<1>3. \A k \in Key : Replicate(k) => UNCHANGED vars
  BY DEF Replicate
<1> QED
  BY <1>1, <1>2, <1>3 DEF ReplicaNext, replicaVars, Abstract, T!vars

\* Increments are neither lost nor added twice by clients that count on records
\* read from a replica, however far behind it is.
THEOREM CountingWithReplicas ==
    ASSUME CountsStored
    PROVE  ReplicaSpec => CountsAreTallied
<1> DEFINE Inv == TallyInv /\ ReplicaTyped
<1>1. ReplicaInit => Inv /\ T!Init
  BY TallyInit, MapInit
     DEF ReplicaInit, ReplicaTyped, TallyInv, CountInv, TypeInv, TypeOK
<1>2. Inv /\ [ReplicaNext]_replicaVars => Inv' /\ [T!Next]_T!vars
  BY TallyReplicaNext, ReplicaTypedNext DEF TallyInv, CountInv
<1> QED
  BY <1>1, <1>2, PTL DEF ReplicaSpec, CountsAreTallied, T!Spec

----------------------------------------------------------------------------
(* What an UPDATE writes is what it was. *)

LEMMA ChangedReadReplica ==
    ASSUME ChangedInv, ReplicaTyped, NEW c \in Client, ReadReplica(c)
    PROVE  ChangedInv' /\ \A s \in Executed : OnlyChanges(s)
<1>t. TypeInv /\ TypeOK
  BY DEF ChangedInv, TypeInv
<1>1. /\ call' = [call EXCEPT ![c] = [phase |-> "answered", stmt |-> call[c].stmt,
                                      reply |-> call'[c].reply]]
      /\ call'[c].phase = "answered" /\ call[c].stmt.op = "Select"
  BY <1>t, ReplicaAnswers
<1>2. UNCHANGED <<db, late, rec, touched>>
  BY DEF ReadReplica, storage, history
<1>3. \A d \in Client \ {c} : call'[d] = call[d]
  BY <1>1, <1>t DEF TypeOK
<1>4. TypeInv'
  BY <1>t, TypeReadReplica
<1>5. \A d \in Client : Marked(d)'
  BY <1>2, ChangedFrame
<1>6. ChangedInv'
  BY <1>1, <1>2, <1>3, <1>4, <1>5 DEF ChangedInv, Honest, Alters
<1>7. Executed \subseteq {call[c].stmt}
  BY <1>2, <1>3 DEF Executed
<1> QED
  BY <1>1, <1>6, <1>7 DEF OnlyChanges

LEMMA ChangedReplicaNext ==
    ASSUME ChangedInv, ReplicaTyped, [ReplicaNext]_replicaVars
    PROVE  ChangedInv' /\ (\A s \in Executed : OnlyChanges(s))
<1>1. CASE [Next]_vars
  BY <1>1, ChangedNext, WritesChanges
<1>2. ASSUME NEW c \in Client, ReadReplica(c)
      PROVE  ChangedInv' /\ (\A s \in Executed : OnlyChanges(s))
  BY <1>2, ChangedReadReplica
<1>3. \A k \in Key : Replicate(k) => UNCHANGED vars
  BY DEF Replicate
<1> QED
  BY <1>1, <1>2, <1>3 DEF ReplicaNext, replicaVars

\* A record that was stale when it was read writes back only what its client
\* has changed in it.
THEOREM StaleRecordsWriteChanges == ReplicaSpec => UpdateWritesOnlyChanges
<1> DEFINE Inv == ChangedInv /\ ReplicaTyped
<1>1. ReplicaInit => Inv
  BY ChangedInit DEF ReplicaInit, ReplicaTyped, ChangedInv, TypeInv, TypeOK
<1>2. Inv /\ [ReplicaNext]_replicaVars => Inv'
  BY ChangedReplicaNext, ReplicaTypedNext DEF ChangedInv
<1>3. Inv /\ [ReplicaNext]_replicaVars =>
          \A s \in Executed : s.op = "Update" =>
              \A k \in Key : db[k] # db'[k] =>
                 /\ k = s.key
                 /\ db[k] # NoRow /\ db'[k] # NoRow
                 /\ \A f \in Field \ (Trigger \cup s.changed) : db'[k][f] = db[k][f]
  BY ChangedReplicaNext DEF OnlyChanges
<1> QED
  BY <1>1, <1>2, <1>3, PTL DEF ReplicaSpec, UpdateWritesOnlyChanges

----------------------------------------------------------------------------
(* Which row an answer is about. *)

LEMMA AnswerPlaced ==
    ASSUME NEW s \in Statement, NEW a \in Answers(s)
    PROVE  Placed(s, a)
<1>1. CASE s.op = "Insert"
  <2>1. PICK k \in InsertKeys(s) :
             \/ a = Answer("row", k, Inserted(s), Diff(Inserted(s), Uncounted(s)))
             \/ \E row \in Triggered(Merged(db[k], s)) :
                  a = Answer("row", k, row, Diff(row, db[k]))
             \/ a = Answer("norow", k, db[k], NoChange) /\ DoNothing(Table)
             \/ a = Answer("error", k, db[k], NoChange)
    BY <1>1 DEF Answers, InsertAnswers
  <2>2. a.key = k /\ (a.status = "norow" => DoNothing(Table))
    BY <2>1 DEF Answer
  <2>3. ~KeyByStorage => k = s.key
    BY DEF InsertKeys
  <2> QED
    BY <1>1, <2>2, <2>3 DEF Placed
<1>2. CASE s.op # "Insert" /\ db[s.key] = NoRow
  <2>1. a = Answer("norow", s.key, NoRow, NoChange)
    BY <1>2 DEF Answers
  <2> QED
    BY <1>2, <2>1 DEF Placed, Answer
<1>3. CASE s.op \in {"Update", "FullUpdate"} /\ db[s.key] # NoRow
  <2>1. PICK row \in Triggered(Updated(db[s.key], s)) :
             a = Answer("row", s.key, row, Diff(row, db[s.key]))
    BY <1>3 DEF Answers, UpdateAnswers
  <2> QED
    BY <1>3, <2>1 DEF Placed, Answer
<1>4. CASE s.op \in {"Select", "Refresh", "Delete"} /\ db[s.key] # NoRow
  <2>1. a.key = s.key
    BY <1>4 DEF Answers, Answer
  <2> QED
    BY <1>4, <2>1 DEF Placed
<1> QED
  BY <1>1, <1>2, <1>3, <1>4 DEF Op, Statement

\* A DAO method asks about the row of its record; SelectBy<PrimaryKey> is told.
LEMMA DAOKey ==
    ASSUME TypeOK, NEW c \in Client,
           \/ Insert(c) \/ Update(c) \/ FullUpdate(c) \/ Delete(c)
           \/ \E k \in Key : Select(c, k)
    PROVE  \/ \E s \in Statement :
                 Call(c, s) /\ (s.op # "Select" => s.key = rec[c].key)
           \/ UNCHANGED vars
<1>1. CASE Insert(c)
  <2>1. InsertQuery(c) \in Statement /\ InsertQuery(c).key = rec[c].key
    BY SentType DEF InsertQuery, Query
  <2> QED
    BY <1>1, <2>1 DEF Insert
<1>2. CASE Update(c)
  <2>1. UpdateQuery(c) \in Statement /\ UpdateQuery(c).key = rec[c].key
    BY SentType DEF UpdateQuery, Query
  <2>2. Query(c, "Refresh", {}) \in Statement /\ Query(c, "Refresh", {}).key = rec[c].key
    BY SentType DEF Query
  <2>3. CASE Call(c, UpdateQuery(c))
    BY <2>1, <2>3
  <2>4. CASE Call(c, Query(c, "Refresh", {}))
    BY <2>2, <2>4
  <2> QED
    BY <1>2, <2>3, <2>4 DEF Update
<1>3. CASE FullUpdate(c)
  <2>1. FullUpdateQuery(c) \in Statement /\ FullUpdateQuery(c).key = rec[c].key
    BY SentType DEF FullUpdateQuery, Query
  <2> QED
    BY <1>3, <2>1 DEF FullUpdate
<1>4. CASE Delete(c)
  <2>1. Query(c, "Delete", {}) \in Statement /\ Query(c, "Delete", {}).key = rec[c].key
    BY SentType DEF Query
  <2> QED
    BY <1>4, <2>1 DEF Delete
<1>5. ASSUME NEW k \in Key, Select(c, k)
      PROVE  \E s \in Statement : Call(c, s) /\ s.op = "Select"
  <2> DEFINE s == [Query(c, "Select", {}) EXCEPT !.key = k]
  <2>1. s \in Statement /\ Call(c, s)
    BY <1>5, SentType DEF Select
  <2>2. s.op = "Select"
    BY DEF Query
  <2> QED
    BY <2>1, <2>2
<1> QED
  BY <1>1, <1>2, <1>3, <1>4, <1>5

----------------------------------------------------------------------------
(* An answer was the master's at one moment of its call. *)

LEMMA CurrentInit == ReplicaInit => CurrentInv
<1> SUFFICES ASSUME ReplicaInit PROVE CurrentInv
  OBVIOUS
<1>1. \A c \in Client : call[c].phase = "idle"
  BY DEF ReplicaInit, Init, Idle
<1>2. ReplicaTyped
  BY TypeInit DEF ReplicaInit, ReplicaTyped, TypeInv, TypeOK
<1> QED
  BY <1>1, <1>2, TypeInit DEF CurrentInv, ReplicaInit, Keyed, Current

\* A client whose call is where it was.
LEMMA CurrentFrame ==
    ASSUME CurrentInv, Remember, NEW d \in Client, call'[d] = call[d],
           call[d].phase = "idle" \/ rec'[d].key = rec[d].key
    PROVE  Keyed(d)' /\ Current(d)'
<1>1. Keyed(d) /\ Current(d)
  BY DEF CurrentInv
<1>2. Keyed(d)'
  BY <1>1 DEF Keyed, Placed
<1>3. call[d].phase = "answered" => during[d] \subseteq during'[d]
  BY DEF Remember, Idle
<1> QED
  BY <1>1, <1>2, <1>3 DEF Current, Told

\* A client whose call has ended.
LEMMA CurrentIdle ==
    ASSUME NEW d \in Client, call'[d].phase = "idle"
    PROVE  Keyed(d)' /\ Current(d)'
BY DEF Keyed, Current

LEMMA CurrentDAO ==
    ASSUME CurrentInv, Remember, NEW c \in Client, NEW s \in Statement, Call(c, s),
           s.op # "Select" => s.key = rec[c].key, NEW d \in Client
    PROVE  Keyed(d)' /\ Current(d)'
<1>t. TypeOK
  BY DEF CurrentInv, TypeInv
<1>1. /\ call' = [call EXCEPT ![c] = [phase |-> "sent", stmt |-> s]]
      /\ rec' = rec
  BY DEF Call
<1>2. CASE d = c
  <2>1. call'[c] = [phase |-> "sent", stmt |-> s]
    BY <1>1, <1>t DEF TypeOK
  <2> QED
    BY <1>1, <1>2, <2>1 DEF Keyed, Current
<1>3. CASE d # c
  BY <1>1, <1>3, <1>t, CurrentFrame DEF TypeOK
<1> QED
  BY <1>2, <1>3

LEMMA CurrentExecute ==
    ASSUME CurrentInv, Remember, NEW c \in Client, Execute(c), NEW d \in Client
    PROVE  Keyed(d)' /\ Current(d)'
<1> DEFINE s == call[c].stmt
<1>t. TypeOK
  BY DEF CurrentInv, TypeInv
<1>1. PICK a \in Answers(s) :
           /\ Effect(s, a)
           /\ call' = [call EXCEPT ![c] =
                         [phase |-> "answered", stmt |-> s, reply |-> a]]
  BY DEF Execute
<1>2. s \in Statement /\ call[c].phase = "sent" /\ rec' = rec
  BY <1>t, CallType DEF Execute
<1>3. Keyed(c)
  BY DEF CurrentInv
<1>4. a \in Reply
  BY <1>2, <1>t, AnswersType DEF TypeOK
<1> HIDE DEF s
<1>5. CASE d = c
  <2>1. call'[c] = [phase |-> "answered", stmt |-> s, reply |-> a]
    BY <1>1, <1>t DEF TypeOK
  <2>2. Placed(s, a)
    BY <1>2, AnswerPlaced
  <2>3. Keyed(c)'
    BY <1>2, <1>3, <2>1, <2>2 DEF Keyed, Placed, s
  <2>4. Count'[a.key] = Counts(a.row)
    <3>1. a.key \in Key /\ db'[a.key] = a.row
      BY <1>1, <1>4, <1>t DEF Effect, TypeOK, Reply
    <3> QED
      BY <3>1 DEF Count
  <2>5. Count' \in during'[c]
    BY <2>1 DEF Remember, Idle
  <2>6. Current(c)'
    BY <2>1, <2>4, <2>5 DEF Current
  <2> QED
    BY <1>5, <2>3, <2>6
<1>6. CASE d # c
  BY <1>1, <1>2, <1>6, <1>t, CurrentFrame DEF TypeOK
<1> QED
  BY <1>5, <1>6

LEMMA CurrentReadReplica ==
    ASSUME CurrentInv, Remember, NEW c \in Client, ReadReplica(c), NEW d \in Client
    PROVE  Keyed(d)' /\ Current(d)'
<1>t. TypeInv /\ TypeOK /\ ReplicaTyped
  BY DEF CurrentInv, TypeInv
<1> DEFINE s == call[c].stmt
           r == call'[c].reply
<1>1. /\ call' = [call EXCEPT ![c] = [phase |-> "answered", stmt |-> s, reply |-> r]]
      /\ call'[c].phase = "answered" /\ call'[c].stmt = s
      /\ s.op = "Select" /\ r.key = s.key
  BY <1>t, ReplicaAnswers
<1>2. rec' = rec
  BY DEF ReadReplica
<1> HIDE DEF s, r
<1>3. CASE d = c
  BY <1>1, <1>3 DEF Keyed, Current, Placed, Told, Stored, r
<1>4. CASE d # c
  BY <1>1, <1>2, <1>4, <1>t, CurrentFrame DEF TypeOK
<1> QED
  BY <1>3, <1>4

LEMMA CurrentNext ==
    ASSUME CurrentInv, [ReplicaNext]_replicaVars
    PROVE  CurrentInv'
<1>t. TypeInv /\ TypeOK /\ ReplicaTyped
  BY DEF CurrentInv, TypeInv
<1>1. TypeInv'
  <2>1. ASSUME NEW c \in Client, ReadReplica(c) PROVE TypeInv'
    BY <2>1, <1>t, TypeReadReplica
  <2> QED
    BY <2>1, <1>t, TypeNext DEF ReplicaNext, Replicate, replicaVars
<1>2. ReplicaTyped'
  BY <1>t, ReplicaTypedNext
<1>3. ASSUME NEW d \in Client, ReplicaNext PROVE Keyed(d)' /\ Current(d)'
  <2>r. Remember
    BY <1>3 DEF ReplicaNext
  <2>1. ASSUME NEW c \in Client, Edit(c) PROVE Keyed(d)' /\ Current(d)'
    <3>1. call' = call /\ call[c].phase = "idle"
      BY <2>1 DEF Edit, New, Set, SetKey, Add, CanEdit, Free
    <3>2. d # c => rec'[d] = rec[d]
      BY <2>1, <1>t DEF Edit, New, Set, SetKey, Add, TypeOK
    <3> QED
      BY <2>r, <3>1, <3>2, CurrentFrame
  <2>2. ASSUME NEW c \in Client,
               \/ Insert(c) \/ Update(c) \/ FullUpdate(c) \/ Delete(c)
               \/ \E k \in Key : Select(c, k)
        PROVE  Keyed(d)' /\ Current(d)'
    <3>1. CASE UNCHANGED vars
      BY <2>r, <3>1, CurrentFrame DEF vars
    <3>2. ASSUME NEW s \in Statement, Call(c, s),
                 s.op # "Select" => s.key = rec[c].key
          PROVE  Keyed(d)' /\ Current(d)'
      BY <2>r, <3>2, CurrentDAO
    <3> QED
      BY <2>2, <3>1, <3>2, <1>t, DAOKey
  <2>3. ASSUME NEW c \in Client, Execute(c) PROVE Keyed(d)' /\ Current(d)'
    BY <2>r, <2>3, CurrentExecute
  <2>4. ASSUME NEW c \in Client, Return(c) \/ Fail(c)
        PROVE  Keyed(d)' /\ Current(d)'
    <3>1. call' = [call EXCEPT ![c] = Idle]
      BY <2>4 DEF Return, Fail
    <3>2. d # c => rec'[d] = rec[d]
      BY <2>4, <1>t, FailRecord DEF Return, TypeOK
    <3>3. CASE d = c
      BY <3>1, <3>3, <1>t, CurrentIdle DEF TypeOK, Idle
    <3>4. CASE d # c
      BY <2>r, <3>1, <3>2, <3>4, <1>t, CurrentFrame DEF TypeOK
    <3> QED
      BY <3>3, <3>4
  <2>5. ASSUME NEW s \in late, ExecuteLate(s) PROVE Keyed(d)' /\ Current(d)'
    BY <2>r, <2>5, CurrentFrame DEF ExecuteLate
  <2>6. ASSUME NEW c \in Client, ReadReplica(c) PROVE Keyed(d)' /\ Current(d)'
    BY <2>r, <2>6, CurrentReadReplica
  <2>7. ASSUME NEW k \in Key, Replicate(k) PROVE Keyed(d)' /\ Current(d)'
    BY <2>r, <2>7, CurrentFrame DEF Replicate, vars
  <2> QED
    BY <1>3, <2>1, <2>2, <2>3, <2>4, <2>5, <2>6, <2>7 DEF ReplicaNext, Next
<1>4. ASSUME UNCHANGED replicaVars, NEW d \in Client
      PROVE  Keyed(d)' /\ Current(d)'
  <2>1. Keyed(d) /\ Current(d)
    BY DEF CurrentInv
  <2> QED
    BY <1>4, <2>1 DEF replicaVars, vars, Keyed, Placed, Current, Told
<1> QED
  BY <1>1, <1>2, <1>3, <1>4 DEF CurrentInv

----------------------------------------------------------------------------
(* The record after a call. *)

\* An upserting INSERT returns the counters unless they are left out of it.
CountersReturned == Upsert(Table) => Counter \subseteq InsertResult(Table)

\* An upserted table has no keys from the storage, and ignores no INSERT.
LEMMA Upserted == Upsert(Table) => ~KeyByStorage /\ ~DoNothing(Table)
BY TableAssumption DEF Accepted, Upsert, DoNothing, KeyByStorage

LEMMA AbsorbCounters ==
    ASSUME CountersReturned, NEW r \in Record, NEW s \in Statement, NEW a \in Reply,
           Told(s, a), Placed(s, a), a.row \in Row, s.key = r.key,
           s.op = "Insert" => Upsert(Table)
    PROVE  /\ Absorb(r, s, a).key = a.key
           /\ \A m \in Counter : Absorb(r, s, a).data[m] = a.row[m]
<1>1. a.key = r.key
  BY Upserted DEF Placed
<1>2. ASSUME NEW cols, Counter \subseteq cols
      PROVE  /\ Reset(Scan(r, cols, a)).key = a.key
             /\ \A m \in Counter : Reset(Scan(r, cols, a)).data[m] = a.row[m]
             /\ Scan(r, cols, a).key = a.key
  BY <1>1, <1>2, Groups DEF Reset, Scan, Record
<1>3. Counter \subseteq UpdateResult(Table)
  BY TableAssumption
     DEF Counter, Mutators, UpdateResult, Updatable, ByStorage, Accepted, TableOver
<1>4. CASE s.op = "Insert"
  BY <1>2, <1>4, AbsorbCases DEF CountersReturned, Told
<1>5. CASE s.op \in {"Update", "FullUpdate"}
  BY <1>2, <1>3, <1>5, AbsorbCases DEF Told
<1>6. CASE s.op = "Refresh"
  BY <1>2, <1>6, AbsorbCases DEF Told
<1> QED
  BY <1>4, <1>5, <1>6 DEF Told, Stored

LEMMA ReturnsCurrent ==
    ASSUME CountersReturned, CurrentInv, NEW c \in Client, Return(c),
           Outcome(call[c].stmt, call[c].reply) = "nil",
           call[c].stmt.op \in Stored \cup {"Refresh"},
           call[c].stmt.op = "Insert" => Upsert(Table)
    PROVE  \E count \in during[c] :
               count[rec'[c].key] = [m \in Counter |-> rec'[c].data[m]]
<1> DEFINE s == call[c].stmt
           a == call[c].reply
<1>t. TypeOK /\ RowAnswered
  BY DEF CurrentInv, TypeInv
<1>1. call[c].phase = "answered" /\ rec' = [rec EXCEPT ![c] = Absorb(rec[c], s, a)]
  BY DEF Return
<1>2. s \in Statement /\ a \in Reply
  BY <1>1, <1>t, CallType
<1>3. Keyed(c) /\ Current(c)
  BY DEF CurrentInv
<1>4. s.key = rec[c].key /\ Placed(s, a)
  BY <1>1, <1>3 DEF Keyed, Stored
<1>5. a.status = "row"
  BY <1>2, <1>4, Upserted DEF Outcome, Placed, Reply
<1>6. Told(s, a)
  BY <1>5 DEF Told
<1>7. a.row \in Row
  BY <1>1, <1>5, <1>t DEF RowAnswered, Stored
<1>8. rec[c] \in Record
  BY <1>t DEF TypeOK
<1>9. rec'[c] = Absorb(rec[c], s, a)
  BY <1>1, <1>t DEF TypeOK
<1>10. PICK count \in during[c] : count[a.key] = Counts(a.row)
  BY <1>1, <1>3, <1>6 DEF Current
<1> HIDE DEF s, a
<1>11. /\ rec'[c].key = a.key
       /\ \A m \in Counter : rec'[c].data[m] = a.row[m]
  BY <1>2, <1>4, <1>6, <1>7, <1>8, <1>9, AbsorbCounters DEF s
<1>12. Counts(a.row) = [m \in Counter |-> rec'[c].data[m]]
  BY <1>7, <1>11, ValueAssumption DEF Counts
<1> QED
  BY <1>10, <1>11, <1>12

LEMMA ReturnsActual ==
    ASSUME CountersReturned, CurrentInv, NEW c \in Client, Return(c),
           Outcome(call[c].stmt, call[c].reply) = "nil",
           call[c].stmt.op \in Stored \cup {"Refresh"},
           call[c].stmt.op = "Insert" => Upsert(Table)
    PROVE  /\ rec'[c].key = call[c].reply.key
           /\ Unchanged(rec'[c])
           /\ \A m \in Counter : rec'[c].data[m] = call[c].reply.row[m]
<1> DEFINE s == call[c].stmt
           a == call[c].reply
<1>t. TypeOK /\ RowAnswered
  BY DEF CurrentInv, TypeInv
<1>1. call[c].phase = "answered" /\ rec'[c] = Absorb(rec[c], s, a)
  BY <1>t DEF Return, TypeOK
<1>2. s \in Statement /\ a \in Reply /\ rec[c] \in Record
  BY <1>1, <1>t, CallType DEF TypeOK
<1>3. s.key = rec[c].key /\ Placed(s, a)
  BY <1>1 DEF CurrentInv, Keyed, Stored
<1>4. Told(s, a)
  BY <1>2, <1>3, Upserted DEF Outcome, Placed, Reply, Told
<1>5. a.row \in Row
  BY <1>1, <1>4, <1>t DEF RowAnswered, Told, Stored
<1> HIDE DEF s, a
<1>6. /\ Absorb(rec[c], s, a).key = a.key
      /\ \A m \in Counter : Absorb(rec[c], s, a).data[m] = a.row[m]
  BY <1>2, <1>3, <1>4, <1>5, AbsorbCounters DEF s
<1>7. Unchanged(Absorb(rec[c], s, a))
  BY <1>2, <1>4, AbsorbMarks DEF Unchanged, Told, Stored
<1> QED
  BY <1>1, <1>6, <1>7 DEF a

\* Success leaves in the record the key and the counters of the row the call
\* stored or read, and nothing marked as changed.
THEOREM SuccessMeansActual ==
    ASSUME CountersReturned
    PROVE  ReplicaSpec => SuccessReturnsActual
<1> DEFINE Step == \A c \in Client :
                      LET s == call[c].stmt
                          a == call[c].reply
                      IN (/\ Return(c)
                          /\ Outcome(s, a) = "nil"
                          /\ s.op \in Stored \cup {"Refresh"}
                          /\ s.op = "Insert" => Upsert(Table))
                         => (/\ rec'[c].key = a.key
                             /\ Unchanged(rec'[c])
                             /\ \A m \in Counter : rec'[c].data[m] = a.row[m])
<1>1. CurrentInv => Step
  BY ReturnsActual
<1>2. CurrentInv /\ [ReplicaNext]_replicaVars => CurrentInv'
  BY CurrentNext
<1> QED
  BY CurrentInit, <1>1, <1>2, PTL DEF ReplicaSpec, SuccessReturnsActual

\* Whatever the replica has, a call that stores a record or refreshes its
\* counters returns what the master had at one moment of the call.
THEOREM CountersStayCurrent ==
    ASSUME CountersReturned
    PROVE  ReplicaSpec => CountersWereCurrent
<1> DEFINE Step == \A c \in Client :
                      LET s == call[c].stmt
                      IN (/\ Return(c)
                          /\ Outcome(s, call[c].reply) = "nil"
                          /\ s.op \in Stored \cup {"Refresh"}
                          /\ s.op = "Insert" => Upsert(Table))
                         => \E count \in during[c] :
                               count[rec'[c].key] = [m \in Counter |-> rec'[c].data[m]]
<1>1. CurrentInv => Step
  BY ReturnsCurrent
<1>2. CurrentInv /\ [ReplicaNext]_replicaVars => CurrentInv'
  BY CurrentNext
<1> QED
  BY CurrentInit, <1>1, <1>2, PTL DEF ReplicaSpec, CountersWereCurrent
=============================================================================
