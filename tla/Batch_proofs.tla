---------------------------- MODULE Batch_proofs ----------------------------
(***************************************************************************)
(* Theorems about Batch, for every declaration of a table within           *)
(* TableAssumption, slices of any length and any number of calls.          *)
(***************************************************************************)
EXTENDS Batch, FiniteSetTheorems, SequenceTheorems, TLAPS

----------------------------------------------------------------------------
(* The order of VALUES. *)

\* A finite set of numbers can be listed in order: each stands where as many of
\* them as its rank are no greater.
LEMMA OrderExists ==
    ASSUME NEW S \in SUBSET Slot
    PROVE  \E s \in [1 .. Cardinality(S) -> S] :
              \A m, n \in DOMAIN s : m < n => s[m] < s[n]
<1>1. Slot \subseteq Nat /\ IsFiniteSet(S)
  <2>1. Slot \subseteq Nat
    BY BatchAssumption DEF Slot
  <2>2. IsFiniteSet(Slot)
    BY BatchAssumption, FS_Interval DEF Slot
  <2> QED
    BY <2>1, <2>2, FS_Subset
<1> DEFINE N == Cardinality(S)
           upTo(i) == {j \in S : j <= i}
           rank == [i \in S |-> Cardinality(upTo(i))]
<1>2. N \in Nat /\ IsFiniteSet(1 .. N) /\ Cardinality(1 .. N) = N
  BY <1>1, FS_CardinalityType, FS_Interval
<1>3. ASSUME NEW i \in S
      PROVE  /\ IsFiniteSet(upTo(i)) /\ Cardinality(upTo(i)) \in 1 .. N
  <2>1. upTo(i) \in SUBSET S /\ i \in upTo(i)
    BY <1>1
  <2>2. IsFiniteSet(upTo(i)) /\ Cardinality(upTo(i)) <= N
    BY <1>1, <2>1, FS_Subset
  <2>3. Cardinality(upTo(i)) \in Nat /\ Cardinality(upTo(i)) # 0
    BY <2>1, <2>2, FS_CardinalityType, FS_EmptySet
  <2> QED
    BY <1>2, <2>2, <2>3
<1>4. ASSUME NEW i \in S, NEW k \in S, i < k
      PROVE  rank[i] < rank[k]
  <2>1. upTo(i) \in SUBSET upTo(k) /\ k \in upTo(k) /\ k \notin upTo(i)
    <3>1. i \in Nat /\ k \in Nat /\ \A j \in S : j \in Nat
      BY <1>1
    <3>2. \A j \in S : j <= i => j <= k
      BY <3>1, <1>4
    <3>3. k <= k /\ ~(k <= i)
      BY <3>1, <1>4
    <3> QED
      BY <3>2, <3>3
  <2>2. Cardinality(upTo(i)) <= Cardinality(upTo(k)) /\ Cardinality(upTo(i)) # Cardinality(upTo(k))
    <3>1. IsFiniteSet(upTo(k))
      BY <1>3
    <3> HIDE DEF upTo
    <3>2. /\ Cardinality(upTo(i)) <= Cardinality(upTo(k))
          /\ Cardinality(upTo(k)) = Cardinality(upTo(i)) => upTo(k) = upTo(i)
      BY <2>1, <3>1, FS_Subset
    <3> QED
      BY <2>1, <3>2
  <2>3. Cardinality(upTo(i)) \in Nat /\ Cardinality(upTo(k)) \in Nat
    <3>1. Cardinality(upTo(i)) \in 1 .. N /\ Cardinality(upTo(k)) \in 1 .. N
      BY <1>3
    <3> HIDE DEF upTo
    <3> QED
      BY <1>2, <3>1
  <2> HIDE DEF upTo
  <2> QED
    BY <2>2, <2>3
<1>5. rank \in [S -> 1 .. N]
  BY <1>3
<1> HIDE DEF rank
<1>6. rank \in Injection(S, 1 .. N)
  <2>1. ASSUME NEW i \in S, NEW k \in S, rank[i] = rank[k] PROVE i = k
    <3>1. i \in Nat /\ k \in Nat /\ rank[i] \in Nat
      BY <1>1, <1>5
    <3> QED
      BY <1>4, <2>1, <3>1
  <2> QED
    BY <1>5, <2>1 DEF Injection, IsInjective
<1>7. rank \in Surjection(S, 1 .. N)
  BY <1>2, <1>6, FS_Injection
<1>8. \A m \in 1 .. N : \E i \in S : rank[i] = m
  BY <1>7 DEF Surjection
<1> DEFINE s == [m \in 1 .. N |-> CHOOSE i \in S : rank[i] = m]
<1>9. ASSUME NEW m \in 1 .. N PROVE s[m] \in S /\ rank[s[m]] = m
  BY <1>8
<1>10. s \in [1 .. N -> S] /\ DOMAIN s = 1 .. N
  BY <1>8
<1> HIDE DEF s
<1>11. ASSUME NEW m \in 1 .. N, NEW n \in 1 .. N, m < n PROVE s[m] < s[n]
  <2>1. s[m] \in Nat /\ s[n] \in Nat
    BY <1>1, <1>9
  <2>2. ~(s[n] < s[m]) /\ s[n] # s[m]
    BY <1>2, <1>4, <1>9, <1>11
  <2> QED
    BY <2>1, <2>2
<1> QED
  BY <1>10, <1>11

LEMMA OrderType ==
    ASSUME NEW S \in SUBSET Slot
    PROVE  /\ Cardinality(S) \in Nat /\ Cardinality(S) <= Size
           /\ Cardinality(S) = Size <=> S = Slot
           /\ InOrder(S) \in [1 .. Cardinality(S) -> S]
           /\ \A m, n \in 1 .. Cardinality(S) : m < n => InOrder(S)[m] < InOrder(S)[n]
<1>1. IsFiniteSet(Slot) /\ Cardinality(Slot) = Size
  BY BatchAssumption, FS_Interval DEF Slot
<1>2. /\ IsFiniteSet(S) /\ Cardinality(S) <= Cardinality(Slot)
      /\ Cardinality(Slot) = Cardinality(S) => Slot = S
  BY <1>1, FS_Subset
<1>3. Cardinality(S) \in Nat
  BY <1>2, FS_CardinalityType
<1>4. /\ InOrder(S) \in [1 .. Cardinality(S) -> S]
      /\ \A m, n \in DOMAIN InOrder(S) : m < n => InOrder(S)[m] < InOrder(S)[n]
  BY OrderExists DEF InOrder
<1> QED
  BY <1>1, <1>2, <1>3, <1>4

\* All the slots in order are the slots.
LEMMA OrderOfAll == \A i \in Slot : InOrder(Slot)[i] = i
<1> DEFINE s == InOrder(Slot)
<1>1. Slot = 1 .. Size /\ Size \in Nat
  BY BatchAssumption DEF Slot
<1>2. Cardinality(Slot) = Size /\ IsFiniteSet(Slot)
  BY <1>1, FS_Interval
<1>3. /\ s \in [Slot -> Slot]
      /\ \A m, n \in Slot : m < n => s[m] < s[n]
  BY <1>1, <1>2, OrderType
<1> HIDE DEF s
<1>4. s \in Injection(Slot, Slot)
  <2>1. ASSUME NEW m \in Slot, NEW n \in Slot, s[m] = s[n] PROVE m = n
    <3>1. m \in Nat /\ n \in Nat /\ s[m] \in Nat
      BY <1>1, <1>3
    <3> QED
      BY <1>3, <2>1, <3>1
  <2> QED
    BY <1>3, <2>1 DEF Injection, IsInjective
<1>5. s \in Surjection(Slot, Slot)
  BY <1>2, <1>4, FS_Injection
<1>6. ASSUME NEW i \in Slot PROVE s[i] = i
  <2> DEFINE t == [j \in 1 .. i |-> s[j]]
  <2>1. i \in Nat /\ s[i] \in Slot /\ s[i] \in Nat /\ 1 .. i \subseteq Slot
    BY <1>1, <1>3
  <2>2. ASSUME NEW j \in 1 .. i PROVE s[j] \in 1 .. s[i]
    <3>1. j \in Slot /\ s[j] \in Slot /\ (j = i \/ j < i)
      BY <1>1, <1>3, <2>1
    <3> QED
      BY <1>1, <1>3, <2>1, <3>1, SMTT(20)
  <2>3. t \in Injection(1 .. i, 1 .. s[i])
    BY <1>4, <2>1, <2>2 DEF Injection, IsInjective
  <2>4. ASSUME NEW x \in 1 .. s[i] PROVE \E j \in 1 .. i : t[j] = x
    <3>1. x \in Slot
      BY <1>1, <2>1
    <3>2. PICK j \in Slot : s[j] = x
      BY <1>5, <3>1 DEF Surjection
    <3>3. ~(i < j)
      BY <1>1, <1>3, <2>1, <3>1, <3>2
    <3>4. j \in 1 .. i
      BY <1>1, <2>1, <3>3
    <3> QED
      BY <3>2, <3>4
  <2>5. t \in Bijection(1 .. i, 1 .. s[i])
    BY <2>3, <2>4 DEF Bijection, Injection, Surjection
  <2>6. Cardinality(1 .. s[i]) = i
    BY <2>1, <2>5, FS_CountingElements DEF ExistsBijection
  <2>7. Cardinality(1 .. s[i]) = s[i]
    BY <2>1, FS_Interval
  <2> QED
    BY <2>6, <2>7
<1> QED
  BY <1>6 DEF s

----------------------------------------------------------------------------
(* The invariant. *)

Op == {"InsertMulti", "UpdateMulti", "DeleteMulti"}

Returned == [of : Slot, key : Key, row : Row, effect : Change]

\* What a statement adds of a record's increments to its row: an INSERT only
\* those of the counters that are among its VALUES.
Taken(op, change) ==
    [m \in Counter |->
        IF op = "UpdateMulti" \/ m \in InsertValue(Table) THEN change[m] ELSE 0]

\* A row that an answer says was stored for one of the records is made of that
\* record: of its counters, and of what the statement took from it.
MadeOf(op, r) ==
    /\ r.effect = Taken(op, slice[r.of].mut)
    /\ op = "UpdateMulti" \/ ~KeyByStorage => r.key = slice[r.of].key
    /\ \A f \in Written : op = "UpdateMulti" \/ f \in InsertValue(Table) =>
          r.row[f] = slice[r.of].data[f]

\* No record is skipped by an INSERT: none may meet a row of its key.
NoneSkipped == DoNothing(Table) => KeyByStorage

\* What an answer says of the slice.  As many rows as records are the records'
\* rows, each in the place of its record.
AnswerInv(op, a) ==
    /\ a.rows \in Seq(Returned)
    /\ Len(a.rows) <= Size
    /\ Len(a.rows) = Size => \A n \in Slot : a.rows[n].of = n
    /\ \A n, l \in DOMAIN a.rows : n # l => a.rows[n].key # a.rows[l].key
    /\ \A n \in DOMAIN a.rows : MadeOf(op, a.rows[n])
    /\ op = "InsertMulti" /\ NoneSkipped =>
          Len(a.rows) = IF a.status = "done" THEN Size ELSE 0
    /\ op = "DeleteMulti" => a.rows = <<>>

CallInv ==
    /\ call.phase # "idle" =>
          /\ call.op \in Op
          /\ call.op = "InsertMulti" => HasInsertMulti
    /\ call.phase = "answered" => AnswerInv(call.op, call.reply)

\* A key the storage hands out is not handed out again.
KeyInv == KeyByStorage => \A k \in Key : db[k] # NoRow => k \in used

TypeInv == TypeOK /\ CallInv /\ KeyInv

----------------------------------------------------------------------------
(* The column groups, and the rows the statements make. *)

LEMMA Groups ==
    /\ Counter \subseteq Field
    /\ Written \subseteq Field
    /\ Counter \cap Written = {}
    /\ Trigger \cap (Counter \cup Written) = {}
    /\ Counter \subseteq UpdateResult(Table)
    /\ UpdateResult(Table) \cap Written = {}
BY TableAssumption
   DEF TableOver, Accepted, Counter, Field, Written, Trigger, Mutators,
       UpdateValue, UpdateResult, Updatable, ByStorage, HasKey

LEMMA BlankTypes ==
    /\ BlankRow \in Row
    /\ NoChange \in Change
    /\ [f \in Written |-> Blank] \in [Written -> Int]
BY ValueAssumption DEF BlankRow, Row, NoChange, Change

LEMMA FreshType ==
    ASSUME NEW k \in Key, NEW data \in Row
    PROVE  Fresh(k, data) \in Record
BY BlankTypes DEF Fresh, Record

LEMMA TriggeredRow ==
    ASSUME NEW row \in Row, NEW new \in Triggered(row)
    PROVE  new \in Row /\ \A f \in Counter \cup Written : new[f] = row[f]
<1>1. PICK t \in [Trigger -> Stamp] :
           new = [f \in Field |-> IF f \in Trigger THEN t[f] ELSE row[f]]
  BY DEF Triggered
<1> QED
  BY <1>1, ValueAssumption, Groups DEF Row

\* The arguments of an INSERT.
LEMMA InsertArgs ==
    ASSUME NEW r \in Record, NEW f \in Field
    PROVE  /\ InsertArg(r, f) \in Int
           /\ f \in Written => InsertArg(r, f) = r.data[f]
           /\ f \in Counter => r.mut[f] \in Int
<1>1. r.data[f] \in Int /\ (f \in Counter => r.mut[f] \in Int)
  BY DEF Record, Row, Change
<1>2. CASE f \notin Counter
  BY <1>1, <1>2 DEF InsertArg
<1>3. CASE f \in Counter /\ Upsert(Table)
  BY <1>1, <1>3, Groups DEF InsertArg
<1>4. CASE f \in Counter /\ ~Upsert(Table)
  BY <1>1, <1>4, Groups DEF InsertArg
<1> QED
  BY <1>2, <1>3, <1>4

LEMMA InsertedRow ==
    ASSUME NEW r \in Record
    PROVE  LET new == Inserted(InsertRow(r))
               old == Uncounted(InsertRow(r))
           IN  /\ new \in Row /\ Diff(new, old) = Taken("InsertMulti", r.mut)
               /\ \A f \in Written \cap InsertValue(Table) : new[f] = r.data[f]
<1> DEFINE s == InsertRow(r)
           new == Inserted(s)
           old == Uncounted(s)
<1>1. /\ s.set = InsertValue(Table) \cap Field /\ s.add = r.mut
      /\ s.val \in Row /\ \A f \in Field : s.val[f] = InsertArg(r, f)
  BY InsertArgs DEF InsertRow, Row
<1> HIDE DEF s
<1>2. new \in Row /\ \A f \in Field : new[f] = IF f \in s.set THEN s.val[f] ELSE Default[f]
  BY <1>1, ValueAssumption DEF Inserted, Row
<1>3. \A m \in Counter :
         new[m] - old[m] = IF m \in InsertValue(Table) THEN r.mut[m] ELSE 0
  <2> SUFFICES ASSUME NEW m \in Counter
               PROVE  new[m] - old[m] = IF m \in InsertValue(Table) THEN r.mut[m] ELSE 0
    OBVIOUS
  <2>1. /\ m \in Field /\ s.add[m] = r.mut[m] /\ r.mut[m] \in Int
        /\ s.val[m] \in Int /\ Default[m] \in Int
    BY <1>1, InsertArgs, Groups, ValueAssumption DEF Row
  <2>2. old[m] = IF m \in s.set THEN s.val[m] - s.add[m] ELSE Default[m]
    BY DEF Uncounted
  <2> QED
    BY <1>1, <1>2, <2>1, <2>2
<1>4. Diff(new, old) = Taken("InsertMulti", r.mut)
  BY <1>3 DEF Diff, Taken
<1>5. \A f \in Written \cap InsertValue(Table) : new[f] = r.data[f]
  BY <1>1, <1>2, InsertArgs, Groups
<1> QED
  BY <1>2, <1>4, <1>5 DEF s

LEMMA MergedRow ==
    ASSUME Counter = {}, NEW r \in Record, NEW row \in Row,
           NEW new \in Triggered(Merged(row, InsertRow(r)))
    PROVE  /\ new \in Row /\ Diff(new, row) = Taken("InsertMulti", r.mut)
           /\ \A f \in Written \cap InsertValue(Table) : new[f] = r.data[f]
<1> DEFINE s == InsertRow(r)
           ins == Inserted(s)
           mrg == Merged(row, s)
<1>2. ins \in Row /\ \A f \in Written \cap InsertValue(Table) : ins[f] = r.data[f]
  BY InsertedRow
<1> HIDE DEF s, ins
<1>4. mrg = [f \in Field |-> IF f \in Written THEN ins[f] ELSE row[f]]
  BY DEF Merged, ins
<1> HIDE DEF mrg
<1>5. mrg \in Row /\ \A f \in Written : mrg[f] = ins[f]
  BY <1>2, <1>4, Groups DEF Row
<1>6. new \in Row /\ \A f \in Written : new[f] = mrg[f]
  BY <1>5, TriggeredRow DEF mrg, s
<1>7. Diff(new, row) = Taken("InsertMulti", r.mut)
  BY DEF Diff, Taken
<1> QED
  BY <1>2, <1>5, <1>6, <1>7

LEMMA UpdatedRow ==
    ASSUME NEW r \in Record, NEW row \in Row,
           NEW new \in Triggered(Updated(row, UpdateRow(r)))
    PROVE  /\ new \in Row /\ Diff(new, row) = Taken("UpdateMulti", r.mut)
           /\ \A f \in Written : new[f] = r.data[f]
<1> DEFINE s == UpdateRow(r)
           upd == Updated(row, s)
<1>1. /\ s.set = Written /\ s.add = r.mut /\ s.val = r.data
      /\ r.mut \in [Counter -> Int] /\ r.data \in [Field -> Int]
  BY DEF UpdateRow, Record, Row, Change
<1> HIDE DEF s
<1>2. upd = [f \in Field |-> IF f \in Written THEN r.data[f]
                            ELSE IF f \in Counter THEN row[f] + r.mut[f]
                            ELSE row[f]]
  BY <1>1 DEF Updated
<1> HIDE DEF upd
<1>3. /\ upd \in Row /\ \A m \in Counter : upd[m] = row[m] + r.mut[m]
      /\ \A f \in Written : upd[f] = r.data[f]
  BY <1>1, <1>2, Groups DEF Row
<1>4. new \in Row /\ \A f \in Counter \cup Written : new[f] = upd[f]
  BY <1>3, TriggeredRow DEF upd, s
<1>5. \A m \in Counter : new[m] - row[m] = r.mut[m]
  BY <1>1, <1>3, <1>4, Groups DEF Row
<1>6. Diff(new, row) = Taken("UpdateMulti", r.mut)
  BY <1>5 DEF Diff, Taken
<1> QED
  BY <1>3, <1>4, <1>6

----------------------------------------------------------------------------
(* What the server answers. *)

\* What a statement stores for the records in S is made of them.
MadeOfAll(op, S, key, row, old) ==
    /\ \A i \in S : /\ key[i] \in Key /\ row[i] \in Row
                    /\ slice[i].mut \in Change
                    /\ Diff(row[i], old[i]) = Taken(op, slice[i].mut)
    /\ \A i, j \in S : i # j => key[i] # key[j]
    /\ op = "UpdateMulti" \/ ~KeyByStorage => \A i \in S : key[i] = slice[i].key
    /\ \A i \in S : \A f \in Written : op = "UpdateMulti" \/ f \in InsertValue(Table) =>
          row[i][f] = slice[i].data[f]
    /\ op = "InsertMulti" /\ NoneSkipped => S = Slot

LEMMA StoredRows ==
    ASSUME NEW S \in SUBSET Slot, NEW key, NEW row, NEW old,
           NEW op \in {"InsertMulti", "UpdateMulti"},
           MadeOfAll(op, S, key, row, old),
           NEW a, a = Stored(S, key, row, old)
    PROVE  /\ AnswerInv(op, a)
           /\ \A n \in DOMAIN a.rows : \E i \in S : a.rows[n].key = key[i]
<1> DEFINE N == Cardinality(S)
           s == InOrder(S)
           returned(i) == [of |-> i, key |-> key[i], row |-> row[i],
                           effect |-> Diff(row[i], old[i])]
<1>1. /\ N \in Nat /\ N <= Size /\ (N = Size <=> S = Slot)
      /\ s \in [1 .. N -> S]
      /\ \A m, n \in 1 .. N : m < n => s[m] < s[n]
  BY OrderType
<1>2. a.status = "done" /\ a.rows = [n \in 1 .. N |-> returned(s[n])]
  BY DEF Stored
<1> HIDE DEF s, N
<1> USE DEF MadeOfAll
<1>3. ASSUME NEW i \in S PROVE returned(i) \in Returned /\ MadeOf(op, returned(i))
  <2>1. /\ i \in Slot /\ key[i] \in Key /\ row[i] \in Row
        /\ Diff(row[i], old[i]) = Taken(op, slice[i].mut)
        /\ Taken(op, slice[i].mut) \in Change
    BY DEF Taken, Change
  <2>2. returned(i) \in Returned
    BY <2>1 DEF Returned
  <2>3. op = "UpdateMulti" \/ ~KeyByStorage => key[i] = slice[i].key
    OBVIOUS
  <2>4. \A f \in Written : op = "UpdateMulti" \/ f \in InsertValue(Table) =>
            row[i][f] = slice[i].data[f]
    OBVIOUS
  <2> QED
    BY <2>1, <2>2, <2>3, <2>4 DEF MadeOf
<1> HIDE DEF returned
<1>4. /\ a.rows \in [1 .. N -> Returned] /\ DOMAIN a.rows = 1 .. N
      /\ \A n \in 1 .. N : MadeOf(op, a.rows[n])
  BY <1>1, <1>2, <1>3
<1>5. a.rows \in Seq(Returned) /\ Len(a.rows) = N
  BY <1>1, <1>4
<1>6. N = Size => \A n \in Slot : a.rows[n].of = n
  <2> SUFFICES ASSUME N = Size, NEW n \in Slot PROVE a.rows[n].of = n
    OBVIOUS
  <2>1. s[n] = n /\ n \in 1 .. N
    BY <1>1, OrderOfAll DEF s, Slot
  <2> QED
    BY <1>2, <2>1 DEF returned
<1>7. ASSUME NEW n \in 1 .. N, NEW l \in 1 .. N, n # l
      PROVE  a.rows[n].key # a.rows[l].key
  <2>1. a.rows[n].key = key[s[n]] /\ a.rows[l].key = key[s[l]]
    BY <1>2 DEF returned
  <2>2. s[n] \in S /\ s[l] \in S /\ s[n] \in Nat /\ s[l] \in Nat
    <3>1. Slot \subseteq Nat
      BY BatchAssumption DEF Slot
    <3> QED
      BY <1>1, <3>1
  <2>3. s[n] # s[l]
    BY <1>1, <1>7, <2>2
  <2> QED
    BY <2>1, <2>2, <2>3
<1>8. \A n \in DOMAIN a.rows : \E i \in S : a.rows[n].key = key[i]
  <2> SUFFICES ASSUME NEW n \in 1 .. N PROVE \E i \in S : a.rows[n].key = key[i]
    BY <1>4
  <2>1. a.rows[n].key = key[s[n]] /\ s[n] \in S
    BY <1>1, <1>2 DEF returned
  <2> QED
    BY <2>1
<1>9. AnswerInv(op, a)
  BY <1>1, <1>2, <1>4, <1>5, <1>6, <1>7 DEF AnswerInv
<1> QED
  BY <1>8, <1>9

LEMMA RefusedRows ==
    ASSUME NEW op \in Op
    PROVE  AnswerInv(op, Refused) /\ Refused.rows = <<>>
<1>1. Refused.rows = <<>> /\ Refused.status = "error"
  BY DEF Refused
<1>2. Len(<<>>) = 0 /\ DOMAIN <<>> = {} /\ <<>> \in Seq(Returned)
  OBVIOUS
<1>3. 0 <= Size /\ 0 # Size
  BY BatchAssumption
<1> QED
  BY <1>1, <1>2, <1>3 DEF AnswerInv

LEMMA InsertAnswersSound ==
    ASSUME TypeOK, KeyInv, HasInsertMulti,
           NEW a \in InsertAnswers
    PROVE  AnswerInv("InsertMulti", a)
<1> DEFINE arg == [i \in Slot |-> InsertRow(slice[i])]
           free(k) == {i \in Slot : FindsFree(k, i)}
           rows(k) == [i \in Slot |->
                         IF i \in free(k) THEN {Inserted(arg[i])}
                         ELSE Triggered(Merged(db[k[i]], arg[i]))]
           old(k) == [i \in Slot |->
                        IF i \in free(k) THEN Uncounted(arg[i]) ELSE db[k[i]]]
<1>1. PICK k \in InsertKeys :
         a \in IF free(k) = Slot \/ (Upsert(Table) /\ IsInjective(k))
              THEN {Stored(Slot, k, row, old(k)) : row \in OneEach(Slot, rows(k))}
              ELSE IF DoNothing(Table)
              THEN {Stored(free(k), k, row, old(k)) : row \in OneEach(free(k), rows(k))}
              ELSE {Refused}
  BY DEF InsertAnswers
<1>2. /\ DOMAIN k = Slot /\ \A i \in Slot : k[i] \in Key
      /\ KeyByStorage => IsInjective(k) /\ \A i \in Slot : k[i] \notin used
      /\ ~KeyByStorage => \A i \in Slot : k[i] = slice[i].key
  <2>1. CASE KeyByStorage
    BY <2>1 DEF InsertKeys
  <2>2. CASE ~KeyByStorage
    <3>1. k = [i \in Slot |-> slice[i].key]
      BY <2>2 DEF InsertKeys
    <3>2. \A i \in Slot : slice[i].key \in Key
      BY DEF TypeOK, Record
    <3> QED
      BY <2>2, <3>1, <3>2
  <2> QED
    BY <2>1, <2>2
<1>3. \A i \in Slot : slice[i] \in Record /\ slice[i].mut \in Change
  BY DEF TypeOK, Record
<1>4. free(k) \subseteq Slot
  OBVIOUS
<1>5. \A i, j \in free(k) : i # j => k[i] # k[j]
  <2> SUFFICES ASSUME NEW i \in free(k), NEW j \in free(k), i < j PROVE k[i] # k[j]
    <3>1. \A i, j \in Slot : i \in Nat /\ j \in Nat
      BY BatchAssumption DEF Slot
    <3>2. \A i, j \in Slot : i # j => i < j \/ j < i
      BY <3>1
    <3> QED
      BY <1>4, <3>2
  <2>1. i \in 1 .. j - 1
    BY BatchAssumption DEF Slot
  <2>2. \A l \in 1 .. j - 1 : k[l] # k[j]
    BY DEF FindsFree
  <2> QED
    BY <2>1, <2>2
<1>6. KeyByStorage => free(k) = Slot
  <2> SUFFICES ASSUME KeyByStorage, NEW i \in Slot PROVE FindsFree(k, i)
    OBVIOUS
  <2>1. db[k[i]] = NoRow
    BY <1>2 DEF KeyInv
  <2>2. \A j \in 1 .. i - 1 : k[j] # k[i]
    <3> SUFFICES ASSUME NEW j \in 1 .. i - 1 PROVE k[j] # k[i]
      OBVIOUS
    <3>1. j \in Slot /\ j # i
      BY BatchAssumption DEF Slot
    <3> QED
      BY <1>2, <3>1 DEF IsInjective
  <2> QED
    BY <2>1, <2>2 DEF FindsFree
<1>7. ASSUME NEW i \in Slot, i \in free(k) \/ (Upsert(Table) /\ db[k[i]] # NoRow),
             NEW new \in rows(k)[i]
      PROVE  /\ new \in Row
             /\ Diff(new, old(k)[i]) = Taken("InsertMulti", slice[i].mut)
             /\ \A f \in Written \cap InsertValue(Table) : new[f] = slice[i].data[f]
  <2>1. arg[i] = InsertRow(slice[i])
    OBVIOUS
  <2>2. CASE i \in free(k)
    <3>1. new = Inserted(InsertRow(slice[i])) /\ old(k)[i] = Uncounted(InsertRow(slice[i]))
      BY <1>7, <2>2
    <3> HIDE DEF arg, free, rows, old
    <3> QED
      BY <1>3, <3>1, InsertedRow
  <2>3. CASE i \notin free(k)
    <3>1. /\ new \in Triggered(Merged(db[k[i]], InsertRow(slice[i])))
          /\ old(k)[i] = db[k[i]]
      BY <1>7, <2>3
    <3>2. db[k[i]] \in Row
      BY <1>2, <1>7, <2>3 DEF TypeOK
    <3>3. Counter = {}
      BY <1>7, <2>3 DEF HasInsertMulti
    <3> HIDE DEF arg, free, rows, old
    <3> QED
      BY <1>3, <3>1, <3>2, <3>3, MergedRow
  <2> QED
    BY <2>2, <2>3
<1> HIDE DEF rows, old
<1>8. ASSUME NEW S \in SUBSET Slot,
             \A i \in S : i \in free(k) \/ (Upsert(Table) /\ db[k[i]] # NoRow),
             \A i, j \in S : i # j => k[i] # k[j],
             NoneSkipped => S = Slot,
             NEW row \in OneEach(S, rows(k)), a = Stored(S, k, row, old(k))
      PROVE  AnswerInv("InsertMulti", a)
  <2>1. \A i \in S : row[i] \in rows(k)[i]
    BY DEF OneEach
  <2>2. \A i \in S : /\ k[i] \in Key /\ row[i] \in Row
                     /\ slice[i].mut \in Change
                     /\ Diff(row[i], old(k)[i]) = Taken("InsertMulti", slice[i].mut)
                     /\ \A f \in Written \cap InsertValue(Table) : row[i][f] = slice[i].data[f]
    BY <1>2, <1>3, <1>7, <1>8, <2>1
  <2>3. ~KeyByStorage => \A i \in S : k[i] = slice[i].key
    BY <1>2
  <2> HIDE DEF free
  <2>4. MadeOfAll("InsertMulti", S, k, row, old(k))
    BY <1>8, <2>2, <2>3 DEF MadeOfAll
  <2> QED
    BY <1>8, <2>4, StoredRows
<1>9. CASE free(k) = Slot \/ (Upsert(Table) /\ IsInjective(k))
  <2>1. PICK row \in OneEach(Slot, rows(k)) : a = Stored(Slot, k, row, old(k))
    BY <1>1, <1>9
  <2>2. \A i, j \in Slot : i # j => k[i] # k[j]
    BY <1>2, <1>5, <1>9 DEF IsInjective
  <2>3. \A i \in Slot : i \in free(k) \/ (Upsert(Table) /\ db[k[i]] # NoRow)
    <3> SUFFICES ASSUME NEW i \in Slot, i \notin free(k) PROVE db[k[i]] # NoRow
      BY <1>9
    <3>1. \A j \in 1 .. i - 1 : j \in Slot /\ j # i
      BY BatchAssumption DEF Slot
    <3>2. \A j \in 1 .. i - 1 : k[j] # k[i]
      BY <2>2, <3>1
    <3> QED
      BY <3>2 DEF FindsFree
  <2> QED
    BY <1>8, <2>1, <2>2, <2>3
<1>10. CASE ~(free(k) = Slot \/ (Upsert(Table) /\ IsInjective(k))) /\ DoNothing(Table)
  <2>1. PICK row \in OneEach(free(k), rows(k)) : a = Stored(free(k), k, row, old(k))
    BY <1>1, <1>10
  <2>2. ~NoneSkipped
    BY <1>6, <1>10 DEF NoneSkipped
  <2> QED
    BY <1>4, <1>5, <1>8, <2>1, <2>2
<1>11. CASE ~(free(k) = Slot \/ (Upsert(Table) /\ IsInjective(k))) /\ ~DoNothing(Table)
  <2>1. a = Refused
    BY <1>1, <1>11
  <2> QED
    BY <2>1, RefusedRows DEF Op
<1> QED
  BY <1>9, <1>10, <1>11

LEMMA UpdateAnswersSound ==
    ASSUME TypeOK, NEW a \in UpdateAnswers
    PROVE  /\ AnswerInv("UpdateMulti", a)
           /\ \A n \in DOMAIN a.rows : db[a.rows[n].key] # NoRow
<1> DEFINE key == [i \in Slot |-> slice[i].key]
           old == [i \in Slot |-> db[key[i]]]
           found == {i \in Slot : old[i] # NoRow}
           rows == [i \in found |-> Triggered(Updated(old[i], UpdateRow(slice[i])))]
           one(T) == \A i \in found : \E j \in T :
                        /\ key[j] = key[i]
                        /\ \A l \in T : key[l] = key[i] => l = j
<1>1. PICK S \in SUBSET found : /\ one(S)
                               /\ \E row \in OneEach(S, rows) : a = Stored(S, key, row, old)
  <2>1. a \in UNION {{Stored(T, key, row, old) : row \in OneEach(T, rows)} :
                        T \in {U \in SUBSET found : one(U)}}
    BY DEF UpdateAnswers
  <2> HIDE DEF key, old, found, rows, one
  <2> QED
    BY <2>1
<1>2. PICK row \in OneEach(S, rows) : a = Stored(S, key, row, old)
  BY <1>1
<1>3. S \in SUBSET Slot /\ \A i \in S : i \in found /\ i \in Slot
  OBVIOUS
<1>4. \A i \in Slot : key[i] = slice[i].key /\ old[i] = db[slice[i].key]
  OBVIOUS
<1>5. \A i, j \in S : i # j => key[i] # key[j]
  BY <1>1, <1>3
<1>6. ASSUME NEW i \in S
      PROVE  /\ key[i] \in Key /\ row[i] \in Row /\ slice[i].mut \in Change
             /\ Diff(row[i], old[i]) = Taken("UpdateMulti", slice[i].mut)
             /\ \A f \in Written : row[i][f] = slice[i].data[f]
  <2>1. slice[i] \in Record /\ slice[i].key \in Key /\ slice[i].mut \in Change
    BY <1>3 DEF TypeOK, Record
  <2>2. old[i] \in Row
    BY <1>3, <1>4, <2>1 DEF TypeOK
  <2>3. row[i] \in Triggered(Updated(old[i], UpdateRow(slice[i])))
    BY <1>3 DEF OneEach
  <2> HIDE DEF key, old, found, rows
  <2> QED
    BY <1>3, <1>4, <2>1, <2>2, <2>3, UpdatedRow
<1>7. \A i \in S : db[key[i]] # NoRow
  BY <1>3
<1> HIDE DEF key, old, found, rows
<1>8. \A i \in S : key[i] = slice[i].key
  BY <1>3, <1>4
<1>9. MadeOfAll("UpdateMulti", S, key, row, old)
  BY <1>5, <1>6, <1>8 DEF MadeOfAll
<1>10. AnswerInv("UpdateMulti", a)
  BY <1>2, <1>3, <1>9, StoredRows
<1>11. \A n \in DOMAIN a.rows : \E i \in S : a.rows[n].key = key[i]
  BY <1>2, <1>3, <1>9, StoredRows
<1> QED
  BY <1>7, <1>10, <1>11

----------------------------------------------------------------------------
(* Types of the records after an answer. *)

LEMMA ScanType ==
    ASSUME NEW r \in Record, NEW cols, NEW row \in Returned
    PROVE  Scan(r, cols, row) \in Record /\ Scan(r, cols, row).mut = r.mut
BY DEF Scan, Record, Returned, Row

LEMMA ScannedType ==
    ASSUME slice \in [Slot -> Record], NEW op, NEW rows \in Seq(Returned),
           NEW n \in 0 .. Len(rows), NEW i \in Slot
    PROVE  /\ Scanned(op, rows, n)[i] \in Record
           /\ Scanned(op, rows, n)[i].mut = slice[i].mut
           /\ Reset(Scanned(op, rows, n)[i]) \in Record
<1>1. Scanned(op, rows, n)[i] =
         IF i <= n THEN Scan(slice[i], Results(op), rows[i]) ELSE slice[i]
  BY DEF Scanned
<1>2. i <= n => rows[i] \in Returned
  BY BatchAssumption DEF Slot
<1>3. Scanned(op, rows, n)[i] \in Record /\ Scanned(op, rows, n)[i].mut = slice[i].mut
  BY <1>1, <1>2, ScanType
<1>4. \A r \in Record : Reset(r) \in Record
  BY BlankTypes DEF Reset, Record
<1> QED
  BY <1>3, <1>4

\* The row an answer has for a record.
LEMMA OwnRow ==
    ASSUME NEW a, a.rows \in Seq(Returned), NEW i, Own(a, i) # {},
           NEW r, r = CHOOSE row \in Own(a, i) : TRUE
    PROVE  r \in Returned /\ r.of = i /\ \E n \in DOMAIN a.rows : r = a.rows[n]
<1>1. r \in Own(a, i)
  OBVIOUS
<1>2. PICK n \in DOMAIN a.rows : r = a.rows[n] /\ a.rows[n].of = i
  BY <1>1 DEF Own
<1>3. a.rows[n] \in Returned
  OBVIOUS
<1> QED
  BY <1>2, <1>3

LEMMA LearnedType ==
    ASSUME TypeOK, NEW a, a.rows \in Seq(Returned), NEW i \in Slot, NEW cols
    PROVE  Learned(i, a, cols) \in [Written -> Int] /\ Settled(i, a) \in Change
<1> DEFINE r == CHOOSE row \in Own(a, i) : TRUE
<1>1. known[i] \in [Written -> Int] /\ owed[i] \in Change
  BY DEF TypeOK
<1>2. Own(a, i) # {} => r \in Returned
  BY OwnRow
<1> HIDE DEF r
<1>3. Own(a, i) # {} => /\ \A f \in Written : r.row[f] \in Int
                       /\ r.effect \in Change
  BY <1>2, Groups DEF Returned, Row
<1>4. Learned(i, a, cols) \in [Written -> Int]
  BY <1>1, <1>3 DEF Learned, r
<1>5. Settled(i, a) \in Change
  <2>1. ASSUME NEW new \in Change, NEW old \in Change PROVE Diff(new, old) \in Change
    BY DEF Diff, Change
  <2> QED
    BY <1>1, <1>3, <2>1 DEF Settled, r
<1> QED
  BY <1>4, <1>5

LEMMA ReadType ==
    ASSUME TypeOK, call.reply.rows \in Seq(Returned),
           NEW n \in 0 .. Len(call.reply.rows), Read(n)
    PROVE  /\ slice' \in [Slot -> Record]
           /\ known' \in [Slot -> [Written -> Int]]
           /\ owed' \in [Slot -> Change]
<1>1. slice \in [Slot -> Record] /\ known \in [Slot -> [Written -> Int]]
  BY DEF TypeOK
<1>2. \A i \in Slot : Scanned(call.op, call.reply.rows, n)[i] \in Record
  BY <1>1, ScannedType
<1>3. slice' \in [Slot -> Record]
  BY <1>2 DEF Read, Scanned
<1>4. \A i \in Slot : Learned(i, call.reply, Results(call.op)) \in [Written -> Int]
  BY LearnedType
<1>5. known' \in [Slot -> [Written -> Int]]
  BY <1>1, <1>4 DEF Read
<1> QED
  BY <1>3, <1>5 DEF Read, TypeOK

LEMMA ReturnType ==
    ASSUME TypeInv, Return
    PROVE  /\ slice' \in [Slot -> Record]
           /\ known' \in [Slot -> [Written -> Int]]
           /\ owed' \in [Slot -> Change]
<1> DEFINE a == call.reply
           n == IF Results(call.op) = {} THEN 0 ELSE Len(a.rows)
<1>1. /\ TypeOK /\ slice \in [Slot -> Record] /\ a.rows \in Seq(Returned)
      /\ n \in 0 .. Len(a.rows)
  <2>1. TypeOK /\ slice \in [Slot -> Record] /\ a.rows \in Seq(Returned)
    BY DEF Return, TypeInv, TypeOK, CallInv, AnswerInv
  <2>2. Len(a.rows) \in Nat
    BY <2>1
  <2> QED
    BY <2>1, <2>2
<1>2. CASE Resets(call.op, a)
  <2>1. /\ slice' = [i \in Slot |-> Reset(Scanned(call.op, a.rows, n)[i])]
        /\ known' = [i \in Slot |-> Learned(i, a, Written)]
        /\ owed' = [i \in Slot |-> Settled(i, a)]
    BY <1>2 DEF Return
  <2> HIDE DEF n
  <2>2. \A i \in Slot : Reset(Scanned(call.op, a.rows, n)[i]) \in Record
    BY <1>1, ScannedType
  <2>3. \A i \in Slot : Learned(i, a, Written) \in [Written -> Int] /\ Settled(i, a) \in Change
    BY <1>1, LearnedType
  <2> QED
    BY <2>1, <2>2, <2>3
<1>3. CASE ~Resets(call.op, a)
  <2>1. Read(n)
    BY <1>3 DEF Return
  <2> HIDE DEF n
  <2> QED
    BY <1>1, <2>1, ReadType
<1> QED
  BY <1>2, <1>3

LEMMA FailType ==
    ASSUME TypeInv, Fail
    PROVE  /\ slice' \in [Slot -> Record]
           /\ known' \in [Slot -> [Written -> Int]]
           /\ owed' \in [Slot -> Change]
<1>1. CASE UNCHANGED <<slice, known, owed>>
  BY <1>1 DEF TypeInv, TypeOK
<1>2. ASSUME call.phase = "answered", NEW n \in 1 .. Len(call.reply.rows), Read(n)
      PROVE  /\ slice' \in [Slot -> Record]
             /\ known' \in [Slot -> [Written -> Int]]
             /\ owed' \in [Slot -> Change]
  <2>1. TypeOK /\ call.reply.rows \in Seq(Returned)
    BY <1>2 DEF TypeInv, CallInv, AnswerInv
  <2>2. n \in 0 .. Len(call.reply.rows)
    BY <2>1
  <2> QED
    BY <1>2, <2>1, <2>2, ReadType
<1> QED
  BY <1>1, <1>2 DEF Fail

----------------------------------------------------------------------------
(* The invariant holds. *)

LEMMA TypeInit == Init => TypeInv
<1> SUFFICES ASSUME Init PROVE TypeInv
  OBVIOUS
<1>1. PICK k \in Key : slice = [i \in Slot |-> Fresh(k, BlankRow)]
  BY DEF Init
<1>2. slice \in [Slot -> Record]
  BY <1>1, FreshType, BlankTypes
<1>3. known \in [Slot -> [Written -> Int]] /\ owed \in [Slot -> Change]
  BY BlankTypes DEF Init
<1>4. call.phase = "idle"
  BY DEF Init, Idle
<1>5. TypeOK
  BY <1>2, <1>3, <1>4, BatchAssumption DEF Init, TypeOK
<1> QED
  BY <1>4, <1>5 DEF TypeInv, CallInv, KeyInv, Init

LEMMA PlaceType ==
    ASSUME TypeInv, NEW i \in Slot, NEW k \in Key, NEW data \in Row, Place(i, k, data)
    PROVE  TypeInv'
<1>1. /\ TypeOK /\ KeyInv /\ call.phase = "idle" /\ UNCHANGED <<storage, call, calls>>
      /\ slice' = [slice EXCEPT ![i] = Fresh(k, data)]
      /\ known' = [known EXCEPT ![i] = [f \in Written |-> data[f]]]
      /\ owed' = [owed EXCEPT ![i] = NoChange]
  BY DEF Place, CanEdit, TypeInv
<1>2. /\ Fresh(k, data) \in Record /\ [f \in Written |-> data[f]] \in [Written -> Int]
      /\ NoChange \in Change
  BY FreshType, BlankTypes, Groups DEF Row
<1> QED
  BY <1>1, <1>2 DEF TypeInv, TypeOK, CallInv, KeyInv, storage

LEMMA SetType ==
    ASSUME TypeInv, NEW i \in Slot, NEW f \in Field, NEW v \in Value, Set(i, f, v)
    PROVE  TypeInv'
<1>1. /\ TypeOK /\ KeyInv /\ call.phase = "idle"
      /\ UNCHANGED <<storage, call, calls, known, owed>>
      /\ slice' = [slice EXCEPT ![i] = SetColumn(slice[i], f, v)]
  BY DEF Set, CanEdit, TypeInv
<1>2. SetColumn(slice[i], f, v) \in Record
  <2>1. slice[i] \in Record /\ v \in Int
    BY <1>1, ValueAssumption DEF TypeOK
  <2> QED
    BY <2>1 DEF SetColumn, Record, Row
<1> QED
  BY <1>1, <1>2 DEF TypeInv, TypeOK, CallInv, KeyInv, storage

LEMMA AddType ==
    ASSUME TypeInv, NEW i \in Slot, NEW m \in Counter, NEW x \in Delta, Add(i, m, x)
    PROVE  TypeInv'
<1>1. /\ TypeOK /\ KeyInv /\ call.phase = "idle"
      /\ UNCHANGED <<storage, call, calls, known>>
      /\ slice' = [slice EXCEPT ![i].mut[m] = slice[i].mut[m] + x]
      /\ owed' = [owed EXCEPT ![i][m] = owed[i][m] + x]
  BY DEF Add, CanEdit, TypeInv
<1>2. slice[i] \in Record /\ owed[i] \in Change /\ x \in Int
  BY <1>1, ValueAssumption DEF TypeOK
<1>3. /\ [slice[i] EXCEPT !.mut[m] = slice[i].mut[m] + x] \in Record
      /\ [owed[i] EXCEPT ![m] = owed[i][m] + x] \in Change
  BY <1>2 DEF Record, Change
<1>4. /\ slice' = [slice EXCEPT ![i] = [slice[i] EXCEPT !.mut[m] = slice[i].mut[m] + x]]
      /\ owed' = [owed EXCEPT ![i] = [owed[i] EXCEPT ![m] = owed[i][m] + x]]
  BY <1>1
<1>5. slice' \in [Slot -> Record] /\ owed' \in [Slot -> Change]
  BY <1>1, <1>3, <1>4 DEF TypeOK
<1> QED
  BY <1>1, <1>5 DEF TypeInv, TypeOK, CallInv, KeyInv, storage

LEMMA EditType ==
    ASSUME TypeInv, NEW i \in Slot, Edit(i)
    PROVE  TypeInv'
<1>1. ASSUME NEW k \in Key, Place(i, k, BlankRow) PROVE TypeInv'
  BY <1>1, PlaceType, BlankTypes
<1>2. ASSUME NEW k \in Key, db[k] # NoRow, Place(i, k, db[k]) PROVE TypeInv'
  <2>1. db[k] \in Row
    BY <1>2 DEF TypeInv, TypeOK
  <2> QED
    BY <1>2, <2>1, PlaceType
<1> QED
  BY <1>1, <1>2, SetType, AddType DEF Edit

LEMMA CallType ==
    ASSUME TypeInv, InsertMulti \/ UpdateMulti \/ DeleteMulti
    PROVE  TypeInv'
<1>1. /\ TypeOK /\ KeyInv /\ UNCHANGED <<storage, slice, known, owed>>
      /\ calls < MaxCalls /\ calls' = calls + 1
      /\ call'.phase = "sent" /\ call'.op \in Op
      /\ call'.op = "InsertMulti" => HasInsertMulti
  BY DEF InsertMulti, UpdateMulti, DeleteMulti, Call, TypeInv, Op
<1>2. calls' \in 0 .. MaxCalls
  BY <1>1, BatchAssumption DEF TypeOK
<1> QED
  BY <1>1, <1>2 DEF TypeInv, TypeOK, CallInv, KeyInv, storage

LEMMA ExecuteType ==
    ASSUME TypeInv, Execute
    PROVE  TypeInv'
<1>1. PICK a \in Answers(call.op) :
         /\ call' = [phase |-> "answered", op |-> call.op, reply |-> a]
         /\ db' = [k \in Key |-> RowAfter(k, call.op, a)]
         /\ used' = IF call.op = "InsertMulti" /\ KeyByStorage
                    THEN used \cup {a.rows[n].key : n \in DOMAIN a.rows}
                    ELSE used
  BY DEF Execute
<1>2. /\ TypeOK /\ KeyInv /\ call.op \in Op
      /\ call.op = "InsertMulti" => HasInsertMulti
      /\ UNCHANGED <<slice, calls, foreign, known, owed>>
  BY DEF Execute, TypeInv, CallInv
<1>3. AnswerInv(call.op, a) /\ (call.op = "UpdateMulti" =>
                                  \A n \in DOMAIN a.rows : db[a.rows[n].key] # NoRow)
  <2>1. CASE call.op = "InsertMulti"
    BY <1>1, <1>2, <2>1, InsertAnswersSound DEF Answers
  <2>2. CASE call.op = "UpdateMulti"
    BY <1>1, <1>2, <2>2, UpdateAnswersSound DEF Answers
  <2>3. CASE call.op = "DeleteMulti"
    <3>1. a = [status |-> "done", rows |-> <<>>]
      BY <1>1, <2>3 DEF Answers
    <3>2. Len(<<>>) = 0 /\ DOMAIN <<>> = {} /\ <<>> \in Seq(Returned) /\ Size \in Nat \ {0}
      BY BatchAssumption
    <3> QED
      BY <2>3, <3>1, <3>2 DEF AnswerInv
  <2> QED
    BY <1>2, <2>1, <2>2, <2>3 DEF Op
<1>4. a.rows \in Seq(Returned)
      /\ \A n \in DOMAIN a.rows : /\ a.rows[n] \in Returned
                                  /\ a.rows[n].of \in Slot /\ a.rows[n].key \in Key
                                  /\ a.rows[n].row \in Row
  <2>1. a.rows \in Seq(Returned)
    BY <1>3 DEF AnswerInv
  <2>2. \A n \in DOMAIN a.rows : a.rows[n] \in Returned
    BY <2>1
  <2> QED
    BY <2>1, <2>2 DEF Returned
<1>5. ASSUME NEW k \in Key
      PROVE  /\ db'[k] \in Row \cup {NoRow}
             /\ db'[k] # NoRow => db[k] # NoRow \/ \E n \in DOMAIN a.rows : a.rows[n].key = k
  <2>1. db'[k] = RowAfter(k, call.op, a) /\ db[k] \in Row \cup {NoRow}
    BY <1>1, <1>2 DEF TypeOK
  <2>2. CASE \E n \in DOMAIN a.rows : a.rows[n].key = k
    <3>1. (CHOOSE n \in DOMAIN a.rows : a.rows[n].key = k) \in DOMAIN a.rows
      BY <2>2
    <3> QED
      BY <1>4, <2>1, <2>2, <3>1 DEF RowAfter
  <2>3. CASE ~ \E n \in DOMAIN a.rows : a.rows[n].key = k
    BY <2>1, <2>3 DEF RowAfter
  <2> QED
    BY <2>2, <2>3
<1>6. used' \subseteq Key
  BY <1>1, <1>2, <1>4 DEF TypeOK
<1>7. KeyInv'
  <2> SUFFICES ASSUME KeyByStorage, NEW k \in Key, db'[k] # NoRow PROVE k \in used'
    BY DEF KeyInv
  <2>1. CASE db[k] # NoRow
    BY <1>1, <1>2, <2>1 DEF KeyInv
  <2>2. CASE db[k] = NoRow
    <3>1. PICK n \in DOMAIN a.rows : a.rows[n].key = k
      BY <1>5, <2>2
    <3>2. call.op = "InsertMulti"
      <4>1. call.op # "UpdateMulti"
        BY <1>3, <2>2, <3>1
      <4>2. call.op # "DeleteMulti"
        BY <1>3, <3>1 DEF AnswerInv
      <4> QED
        BY <1>2, <4>1, <4>2 DEF Op
    <3> QED
      BY <1>1, <3>1, <3>2
  <2> QED
    BY <2>1, <2>2
<1>8. CallInv'
  <2>1. call'.phase = "answered" /\ call'.op = call.op /\ call'.reply = a
    BY <1>1
  <2>2. AnswerInv(call.op, call.reply)'
    BY <1>1, <1>2, <1>3, <2>1 DEF AnswerInv, MadeOf
  <2> QED
    BY <1>2, <2>1, <2>2 DEF CallInv
<1>9. TypeOK'
  <2>1. db' \in [Key -> Row \cup {NoRow}]
    BY <1>1, <1>5
  <2>2. call'.phase = "answered" /\ call'.reply = a /\ Len(a.rows) <= Size
    BY <1>1, <1>3 DEF AnswerInv
  <2> QED
    BY <1>2, <1>4, <1>6, <2>1, <2>2 DEF TypeOK
<1> QED
  BY <1>7, <1>8, <1>9 DEF TypeInv

LEMMA ForeignType ==
    ASSUME TypeInv, NEW k \in Key, Foreign(k)
    PROVE  TypeInv'
<1>1. /\ TypeOK /\ KeyInv /\ CallInv /\ UNCHANGED <<used, slice, call, calls, known, owed>>
      /\ foreign < MaxForeign /\ foreign' = foreign + 1
      /\ \/ db[k] # NoRow /\ db' = [db EXCEPT ![k] = NoRow]
         \/ /\ KeyByStorage => k \in used
            /\ db' = [db EXCEPT ![k] = Default]
  BY DEF Foreign, TypeInv
<1>2. foreign' \in 0 .. MaxForeign
  BY <1>1, BatchAssumption DEF TypeOK
<1>3. db' \in [Key -> Row \cup {NoRow}] /\ KeyInv'
  BY <1>1, ValueAssumption DEF TypeOK, KeyInv
<1>4. CallInv'
  BY <1>1 DEF CallInv, AnswerInv, MadeOf
<1> QED
  BY <1>1, <1>2, <1>3, <1>4 DEF TypeInv, TypeOK

LEMMA EndType ==
    ASSUME TypeInv, Return \/ Fail
    PROVE  TypeInv'
<1>1. /\ slice' \in [Slot -> Record] /\ known' \in [Slot -> [Written -> Int]]
      /\ owed' \in [Slot -> Change]
  BY ReturnType, FailType
<1>2. UNCHANGED <<storage, calls>> /\ call'.phase = "idle"
  BY DEF Return, Fail, Idle
<1> QED
  BY <1>1, <1>2 DEF TypeInv, TypeOK, CallInv, KeyInv, storage

LEMMA TypeNext ==
    ASSUME TypeInv, [Next]_vars
    PROVE  TypeInv'
<1>1. CASE UNCHANGED vars
  <2>1. CallInv'
    BY <1>1 DEF vars, TypeInv, CallInv, AnswerInv, MadeOf
  <2> QED
    BY <1>1, <2>1 DEF vars, TypeInv, TypeOK, KeyInv
<1> QED
  BY <1>1, EditType, CallType, ExecuteType, EndType, ForeignType DEF Next

LEMMA TypeInvCorrect == Spec => []TypeInv
<1>1. Init => TypeInv
  BY TypeInit
<1>2. TypeInv /\ [Next]_vars => TypeInv'
  BY TypeNext
<1> QED
  BY <1>1, <1>2, PTL DEF Spec

\* Every variable keeps its type, and an answer never has more rows than the
\* slice has records.
THEOREM TypeCorrect == Spec => []TypeOK
<1>1. TypeInv => TypeOK
  BY DEF TypeInv
<1> QED
  BY <1>1, TypeInvCorrect, PTL

----------------------------------------------------------------------------
(* Counters. *)

\* What BatchCounters needs of the declaration: InsertMulti, which resets every
\* record, writes all the counters, and none of the records is skipped.
CountsStored ==
    HasInsertMulti /\ Counter # {} =>
        Counter \subseteq InsertValue(Table) /\ NoneSkipped

\* A batch then takes all the increments of a record it has a row for.
LEMMA AllTaken ==
    ASSUME CountsStored, NEW op \in {"InsertMulti", "UpdateMulti"},
           op = "InsertMulti" => HasInsertMulti, NEW change \in Change
    PROVE  Taken(op, change) = change
BY DEF CountsStored, Taken, Change

\* As many rows as records: each record has its own row, and that in its place.
LEMMA OwnInPlace ==
    ASSUME NEW op, NEW a, AnswerInv(op, a), Len(a.rows) = Size, NEW i \in Slot
    PROVE  /\ Own(a, i) = {a.rows[i]} /\ a.rows[i] \in Returned
           /\ i \in DOMAIN a.rows /\ MadeOf(op, a.rows[i]) /\ a.rows[i].of = i
<1>1. /\ a.rows \in Seq(Returned) /\ \A n \in Slot : a.rows[n].of = n
      /\ \A n \in DOMAIN a.rows : MadeOf(op, a.rows[n])
  BY DEF AnswerInv
<1>2. DOMAIN a.rows = Slot
  BY <1>1 DEF Slot
<1>3. {l \in DOMAIN a.rows : a.rows[l].of = i} = {i}
  BY <1>1, <1>2
<1>4. Own(a, i) = {a.rows[i]}
  BY <1>3 DEF Own
<1> QED
  BY <1>1, <1>2, <1>4

\* A batch that resets its records has a row for each, or returns nothing and
\* then updates no counter, or is an INSERT.
LEMMA ResetRows ==
    ASSUME TypeInv, Return, Resets(call.op, call.reply)
    PROVE  /\ call.op \in {"InsertMulti", "UpdateMulti"} /\ AnswerInv(call.op, call.reply)
           /\ call.reply.status = "done"
           /\ call.op = "InsertMulti" => HasInsertMulti
           /\ call.op = "InsertMulti" /\ NoneSkipped => Len(call.reply.rows) = Size
           /\ \/ Len(call.reply.rows) = Size
              \/ Results(call.op) = {}
              \/ call.op = "InsertMulti" /\ DoNothing(Table)
<1>1. /\ call.op \in Op /\ AnswerInv(call.op, call.reply)
      /\ call.op = "InsertMulti" => HasInsertMulti
  BY DEF TypeInv, CallInv, Return
<1>2. call.reply.status = "done" /\ ~Short(call.op, call.reply) /\ call.op # "DeleteMulti"
  BY DEF Resets
<1>3. Len(call.reply.rows) \in Nat /\ Len(call.reply.rows) <= Size /\ Size \in Nat
  BY <1>1, BatchAssumption DEF AnswerInv
<1> QED
  BY <1>1, <1>2, <1>3 DEF Short, Op, AnswerInv

LEMMA CountersInit == Init => BatchCounters
BY DEF Init, BatchCounters, Fresh

LEMMA CountersEdit ==
    ASSUME TypeOK, BatchCounters, NEW i \in Slot, Edit(i)
    PROVE  BatchCounters'
<1>1. slice \in [Slot -> Record] /\ owed \in [Slot -> Change]
  BY DEF TypeOK
<1>2. ASSUME NEW k \in Key, NEW data, Place(i, k, data) PROVE BatchCounters'
  BY <1>1, <1>2 DEF Place, BatchCounters, Fresh
<1>3. ASSUME NEW f \in Field, NEW v \in Value, Set(i, f, v) PROVE BatchCounters'
  <2>1. /\ slice' = [slice EXCEPT ![i] = SetColumn(slice[i], f, v)]
        /\ owed' = owed /\ slice[i] \in Record
    BY <1>1, <1>3 DEF Set
  <2>2. SetColumn(slice[i], f, v).mut = slice[i].mut
    BY <2>1 DEF SetColumn, Record
  <2> QED
    BY <1>1, <2>1, <2>2 DEF BatchCounters
<1>4. ASSUME NEW m \in Counter, NEW x \in Delta, Add(i, m, x) PROVE BatchCounters'
  <2>1. /\ slice' = [slice EXCEPT ![i] = [slice[i] EXCEPT !.mut = [slice[i].mut EXCEPT ![m] = slice[i].mut[m] + x]]]
        /\ owed' = [owed EXCEPT ![i] = [owed[i] EXCEPT ![m] = owed[i][m] + x]]
        /\ slice[i] \in Record
    BY <1>1, <1>4 DEF Add
  <2>2. \A j \in Slot : slice'[j].mut = owed'[j]
    BY <1>1, <2>1 DEF BatchCounters, Record
  <2> QED
    BY <2>2 DEF BatchCounters
<1> QED
  BY <1>2, <1>3, <1>4 DEF Edit

LEMMA CountersRead ==
    ASSUME TypeInv, BatchCounters, call.phase = "answered",
           NEW n \in 0 .. Len(call.reply.rows), Read(n)
    PROVE  BatchCounters'
<1>1. slice \in [Slot -> Record] /\ call.reply.rows \in Seq(Returned)
  BY DEF TypeInv, TypeOK, CallInv, AnswerInv
<1>2. slice' = Scanned(call.op, call.reply.rows, n) /\ owed' = owed
  BY DEF Read
<1>3. \A i \in Slot : Scanned(call.op, call.reply.rows, n)[i].mut = slice[i].mut
  BY <1>1, ScannedType
<1> QED
  BY <1>2, <1>3 DEF BatchCounters

LEMMA CountersReset ==
    ASSUME CountsStored, TypeInv, BatchCounters, Return,
           Resets(call.op, call.reply)
    PROVE  BatchCounters'
<1> DEFINE a == call.reply
           n == IF Results(call.op) = {} THEN 0 ELSE Len(a.rows)
<1>1. slice' = [i \in Slot |-> Reset(Scanned(call.op, a.rows, n)[i])]
      /\ owed' = [i \in Slot |-> Settled(i, a)]
  BY DEF Return
<1>2. /\ AnswerInv(call.op, a) /\ a.rows \in Seq(Returned)
      /\ \A l \in DOMAIN a.rows : MadeOf(call.op, a.rows[l])
  BY ResetRows DEF AnswerInv
<1>3. slice \in [Slot -> Record] /\ owed \in [Slot -> Change]
  BY DEF TypeInv, TypeOK
<1>4. n \in 0 .. Len(a.rows)
  <2>1. Len(a.rows) \in Nat
    BY <1>2
  <2> QED
    BY <2>1
<1> HIDE DEF n, a
<1>5. ASSUME NEW i \in Slot PROVE slice'[i].mut = NoChange
  <2>1. Scanned(call.op, a.rows, n)[i] \in Record
    BY <1>2, <1>3, <1>4, ScannedType
  <2>2. slice'[i] = Reset(Scanned(call.op, a.rows, n)[i])
    BY <1>1
  <2> QED
    BY <2>1, <2>2 DEF Reset, Record
<1>6. ASSUME NEW i \in Slot PROVE owed'[i] = NoChange
  <2>1. owed'[i] = Settled(i, a) /\ slice[i].mut = owed[i] /\ owed[i] \in [Counter -> Int]
    BY <1>1, <1>3 DEF BatchCounters, Change
  <2>2. CASE Own(a, i) # {}
    <3> DEFINE r == CHOOSE row \in Own(a, i) : TRUE
    <3>1. r.of = i /\ \E l \in DOMAIN a.rows : r = a.rows[l]
      BY <1>2, <2>2, OwnRow
    <3>2. Settled(i, a) = Diff(owed[i], r.effect)
      BY <2>2 DEF Settled
    <3> HIDE DEF r
    <3>3. r.effect = Taken(call.op, owed[i])
      BY <1>2, <2>1, <3>1 DEF MadeOf
    <3>4. r.effect = owed[i]
      BY <1>3, <3>3, AllTaken, ResetRows DEF Change
    <3> QED
      BY <2>1, <3>2, <3>4 DEF Diff, NoChange
  <2>3. CASE Own(a, i) = {}
    <3>1. Len(a.rows) # Size
      <4> SUFFICES ASSUME Len(a.rows) = Size PROVE FALSE
        OBVIOUS
      <4>1. Own(a, i) = {a.rows[i]}
        BY <1>2, OwnInPlace
      <4> QED
        BY <2>3, <4>1
    <3>2. Counter = {}
      <4>1. CASE call.op = "InsertMulti"
        <5>1. HasInsertMulti /\ ~NoneSkipped
          BY <3>1, <4>1, ResetRows DEF a
        <5> QED
          BY <5>1 DEF CountsStored
      <4>2. CASE call.op = "UpdateMulti"
        <5>1. Results(call.op) = {}
          BY <3>1, <4>2, ResetRows DEF a
        <5> QED
          BY <4>2, <5>1, Groups DEF Results
      <4> QED
        BY <4>1, <4>2, ResetRows
    <3> QED
      BY <2>1, <2>3, <3>2 DEF Settled, NoChange
  <2> QED
    BY <2>2, <2>3
<1> QED
  BY <1>5, <1>6 DEF BatchCounters

LEMMA CountersNext ==
    ASSUME CountsStored, TypeInv, BatchCounters, [Next]_vars
    PROVE  BatchCounters'
<1>1. CASE UNCHANGED <<slice, owed>>
  BY <1>1 DEF BatchCounters
<1>2. ASSUME NEW i \in Slot, Edit(i) PROVE BatchCounters'
  BY <1>2, CountersEdit DEF TypeInv
<1>3. ASSUME Return PROVE BatchCounters'
  <2>1. CASE Resets(call.op, call.reply)
    BY <1>3, <2>1, CountersReset
  <2>2. CASE ~Resets(call.op, call.reply)
    <3> DEFINE n == IF Results(call.op) = {} THEN 0 ELSE Len(call.reply.rows)
    <3>1. Read(n) /\ call.phase = "answered" /\ call.reply.rows \in Seq(Returned)
      BY <1>3, <2>2 DEF Return, TypeInv, CallInv, AnswerInv
    <3>2. n \in 0 .. Len(call.reply.rows)
      <4>1. Len(call.reply.rows) \in Nat
        BY <3>1
      <4> QED
        BY <4>1
    <3> HIDE DEF n
    <3> QED
      BY <3>1, <3>2, CountersRead
  <2> QED
    BY <2>1, <2>2
<1>4. ASSUME Fail, ~UNCHANGED <<slice, owed>> PROVE BatchCounters'
  <2>1. PICK n \in 1 .. Len(call.reply.rows) : Read(n)
    BY <1>4 DEF Fail
  <2>2. call.phase = "answered" /\ call.reply.rows \in Seq(Returned)
    BY <1>4 DEF Fail, TypeInv, CallInv, AnswerInv
  <2>3. n \in 0 .. Len(call.reply.rows)
    BY <2>2
  <2> QED
    BY <2>1, <2>2, <2>3, CountersRead
<1>5. CASE UNCHANGED vars \/ InsertMulti \/ UpdateMulti \/ DeleteMulti \/ Execute
           \/ \E k \in Key : Foreign(k)
  <2>1. UNCHANGED <<slice, owed>>
    BY <1>5 DEF vars, InsertMulti, UpdateMulti, DeleteMulti, Call, Execute, Foreign
  <2> QED
    BY <1>1, <2>1
<1> QED
  BY <1>1, <1>2, <1>3, <1>4, <1>5 DEF Next

\* No increment is lost or written twice by a batch, of records counted on before
\* their INSERT too: whatever rows are missing or doubled and however far an
\* answer is read, a record's counters are what was asked for and not yet added
\* to its row by a call that succeeded.  The table is one whose INSERT writes its
\* counters and skips no record (CountsStored).
THEOREM CountersCorrect == CountsStored => (Spec => []BatchCounters)
<1> SUFFICES ASSUME CountsStored PROVE Spec => []BatchCounters
  OBVIOUS
<1>1. Init => BatchCounters
  BY CountersInit
<1>2. TypeInv /\ BatchCounters /\ [Next]_vars => BatchCounters'
  BY CountersNext
<1> QED
  BY <1>1, <1>2, TypeInvCorrect, PTL DEF Spec

----------------------------------------------------------------------------
(* Tracking. *)

\* What BatchTracking needs of the declaration.  A column that an UPDATE writes
\* is also written or read back by an INSERT.  An UPDATE returns a column, so
\* that a batch which misses a row is told from one that does not.  A DO NOTHING
\* skips no record.
Trackable ==
    /\ Written \cap Table.disableInsert = {}
    /\ UpdateResult(Table) # {}
    /\ NoneSkipped

LEMMA TrackingInit == Init => BatchTracking
<1> SUFFICES ASSUME Init PROVE BatchTracking
  OBVIOUS
<1>1. PICK k \in Key : slice = [i \in Slot |-> Fresh(k, BlankRow)]
  BY DEF Init
<1>2. known = [i \in Slot |-> [f \in Written |-> Blank]]
  BY DEF Init
<1> QED
  BY <1>1, <1>2, Groups DEF BatchTracking, Fresh, BlankRow

LEMMA TrackingEdit ==
    ASSUME TypeOK, BatchTracking, NEW i \in Slot, Edit(i)
    PROVE  BatchTracking'
<1>1. slice \in [Slot -> Record] /\ known \in [Slot -> [Written -> Int]]
  BY DEF TypeOK
<1>2. ASSUME NEW k \in Key, NEW data, Place(i, k, data) PROVE BatchTracking'
  <2>1. /\ slice' = [slice EXCEPT ![i] = Fresh(k, data)]
        /\ known' = [known EXCEPT ![i] = [f \in Written |-> data[f]]]
    BY <1>2 DEF Place
  <2>2. slice'[i].data = data /\ known'[i] = [f \in Written |-> data[f]]
    BY <1>1, <2>1 DEF Fresh
  <2>3. \A j \in Slot \ {i} : slice'[j] = slice[j] /\ known'[j] = known[j]
    BY <1>1, <2>1
  <2> QED
    BY <2>2, <2>3 DEF BatchTracking
<1>3. ASSUME NEW f \in Field, NEW v \in Value, Set(i, f, v) PROVE BatchTracking'
  <2>1. /\ slice' = [slice EXCEPT ![i] = SetColumn(slice[i], f, v)]
        /\ known' = known /\ slice[i] \in Record
    BY <1>1, <1>3 DEF Set
  <2>2. /\ slice'[i].mask = slice[i].mask \cup ({f} \cap Written)
        /\ \A g \in Field \ {f} : slice'[i].data[g] = slice[i].data[g]
    BY <1>1, <2>1 DEF SetColumn, Record, Row
  <2>3. \A j \in Slot \ {i} : slice'[j] = slice[j]
    BY <1>1, <2>1
  <2>4. ASSUME NEW j \in Slot, NEW g \in Written \ slice'[j].mask
        PROVE  slice'[j].data[g] = known'[j][g]
    <3>1. CASE j # i
      BY <2>1, <2>3, <2>4, <3>1 DEF BatchTracking
    <3>2. CASE j = i
      <4>1. g \in Written \ slice[i].mask /\ g # f /\ g \in Field
        BY <2>2, <2>4, <3>2, Groups
      <4> QED
        BY <2>1, <2>2, <3>2, <4>1 DEF BatchTracking
    <3> QED
      BY <3>1, <3>2
  <2> QED
    BY <2>4 DEF BatchTracking
<1>4. ASSUME NEW m \in Counter, NEW x \in Delta, Add(i, m, x) PROVE BatchTracking'
  <2>1. /\ slice' = [slice EXCEPT ![i].mut[m] = slice[i].mut[m] + x]
        /\ known' = known
    BY <1>4 DEF Add
  <2>2. \A j \in Slot : slice'[j].data = slice[j].data /\ slice'[j].mask = slice[j].mask
    BY <1>1, <2>1 DEF Record
  <2> QED
    BY <2>1, <2>2 DEF BatchTracking
<1> QED
  BY <1>2, <1>3, <1>4 DEF Edit

\* What the first n rows of an answer make of a column of a record.
LEMMA ScannedColumn ==
    ASSUME slice \in [Slot -> Record], NEW op, NEW rows, NEW n,
           NEW i \in Slot, NEW f \in Field
    PROVE  /\ Scanned(op, rows, n)[i].data[f] =
                  IF i <= n /\ f \in Results(op) THEN rows[i].row[f] ELSE slice[i].data[f]
           /\ Scanned(op, rows, n)[i].mask = slice[i].mask
<1> DEFINE r == Scanned(op, rows, n)[i]
<1>1. slice[i] \in Record
  OBVIOUS
<1>2. r = IF i <= n THEN Scan(slice[i], Results(op), rows[i]) ELSE slice[i]
  BY DEF Scanned
<1> HIDE DEF r
<1>3. /\ r.data[f] = IF i <= n /\ f \in Results(op) THEN rows[i].row[f]
                     ELSE slice[i].data[f]
      /\ r.mask = slice[i].mask
  <2>1. CASE i <= n
    BY <1>1, <1>2, <2>1 DEF Scan, Record
  <2>2. CASE ~(i <= n)
    BY <1>2, <2>2
  <2> QED
    BY <2>1, <2>2
<1> QED
  BY <1>3 DEF r

LEMMA LearnedInPlace ==
    ASSUME NEW op, NEW a, AnswerInv(op, a), Len(a.rows) = Size, NEW i \in Slot,
           NEW cols, NEW f \in Written
    PROVE  Learned(i, a, cols)[f] = IF f \in cols THEN a.rows[i].row[f] ELSE known[i][f]
<1>1. Own(a, i) = {a.rows[i]}
  BY OwnInPlace
<1>2. (CHOOSE row \in Own(a, i) : TRUE) = a.rows[i] /\ Own(a, i) # {}
  BY <1>1
<1> QED
  BY <1>2 DEF Learned

LEMMA TrackingRead ==
    ASSUME Trackable, TypeInv, BatchTracking, call.phase = "answered",
           NEW n \in 0 .. Len(call.reply.rows), Read(n)
    PROVE  BatchTracking'
<1> DEFINE op == call.op
           a == call.reply
<1>1. /\ slice \in [Slot -> Record] /\ AnswerInv(op, a) /\ op \in Op
      /\ a.rows \in Seq(Returned) /\ Len(a.rows) \in Nat /\ n \in 0 .. Len(a.rows)
  <2>1. /\ slice \in [Slot -> Record] /\ AnswerInv(op, a) /\ op \in Op
        /\ a.rows \in Seq(Returned)
    BY DEF TypeInv, TypeOK, CallInv, AnswerInv
  <2> QED
    BY <2>1
<1>2. /\ slice' = Scanned(op, a.rows, n)
      /\ known' = [i \in Slot |-> IF i <= n THEN Learned(i, a, Results(op)) ELSE known[i]]
  BY DEF Read
<1> HIDE DEF op, a
<1>3. ASSUME NEW i \in Slot, NEW f \in Written \ slice'[i].mask
      PROVE  slice'[i].data[f] = known'[i][f]
  <2>1. /\ slice'[i].data[f] = IF i <= n /\ f \in Results(op) THEN a.rows[i].row[f]
                              ELSE slice[i].data[f]
        /\ slice'[i].mask = slice[i].mask
    <3>1. slice'[i] = Scanned(op, a.rows, n)[i] /\ f \in Field
      BY <1>2, Groups
    <3>2. slice'[i].data[f] = IF i <= n /\ f \in Results(op) THEN a.rows[i].row[f]
                              ELSE slice[i].data[f]
      BY <1>1, <3>1, ScannedColumn
    <3>3. slice'[i].mask = slice[i].mask
      BY <1>1, <3>1, ScannedColumn
    <3> QED
      BY <3>2, <3>3
  <2>2. slice[i].data[f] = known[i][f]
    BY <1>3, <2>1 DEF BatchTracking
  <2>3. CASE ~(i <= n)
    BY <1>2, <2>1, <2>2, <2>3
  <2>4. CASE i <= n /\ f \notin Results(op)
    BY <1>2, <2>1, <2>2, <2>4 DEF Learned
  <2>5. CASE i <= n /\ f \in Results(op)
    <3>1. op = "InsertMulti"
      BY <1>1, <2>5, Groups DEF Op, Results
    <3>2. Len(a.rows) = Size
      <4>1. Len(a.rows) # 0
        BY <1>1, <2>5, BatchAssumption DEF Slot
      <4> QED
        BY <1>1, <3>1, <4>1 DEF AnswerInv, Trackable
    <3>3. Learned(i, a, Results(op))[f] = a.rows[i].row[f]
      BY <1>1, <2>5, <3>2, LearnedInPlace
    <3> QED
      BY <1>2, <2>1, <2>5, <3>3
  <2> QED
    BY <2>3, <2>4, <2>5
<1> QED
  BY <1>3 DEF BatchTracking

LEMMA TrackingReset ==
    ASSUME Trackable, TypeInv, BatchTracking, Return, Resets(call.op, call.reply)
    PROVE  BatchTracking'
<1> DEFINE op == call.op
           a == call.reply
           n == IF Results(op) = {} THEN 0 ELSE Len(a.rows)
<1>1. /\ slice' = [i \in Slot |-> Reset(Scanned(op, a.rows, n)[i])]
      /\ known' = [i \in Slot |-> Learned(i, a, Written)]
  BY DEF Return
<1>2. /\ slice \in [Slot -> Record] /\ AnswerInv(op, a)
      /\ op \in {"InsertMulti", "UpdateMulti"} /\ a.status = "done"
      /\ op = "UpdateMulti" => Len(a.rows) = Size \/ Results(op) = {}
  BY ResetRows DEF TypeInv, TypeOK
<1> HIDE DEF op, a
<1>3. Len(a.rows) = Size
  <2>1. CASE op = "InsertMulti"
    BY <1>2, <2>1 DEF AnswerInv, Trackable
  <2>2. CASE op = "UpdateMulti"
    BY <1>2, <2>2 DEF Results, Trackable
  <2> QED
    BY <1>2, <2>1, <2>2
<1>4. n = IF Results(op) = {} THEN 0 ELSE Size
  BY <1>3
<1> HIDE DEF n
<1>5. ASSUME NEW i \in Slot, NEW f \in Written
      PROVE  slice'[i].data[f] = known'[i][f]
  <2> DEFINE r == Scanned(op, a.rows, n)[i]
  <2>1. r.data[f] = IF i <= n /\ f \in Results(op) THEN a.rows[i].row[f]
                    ELSE slice[i].data[f]
    BY <1>2, Groups, ScannedColumn
  <2>2. known'[i][f] = a.rows[i].row[f]
    BY <1>1, <1>2, <1>3, LearnedInPlace
  <2>3. r \in Record
    <3>1. a.rows \in Seq(Returned) /\ n \in 0 .. Len(a.rows)
      BY <1>2, <1>3, <1>4, BatchAssumption DEF AnswerInv
    <3> QED
      BY <1>2, <3>1, ScannedType
  <2>4. slice'[i].data = r.data
    BY <1>1, <2>3 DEF Reset, Record
  <2> HIDE DEF r
  <2>5. CASE f \in Results(op)
    <3>1. i <= n
      BY <1>4, <2>5 DEF Slot
    <3> QED
      BY <2>1, <2>2, <2>4, <2>5, <3>1
  <2>6. CASE f \notin Results(op)
    <3>1. MadeOf(op, a.rows[i]) /\ a.rows[i].of = i
      BY <1>2, <1>3, OwnInPlace
    <3>2. op = "UpdateMulti" \/ f \in InsertValue(Table)
      <4>1. f \in Table.cols /\ f \notin Table.disableInsert
        BY Groups DEF Field, Trackable
      <4>2. op = "InsertMulti" => f \notin Table.initByStorage
        BY <2>6, <4>1 DEF Results, InsertResult, InsertColumns
      <4> QED
        BY <1>2, <4>1, <4>2 DEF InsertValue, InsertColumns
    <3>3. a.rows[i].row[f] = slice[i].data[f]
      BY <3>1, <3>2 DEF MadeOf
    <3> QED
      BY <2>1, <2>2, <2>4, <2>6, <3>3
  <2> QED
    BY <2>5, <2>6
<1> QED
  BY <1>5 DEF BatchTracking

LEMMA TrackingNext ==
    ASSUME Trackable, TypeInv, BatchTracking, [Next]_vars
    PROVE  BatchTracking'
<1>1. CASE UNCHANGED <<slice, known>>
  BY <1>1 DEF BatchTracking
<1>2. ASSUME NEW i \in Slot, Edit(i) PROVE BatchTracking'
  BY <1>2, TrackingEdit DEF TypeInv
<1>3. ASSUME Return PROVE BatchTracking'
  <2>1. CASE Resets(call.op, call.reply)
    BY <1>3, <2>1, TrackingReset
  <2>2. CASE ~Resets(call.op, call.reply)
    <3> DEFINE n == IF Results(call.op) = {} THEN 0 ELSE Len(call.reply.rows)
    <3>1. Read(n) /\ call.phase = "answered" /\ call.reply.rows \in Seq(Returned)
      BY <1>3, <2>2 DEF Return, TypeInv, CallInv, AnswerInv
    <3>2. n \in 0 .. Len(call.reply.rows)
      <4>1. Len(call.reply.rows) \in Nat
        BY <3>1
      <4> QED
        BY <4>1
    <3> HIDE DEF n
    <3> QED
      BY <3>1, <3>2, TrackingRead
  <2> QED
    BY <2>1, <2>2
<1>4. ASSUME Fail, ~UNCHANGED <<slice, known>> PROVE BatchTracking'
  <2>1. PICK n \in 1 .. Len(call.reply.rows) : Read(n)
    BY <1>4 DEF Fail
  <2>2. call.phase = "answered" /\ call.reply.rows \in Seq(Returned)
    BY <1>4 DEF Fail, TypeInv, CallInv, AnswerInv
  <2>3. n \in 0 .. Len(call.reply.rows)
    BY <2>2
  <2> QED
    BY <2>1, <2>2, <2>3, TrackingRead
<1>5. CASE UNCHANGED vars \/ InsertMulti \/ UpdateMulti \/ DeleteMulti \/ Execute
           \/ \E k \in Key : Foreign(k)
  <2>1. UNCHANGED <<slice, known>>
    BY <1>5 DEF vars, InsertMulti, UpdateMulti, DeleteMulti, Call, Execute, Foreign
  <2> QED
    BY <1>1, <2>1
<1> QED
  BY <1>1, <1>2, <1>3, <1>4, <1>5 DEF Next

\* Of the tables that are Trackable: a column whose flag is clear holds what was
\* last exchanged with the record's own row, whatever rows a batch missed, met
\* twice or read before it failed.
THEOREM TrackingCorrect ==
    ASSUME Trackable
    PROVE  Spec => []BatchTracking
<1>1. Init => BatchTracking
  BY TrackingInit
<1>2. TypeInv /\ BatchTracking /\ [Next]_vars => BatchTracking'
  BY TrackingNext
<1> QED
  BY <1>1, <1>2, TypeInvCorrect, PTL DEF Spec

\* RETURNING rows, which do not say whose they are, are scanned into the records
\* they belong to whenever a batch succeeds; no two records end up with one key.
THEOREM ReturnsActual == Spec => BatchReturnsActual
<1>1. ASSUME TypeInv, Return, Resets(call.op, call.reply), Results(call.op) # {},
             ~(call.op = "InsertMulti" /\ DoNothing(Table))
      PROVE  \A i \in Slot : \E own \in Own(call.reply, i) :
                /\ slice'[i].key = own.key
                /\ \A f \in Results(call.op) \cap Field :
                      slice'[i].data[f] = own.row[f]
                /\ \A j \in Slot \ {i} : slice'[j].key # slice'[i].key
  <2> DEFINE op == call.op
             a == call.reply
             n == Len(a.rows)
  <2>1. slice' = [i \in Slot |-> Reset(Scanned(op, a.rows, n)[i])]
    BY <1>1 DEF Return
  <2>2. /\ slice \in [Slot -> Record] /\ AnswerInv(op, a)
        /\ op \in {"InsertMulti", "UpdateMulti"} /\ Len(a.rows) = Size
    BY <1>1, ResetRows DEF TypeInv, TypeOK
  <2>3. Results(op) # {}
    BY <1>1
  <2> HIDE DEF op, a
  <2>4. /\ a.rows \in Seq(Returned) /\ n \in 0 .. Len(a.rows) /\ n = Size
        /\ \A l, m \in DOMAIN a.rows : l # m => a.rows[l].key # a.rows[m].key
    BY <2>2, BatchAssumption DEF AnswerInv
  <2> HIDE DEF n
  <2>5. ASSUME NEW i \in Slot
        PROVE  /\ slice'[i].key = a.rows[i].key
               /\ \A f \in Results(op) \cap Field : slice'[i].data[f] = a.rows[i].row[f]
               /\ a.rows[i] \in Own(a, i) /\ i \in DOMAIN a.rows
    <3> DEFINE r == Scanned(op, a.rows, n)[i]
    <3>1. /\ r.key = IF Table.primaryKey \cap Results(op) # {} THEN a.rows[i].key
                     ELSE slice[i].key
          /\ \A f \in Results(op) \cap Field : r.data[f] = a.rows[i].row[f]
      <4>1. i <= n
        BY <2>4 DEF Slot
      <4>2. ASSUME NEW f \in Field
            PROVE  r.data[f] = IF i <= n /\ f \in Results(op) THEN a.rows[i].row[f]
                               ELSE slice[i].data[f]
        BY <2>2, ScannedColumn
      <4>3. r = Scan(slice[i], Results(op), a.rows[i])
        BY <4>1 DEF Scanned
      <4>4. r.key = IF Table.primaryKey \cap Results(op) # {} THEN a.rows[i].key
                    ELSE slice[i].key
        BY <2>2, <4>3 DEF Scan, Record
      <4> HIDE DEF r
      <4> QED
        BY <4>1, <4>2, <4>4
    <3>2. r \in Record
      BY <2>2, <2>4, ScannedType
    <3>3. slice'[i].data = r.data /\ slice'[i].key = r.key
      BY <2>1, <3>2 DEF Reset, Record
    <3>4. /\ MadeOf(op, a.rows[i]) /\ a.rows[i].of = i /\ i \in DOMAIN a.rows
          /\ Own(a, i) = {a.rows[i]}
      BY <2>2, OwnInPlace
    <3> HIDE DEF r
    <3>5. r.key = a.rows[i].key
      <4>1. CASE op = "UpdateMulti" \/ ~KeyByStorage
        BY <3>1, <3>4, <4>1 DEF MadeOf
      <4>2. CASE op = "InsertMulti" /\ KeyByStorage
        <5>1. Table.primaryKey \cap Results(op) # {}
          BY <4>2, TableAssumption
             DEF KeyByStorage, Results, InsertResult, InsertColumns, TableOver
        <5> QED
          BY <3>1, <5>1
      <4> QED
        BY <2>2, <4>1, <4>2
    <3> QED
      BY <3>1, <3>3, <3>4, <3>5
  <2>6. ASSUME NEW i \in Slot, NEW j \in Slot \ {i} PROVE slice'[j].key # slice'[i].key
    BY <2>4, <2>5
  <2> QED
    BY <2>5, <2>6 DEF op, a
<1>2. TypeInv /\ [Next]_vars =>
        [LET op == call.op
             a == call.reply
         IN Return /\ Resets(op, a) /\ Results(op) # {}
                /\ ~(op = "InsertMulti" /\ DoNothing(Table))
            => \A i \in Slot : \E own \in Own(a, i) :
                  /\ slice'[i].key = own.key
                  /\ \A f \in Results(op) \cap Field :
                        slice'[i].data[f] = own.row[f]
                  /\ \A j \in Slot \ {i} : slice'[j].key # slice'[i].key]_vars
  BY <1>1
<1> QED
  BY <1>2, TypeInvCorrect, PTL DEF Spec, BatchReturnsActual
=============================================================================
