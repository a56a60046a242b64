------------------------- MODULE Statements_proofs -------------------------
(***************************************************************************)
(* Theorems about Statements, for tables of any number of columns, keys of *)
(* any length and slices of any length.                                    *)
(*                                                                         *)
(* A loop of the generated code is a fold of the library.  The provers do  *)
(* not know that a recursive function exists, and cannot instantiate a     *)
(* theorem that says so for any operator; the first part shows it for      *)
(* folds of a given function, by counting.                                 *)
(***************************************************************************)
EXTENDS Generator_proofs, Statements

----------------------------------------------------------------------------
(* Induction and folds.                                                    *)

\* Induction over a set of numbers: if n were missing, adding 1 would map the
\* members up to n one to one into those of them that are not 0.
LEMMA Induction ==
    ASSUME NEW S \in SUBSET Nat, 0 \in S, \A k \in S : k + 1 \in S
    PROVE  S = Nat
<1> SUFFICES ASSUME NEW n \in Nat, n \notin S PROVE FALSE
  OBVIOUS
<1> DEFINE T == S \cap (0 .. n)
           U == T \ {0}
           f == [k \in T |-> k + 1]
<1>1. IsFiniteSet(T) /\ IsFiniteSet(U)
  BY FS_Interval, FS_Subset, FS_RemoveElement, 0 \in Int, n \in Int
<1>2. Cardinality(U) = Cardinality(T) - 1 /\ Cardinality(T) \in Nat
  BY <1>1, FS_RemoveElement, FS_CardinalityType, 0 \in T
<1>3. f \in Injection(T, U)
  BY DEF Injection, IsInjective
<1>4. Cardinality(T) <= Cardinality(U)
  BY <1>1, <1>3, FS_Injection
<1> QED
  BY <1>1, <1>2, <1>4, FS_CardinalityType

LEMMA MaxOf ==
    ASSUME NEW n \in Nat, NEW s \in SUBSET (1 .. n), s # {}
    PROVE  Max(s) \in s /\ \A m \in s : m <= Max(s)
<1> DEFINE Has(m) == \A t \in SUBSET (1 .. m) :
                        t # {} => \E x \in t : \A y \in t : y <= x
           S == {m \in Nat : Has(m)}
<1>1. 0 \in S
  <2>1. 1 .. 0 = {}
    OBVIOUS
  <2> QED
    BY <2>1
<1>2. ASSUME NEW m \in S PROVE m + 1 \in S
  <2> SUFFICES ASSUME NEW t \in SUBSET (1 .. m + 1), t # {}
               PROVE  \E x \in t : \A y \in t : y <= x
    OBVIOUS
  <2>1. CASE m + 1 \in t
    BY <2>1
  <2>2. CASE m + 1 \notin t
    <3>1. t \in SUBSET (1 .. m)
      BY <2>2
    <3> QED
      BY <3>1
  <2> QED
    BY <2>1, <2>2
<1>3. n \in S
  <2> HIDE DEF S
  <2> QED
    BY <1>1, <1>2, Induction DEF S
<1>4. \E x \in s : \A y \in s : y <= x
  BY <1>3
<1> QED
  BY <1>4 DEF Max

LEMMA MaxUpTo ==
    ASSUME NEW n \in Nat, NEW k \in 1 .. n
    PROVE  Max(1 .. k) = k /\ (1 .. k) \ {k} = 1 .. (k - 1)
<1>1. 1 .. k \in SUBSET (1 .. n) /\ 1 .. k # {}
  BY k \in 1 .. k
<1>2. Max(1 .. k) \in 1 .. k /\ \A m \in 1 .. k : m <= Max(1 .. k)
  BY <1>1, MaxOf
<1>3. k <= Max(1 .. k)
  BY <1>2, k \in 1 .. k
<1> QED
  BY <1>2, <1>3

\* it is the recursive function of a fold over 1 .. n, from the greatest number
\* down, that starts at base.
Folds(it, Q, n, base, step) ==
    /\ it \in [SUBSET (1 .. n) -> Q]
    /\ \A s \in SUBSET (1 .. n) :
          it[s] = IF s = {} THEN base ELSE step[<<it[s \ {Max(s)}], Max(s)>>]

\* It exists if each step stays in Q.
LEMMA FoldExists ==
    ASSUME NEW Q, NEW n \in Nat, NEW base \in Q, NEW step \in [Q \X (1 .. n) -> Q]
    PROVE  \E it : Folds(it, Q, n, base, step)
<1> DEFINE Next1(g, s) == IF s = {} THEN base
                          ELSE step[<<g[s \ {Max(s)}], Max(s)>>]
           Good(g, m) == \A s \in SUBSET (1 .. n) :
                            Cardinality(s) <= m => g[s] = Next1(g, s)
           S == {m \in Nat : \E g \in [SUBSET (1 .. n) -> Q] : Good(g, m)}
<1>1. ASSUME NEW s \in SUBSET (1 .. n)
      PROVE  /\ IsFiniteSet(s) /\ Cardinality(s) \in Nat
             /\ Cardinality(s) <= 0 => s = {}
             /\ s # {} => /\ Max(s) \in 1 .. n
                          /\ s \ {Max(s)} \in SUBSET (1 .. n)
                          /\ Cardinality(s \ {Max(s)}) = Cardinality(s) - 1
  <2>1. IsFiniteSet(s)
    BY FS_Interval, FS_Subset, 1 \in Int, n \in Int
  <2>2. Cardinality(s) \in Nat /\ (Cardinality(s) = 0 <=> s = {})
    BY <2>1, FS_CardinalityType, FS_EmptySet
  <2>3. CASE s # {}
    <3>1. Max(s) \in s
      BY <2>3, MaxOf
    <3>2. Cardinality(s \ {Max(s)}) = Cardinality(s) - 1
      BY <2>1, <3>1, FS_RemoveElement
    <3>3. Max(s) \in 1 .. n /\ s \ {Max(s)} \in SUBSET (1 .. n)
      BY <3>1
    <3>4. Cardinality(s) # 0
      BY <2>2, <2>3, Zenon
    <3>5. ~(Cardinality(s) <= 0)
      BY <2>2, <3>4
    <3> QED
      BY <2>1, <2>2, <3>2, <3>3, <3>5
  <2> QED
    BY <2>1, <2>2, <2>3
<1>2. 0 \in S
  <2> DEFINE g == [s \in SUBSET (1 .. n) |-> base]
  <2>1. Good(g, 0)
    <3> SUFFICES ASSUME NEW s \in SUBSET (1 .. n), Cardinality(s) <= 0
                 PROVE  g[s] = Next1(g, s)
      OBVIOUS
    <3>1. s = {}
      <4> HIDE DEF g, Good
      <4> QED
        BY <1>1
    <3> QED
      BY <3>1
  <2> QED
    BY <2>1
<1>3. ASSUME NEW m \in S PROVE m + 1 \in S
  <2>1. PICK g \in [SUBSET (1 .. n) -> Q] : Good(g, m)
    OBVIOUS
  <2> DEFINE h == [s \in SUBSET (1 .. n) |-> Next1(g, s)]
  <2>2. h \in [SUBSET (1 .. n) -> Q]
    BY <1>1
  <2>3. Good(h, m + 1)
    <3> SUFFICES ASSUME NEW s \in SUBSET (1 .. n), Cardinality(s) <= m + 1
                 PROVE  h[s] = Next1(h, s)
      OBVIOUS
    <3>1. CASE s = {}
      BY <3>1
    <3>2. CASE s # {}
      <4> DEFINE r == s \ {Max(s)}
      <4>1. r \in SUBSET (1 .. n) /\ Cardinality(r) <= m
        BY <3>2, <1>1
      <4>2. g[r] = h[r]
        BY <4>1, <2>1
      <4> QED
        BY <3>2, <4>2
    <3> QED
      BY <3>1, <3>2
  <2>4. m + 1 \in Nat
    OBVIOUS
  <2> HIDE DEF Good, h
  <2> QED
    BY <2>2, <2>3, <2>4
<1>4. Cardinality(1 .. n) \in S
  <2>1. S = Nat
    <3> HIDE DEF S
    <3> QED
      BY <1>2, <1>3, Induction DEF S
  <2> QED
    BY <2>1, <1>1
<1>5. PICK g \in [SUBSET (1 .. n) -> Q] : Good(g, Cardinality(1 .. n))
  BY <1>4
<1>6. \A s \in SUBSET (1 .. n) : Cardinality(s) <= Cardinality(1 .. n)
  BY FS_Interval, FS_Subset, 1 \in Int, n \in Int
<1> QED
  BY <1>5, <1>6 DEF Folds
\* What every round of a loop preserves holds in the end.
LEMMA Rounds ==
    ASSUME NEW n \in Nat, NEW after, NEW stage, after[0] \in stage[0],
           \A j \in 1 .. n : after[j - 1] \in stage[j - 1] => after[j] \in stage[j]
    PROVE  \A j \in 0 .. n : after[j] \in stage[j]
<1> DEFINE S == {j \in Nat : j <= n => after[j] \in stage[j]}
<1>1. 0 \in S
  OBVIOUS
<1>2. ASSUME NEW j \in S PROVE j + 1 \in S
  <2> SUFFICES ASSUME j + 1 <= n PROVE after[j + 1] \in stage[j + 1]
    OBVIOUS
  <2>1. j + 1 \in 1 .. n /\ (j + 1) - 1 = j /\ after[j] \in stage[j]
    OBVIOUS
  <2> QED
    BY <2>1
<1>3. S = Nat
  <2> HIDE DEF S
  <2> QED
    BY <1>1, <1>2, Induction DEF S
<1> QED
  BY <1>3

----------------------------------------------------------------------------
(* Queries.                                                                *)

Argument == [what : {"data", "mut", "sum"}, record : Nat, col : Range(cols)]

Role == {"set", "add", "excluded", "value", "mutator", "null", "where", "returning"}

SqlPiece ==
    [role : Role, record : Nat, col : Range(cols), n : Nat, comma : BOOLEAN]

Query == [sql : Seq(SqlPiece), args : Seq(Argument), results : Seq(Argument)]

LEMMA BindType ==
    ASSUME NEW q \in Query, NEW x \in Argument, NEW comma \in BOOLEAN,
           NEW role \in Role
    PROVE  /\ Bind(q, role, comma, x) \in Query
           /\ Bind(q, role, comma, x).args = Append(q.args, x)
           /\ Bind(q, role, comma, x).sql =
                 Append(q.sql, Piece(role, x.record, x.col, Len(q.args) + 1, comma))
           /\ Bind(q, role, comma, x).results = q.results
<1>1. Piece(role, x.record, x.col, Len(q.args) + 1, comma) \in SqlPiece
  BY DEF Piece, SqlPiece, Argument, Query
<1> DEFINE piece == Piece(role, x.record, x.col, Len(q.args) + 1, comma)
<1>2. /\ Append(q.sql, piece) \in Seq(SqlPiece)
      /\ Append(q.args, x) \in Seq(Argument)
  BY <1>1 DEF Query
<1>3. Bind(q, role, comma, x) = [q EXCEPT !.sql = Append(q.sql, piece),
                                          !.args = Append(q.args, x)]
  BY DEF Bind
<1> HIDE DEF piece
<1>4. q \in [sql : Seq(SqlPiece), args : Seq(Argument), results : Seq(Argument)]
  BY DEF Query
<1>5. /\ Bind(q, role, comma, x) \in Query
      /\ Bind(q, role, comma, x).args = Append(q.args, x)
      /\ Bind(q, role, comma, x).sql = Append(q.sql, piece)
      /\ Bind(q, role, comma, x).results = q.results
  BY <1>2, <1>3, <1>4 DEF Query
<1> QED
  BY <1>5 DEF piece

\* The columns of the groups.
LEMMA ListTypes ==
    ASSUME FillTypes, NEW g \in Group
    PROVE  /\ groups[g] \in Seq(Range(cols)) /\ Len(groups[g]) \in Nat
           /\ DOMAIN groups[g] = 1 .. Len(groups[g])
           /\ \A j \in 1 .. Len(groups[g]) : groups[g][j] \in Range(cols)
BY DEF FillTypes

LEMMA AppendType ==
    ASSUME NEW q \in Query, NEW pieces \in Seq(SqlPiece), NEW exprs \in Seq(Argument)
    PROVE  /\ AppendSQL(q, pieces) \in Query
           /\ AppendSQL(q, pieces).sql = q.sql \o pieces
           /\ AppendSQL(q, pieces).args = q.args
           /\ AppendSQL(q, pieces).results = q.results
           /\ AppendResults(q, exprs) \in Query
           /\ AppendResults(q, exprs).sql = q.sql
           /\ AppendResults(q, exprs).args = q.args
           /\ AppendResults(q, exprs).results = q.results \o exprs
<1>1. /\ q.sql \o pieces \in Seq(SqlPiece)
      /\ q.results \o exprs \in Seq(Argument)
  BY DEF Query
<1>2. q \in [sql : Seq(SqlPiece), args : Seq(Argument), results : Seq(Argument)]
  BY DEF Query
<1> QED
  BY <1>1, <1>2 DEF AppendSQL, AppendResults, Query

ItemType ==
    [role : {"set", "add", "value", "mutator", "null", "where"}, comma : BOOLEAN,
     arg : Argument]

LEMMA ItemTypes ==
    ASSUME NEW q \in Query, NEW item \in ItemType
    PROVE  AppendItem(q, item) \in Query
<1>1. <<Piece("null", item.arg.record, item.arg.col, 0, item.comma)>> \in Seq(SqlPiece)
  BY DEF ItemType, Argument, SqlPiece, Piece, Role
<1>2. CASE item.role = "null"
  <2>1. <<>> \in Seq(Argument)
    OBVIOUS
  <2> QED
    BY <1>1, <1>2, <2>1, AppendType DEF AppendItem
<1>3. CASE item.role # "null"
  BY <1>3, BindType DEF AppendItem, ItemType, Role
<1> QED
  BY <1>2, <1>3

\* The rounds of AppendItems.
LEMMA AppendItemsLoop ==
    ASSUME NEW q \in Query, NEW items \in Seq(ItemType)
    PROVE  \E after :
              /\ after[0] = q
              /\ \A j \in 1 .. Len(items) :
                    after[j] = AppendItem(after[j - 1], items[j])
              /\ AppendItems(q, items) = after[Len(items)]
<1> DEFINE n == Len(items)
           Step(r, j) == AppendItem(r, items[j])
           Ran(it) == [s \in SUBSET DOMAIN items |->
                         IF s = {} THEN q ELSE AppendItem(it[s \ {Max(s)}], items[Max(s)])]
<1>1. n \in Nat /\ DOMAIN items = 1 .. n
  OBVIOUS
<1>2. ASSUME NEW r \in Query, NEW j \in 1 .. n PROVE Step(r, j) \in Query
  BY <1>1, ItemTypes
<1>3. \E it : it = Ran(it)
  <2> DEFINE step == [x \in Query \X (1 .. n) |-> Step(x[1], x[2])]
  <2>1. step \in [Query \X (1 .. n) -> Query]
    BY <1>2
  <2>2. PICK it : Folds(it, Query, n, q, step)
    <3> HIDE DEF step, n, Step
    <3> QED
      BY <1>1, <2>1, FoldExists, Zenon
  <2>3. ASSUME NEW s \in SUBSET (1 .. n), s # {}
        PROVE  /\ Max(s) \in 1 .. n
               /\ step[<<it[s \ {Max(s)}], Max(s)>>] = Step(it[s \ {Max(s)}], Max(s))
    <3>1. Max(s) \in 1 .. n
      BY <1>1, <2>3, MaxOf
    <3>2. it[s \ {Max(s)}] \in Query
      BY <2>2 DEF Folds
    <3> HIDE DEF n, Step
    <3> QED
      BY <3>1, <3>2
  <2>4. \A s \in SUBSET (1 .. n) :
           it[s] = IF s = {} THEN q ELSE Step(it[s \ {Max(s)}], Max(s))
    <3> HIDE DEF n, Step, step
    <3> QED
      BY <2>2, <2>3 DEF Folds
  <2>5. it = Ran(it)
    <3>1. it = [s \in SUBSET (1 .. n) |-> it[s]]
      <4> HIDE DEF n
      <4> QED
        BY <2>2 DEF Folds
    <3>2. \A s \in SUBSET (1 .. n) : s # {} => items[Max(s)] = items[Max(s)]
      BY <1>1, <2>3
    <3> HIDE DEF n, step
    <3> QED
      BY <1>1, <2>3, <2>4, <3>1, <3>2
  <2> QED
    BY <2>5
<1> DEFINE it == CHOOSE it : it = Ran(it)
<1>4. it = Ran(it)
  BY <1>3
<1>5. AppendItems(q, items) = it[DOMAIN items]
  BY Zenon DEF AppendItems, FoldLeft, MapThenFoldSet
<1> HIDE DEF it
<1> DEFINE after == [j \in 0 .. n |-> it[1 .. j]]
<1>6. after[0] = q
  <2>1. 1 .. 0 = {} /\ after[0] = it[1 .. 0]
    BY <1>1
  <2>2. it[{}] = q
    BY <1>4
  <2> QED
    BY <2>1, <2>2
<1>7. ASSUME NEW j \in 1 .. n PROVE after[j] = Step(after[j - 1], j)
  <2>1. Max(1 .. j) = j /\ (1 .. j) \ {j} = 1 .. (j - 1)
    BY <1>1, MaxUpTo
  <2>2. 1 .. j \in SUBSET DOMAIN items /\ 1 .. j # {}
    <3> HIDE DEF n
    <3>1. 1 .. j \in SUBSET (1 .. n) /\ j \in 1 .. j
      BY <1>1
    <3> QED
      BY <1>1, <3>1
  <2>3. it[1 .. j] = Step(it[1 .. (j - 1)], j)
    <3> HIDE DEF n
    <3> QED
      BY <1>4, <2>1, <2>2
  <2>4. after[j] = it[1 .. j] /\ after[j - 1] = it[1 .. (j - 1)]
    BY <1>1
  <2> QED
    BY <2>3, <2>4
<1>8. AppendItems(q, items) = after[n]
  BY <1>1, <1>5
<1> QED
  BY <1>6, <1>7, <1>8

LEMMA AppendItemsType ==
    ASSUME NEW q \in Query, NEW items \in Seq(ItemType)
    PROVE  AppendItems(q, items) \in Query
<1>1. PICK after :
         /\ after[0] = q
         /\ \A j \in 1 .. Len(items) : after[j] = AppendItem(after[j - 1], items[j])
         /\ AppendItems(q, items) = after[Len(items)]
  BY AppendItemsLoop
<1> DEFINE stage == [j \in 0 .. Len(items) |-> Query]
<1>2. Len(items) \in Nat /\ \A j \in 1 .. Len(items) : items[j] \in ItemType
  OBVIOUS
<1>3. after[0] \in stage[0]
  BY <1>1, <1>2
<1>4. \A j \in 1 .. Len(items) : after[j - 1] \in stage[j - 1] => after[j] \in stage[j]
  BY <1>1, <1>2, ItemTypes
<1>5. \A j \in 0 .. Len(items) : after[j] \in stage[j]
  <2> HIDE DEF stage
  <2> QED
    BY <1>2, <1>3, <1>4, Rounds
<1> QED
  BY <1>1, <1>2, <1>5

\* The rounds of AppendChanged.
LEMMA AppendChangedLoop ==
    ASSUME NEW q \in Query, NEW list \in Seq(Range(cols)), NEW changed,
           NEW role \in {"set", "add"}, NEW what \in {"data", "mut", "sum"}
    PROVE  \E after :
              /\ after[0] = q
              /\ \A j \in 1 .. Len(list) :
                    after[j] = IF j \in changed
                               THEN Bind(after[j - 1], role,
                                         CommaBefore(after[j - 1], list, j),
                                         Expr(what, 1, list[j]))
                               ELSE after[j - 1]
              /\ AppendChanged(q, role, what, list, changed) = after[Len(list)]
<1> DEFINE n == Len(list)
           Step(r, j) == IF j \in changed
                         THEN Bind(r, role, CommaBefore(r, list, j),
                                   Expr(what, 1, list[j]))
                         ELSE r
           Ran(it) == [s \in SUBSET DOMAIN [i \in DOMAIN list |-> i] |->
                         IF s = {} THEN q ELSE Step(it[s \ {Max(s)}], [i \in DOMAIN list |-> i][Max(s)])]
<1>1. n \in Nat /\ DOMAIN list = 1 .. n
  OBVIOUS
<1>2. ASSUME NEW r \in Query, NEW j \in 1 .. n PROVE Step(r, j) \in Query
  <2>1. Expr(what, 1, list[j]) \in Argument
    BY <1>1 DEF Expr, Argument
  <2> QED
    BY <2>1, BindType DEF CommaBefore, Role
<1>3. \E it : it = Ran(it)
  <2> DEFINE step == [x \in Query \X (1 .. n) |-> Step(x[1], x[2])]
  <2>1. step \in [Query \X (1 .. n) -> Query]
    BY <1>2
  <2>2. PICK it : Folds(it, Query, n, q, step)
    <3> HIDE DEF step, n, Step
    <3> QED
      BY <1>1, <2>1, FoldExists, Zenon
  <2>3. ASSUME NEW s \in SUBSET (1 .. n), s # {}
        PROVE  /\ Max(s) \in 1 .. n
               /\ step[<<it[s \ {Max(s)}], Max(s)>>] = Step(it[s \ {Max(s)}], Max(s))
    <3>1. Max(s) \in 1 .. n
      BY <1>1, <2>3, MaxOf
    <3>2. it[s \ {Max(s)}] \in Query
      BY <2>2 DEF Folds
    <3> HIDE DEF n, Step
    <3> QED
      BY <3>1, <3>2
  <2>4. \A s \in SUBSET (1 .. n) :
           it[s] = IF s = {} THEN q ELSE Step(it[s \ {Max(s)}], Max(s))
    <3> HIDE DEF n, Step, step
    <3> QED
      BY <2>2, <2>3 DEF Folds
  <2>5. it = Ran(it)
    <3>1. it = [s \in SUBSET (1 .. n) |-> it[s]]
      <4> HIDE DEF n
      <4> QED
        BY <2>2 DEF Folds
    <3>2. \A s \in SUBSET (1 .. n) : s # {} => [i \in DOMAIN list |-> i][Max(s)] = Max(s)
      BY <1>1, <2>3
    <3> HIDE DEF n, step
    <3> QED
      BY <1>1, <2>3, <2>4, <3>1, <3>2
  <2> QED
    BY <2>5
<1> DEFINE it == CHOOSE it : it = Ran(it)
<1>4. it = Ran(it)
  BY <1>3
<1>5. AppendChanged(q, role, what, list, changed) = it[DOMAIN [i \in DOMAIN list |-> i]]
  BY Zenon DEF AppendChanged, FoldLeftDomain, FoldLeft, MapThenFoldSet
<1> HIDE DEF it
<1> DEFINE after == [j \in 0 .. n |-> it[1 .. j]]
<1>6. after[0] = q
  <2>1. 1 .. 0 = {} /\ after[0] = it[1 .. 0]
    BY <1>1
  <2>2. it[{}] = q
    BY <1>4
  <2> QED
    BY <2>1, <2>2
<1>7. ASSUME NEW j \in 1 .. n PROVE after[j] = Step(after[j - 1], j)
  <2>1. Max(1 .. j) = j /\ (1 .. j) \ {j} = 1 .. (j - 1)
    BY <1>1, MaxUpTo
  <2>2. 1 .. j \in SUBSET DOMAIN [i \in DOMAIN list |-> i] /\ 1 .. j # {}
    <3> HIDE DEF n
    <3>1. 1 .. j \in SUBSET (1 .. n) /\ j \in 1 .. j
      BY <1>1
    <3> QED
      BY <1>1, <3>1
  <2>3. it[1 .. j] = Step(it[1 .. (j - 1)], j)
    <3>1. [i \in DOMAIN list |-> i][j] = j
      BY <1>1
    <3> HIDE DEF n, Step
    <3> QED
      BY <1>4, <2>1, <2>2, <3>1
  <2>4. after[j] = it[1 .. j] /\ after[j - 1] = it[1 .. (j - 1)]
    BY <1>1
  <2> QED
    BY <2>3, <2>4
<1>8. AppendChanged(q, role, what, list, changed) = after[n]
  BY <1>1, <1>5
<1> QED
  BY <1>6, <1>7, <1>8

\* The rounds of AppendRows.
LEMMA AppendRowsLoop ==
    ASSUME NEW q \in Query, NEW n \in Nat, NEW rows \in [1 .. n -> Seq(ItemType)],
           NEW results \in [1 .. n -> Seq(Argument)]
    PROVE  \E after :
              /\ after[0] = q
              /\ \A j \in 1 .. n :
                    after[j] = AppendResults(AppendItems(after[j - 1], rows[j]),
                                             results[j])
              /\ AppendRows(q, rows, results) = after[n]
<1> DEFINE Step(r, j) == AppendResults(AppendItems(r, rows[j]), results[j])
           Ran(it) == [s \in SUBSET DOMAIN [i \in DOMAIN rows |-> i] |->
                         IF s = {} THEN q ELSE Step(it[s \ {Max(s)}], [i \in DOMAIN rows |-> i][Max(s)])]
<1>1. n \in Nat /\ DOMAIN rows = 1 .. n
  OBVIOUS
<1>2. ASSUME NEW r \in Query, NEW j \in 1 .. n PROVE Step(r, j) \in Query
  <2>1. <<>> \in Seq(SqlPiece) /\ rows[j] \in Seq(ItemType) /\ results[j] \in Seq(Argument)
    OBVIOUS
  <2>2. AppendItems(r, rows[j]) \in Query
    BY <2>1, AppendItemsType
  <2> QED
    BY <2>1, <2>2, AppendType
<1>3. \E it : it = Ran(it)
  <2> DEFINE step == [x \in Query \X (1 .. n) |-> Step(x[1], x[2])]
  <2>1. step \in [Query \X (1 .. n) -> Query]
    BY <1>2
  <2>2. PICK it : Folds(it, Query, n, q, step)
    <3> HIDE DEF step, Step
    <3> QED
      BY <1>1, <2>1, FoldExists, Zenon
  <2>3. ASSUME NEW s \in SUBSET (1 .. n), s # {}
        PROVE  /\ Max(s) \in 1 .. n
               /\ step[<<it[s \ {Max(s)}], Max(s)>>] = Step(it[s \ {Max(s)}], Max(s))
    <3>1. Max(s) \in 1 .. n
      BY <1>1, <2>3, MaxOf
    <3>2. it[s \ {Max(s)}] \in Query
      BY <2>2 DEF Folds
    <3> HIDE DEF Step
    <3> QED
      BY <3>1, <3>2
  <2>4. \A s \in SUBSET (1 .. n) :
           it[s] = IF s = {} THEN q ELSE Step(it[s \ {Max(s)}], Max(s))
    <3> HIDE DEF Step, step
    <3> QED
      BY <2>2, <2>3 DEF Folds
  <2>5. it = Ran(it)
    <3>1. it = [s \in SUBSET (1 .. n) |-> it[s]]
      <4> QED
        BY <2>2 DEF Folds
    <3>2. \A s \in SUBSET (1 .. n) : s # {} => [i \in DOMAIN rows |-> i][Max(s)] = Max(s)
      BY <1>1, <2>3
    <3> HIDE DEF step
    <3> QED
      BY <1>1, <2>3, <2>4, <3>1, <3>2
  <2> QED
    BY <2>5
<1> DEFINE it == CHOOSE it : it = Ran(it)
<1>4. it = Ran(it)
  BY <1>3
<1>5. AppendRows(q, rows, results) = it[DOMAIN [i \in DOMAIN rows |-> i]]
  BY Zenon DEF AppendRows, FoldLeftDomain, FoldLeft, MapThenFoldSet
<1> HIDE DEF it
<1> DEFINE after == [j \in 0 .. n |-> it[1 .. j]]
<1>6. after[0] = q
  <2>1. 1 .. 0 = {} /\ after[0] = it[1 .. 0]
    BY <1>1
  <2>2. it[{}] = q
    BY <1>4
  <2> QED
    BY <2>1, <2>2
<1>7. ASSUME NEW j \in 1 .. n PROVE after[j] = Step(after[j - 1], j)
  <2>1. Max(1 .. j) = j /\ (1 .. j) \ {j} = 1 .. (j - 1)
    BY <1>1, MaxUpTo
  <2>2. 1 .. j \in SUBSET DOMAIN [i \in DOMAIN rows |-> i] /\ 1 .. j # {}
    <3>1. 1 .. j \in SUBSET (1 .. n) /\ j \in 1 .. j
      BY <1>1
    <3> QED
      BY <1>1, <3>1
  <2>3. it[1 .. j] = Step(it[1 .. (j - 1)], j)
    <3>1. [i \in DOMAIN rows |-> i][j] = j
      BY <1>1
    <3> HIDE DEF Step
    <3> QED
      BY <1>4, <2>1, <2>2, <3>1
  <2>4. after[j] = it[1 .. j] /\ after[j - 1] = it[1 .. (j - 1)]
    BY <1>1
  <2> QED
    BY <2>3, <2>4
<1>8. AppendRows(q, rows, results) = after[n]
  BY <1>1, <1>5
<1> QED
  BY <1>6, <1>7, <1>8

----------------------------------------------------------------------------
(* Placeholders.                                                           *)

\* The placeholders of sql are bound to args, of which the first has the number
\* base + 1, and none of args is without one.
Matches(sql, args, base) ==
    /\ \A p \in Range(sql) :
          p.n # 0 => p.n - base \in DOMAIN args /\ args[p.n - base] = Meant(p)
    /\ \A a \in DOMAIN args : \E p \in Range(sql) : p.n = base + a

\* A clause may follow another if it goes on counting where that one ended.
LEMMA MatchJoin ==
    ASSUME NEW s \in Seq(SqlPiece), NEW t \in Seq(SqlPiece),
           NEW a \in Seq(Argument), NEW b \in Seq(Argument), NEW base \in Nat,
           Matches(s, a, base), Matches(t, b, base + Len(a))
    PROVE  Matches(s \o t, a \o b, base)
<1>1. /\ Len(a) \in Nat /\ Len(b) \in Nat
      /\ DOMAIN a = 1 .. Len(a) /\ DOMAIN b = 1 .. Len(b)
      /\ DOMAIN (a \o b) = 1 .. Len(a) + Len(b)
  OBVIOUS
<1>2. Range(s \o t) = Range(s) \cup Range(t)
  BY RangeConcatenation
<1>3. \A p \in Range(s) \cup Range(t) : p.n \in Nat
  <2>1. Range(s) \subseteq SqlPiece /\ Range(t) \subseteq SqlPiece
    BY DEF Range
  <2> QED
    BY <2>1 DEF SqlPiece
<1>4. \A i \in 1 .. Len(a) : (a \o b)[i] = a[i]
  OBVIOUS
<1>5. \A i \in 1 .. Len(b) : (a \o b)[Len(a) + i] = b[i]
  OBVIOUS
<1>6. ASSUME NEW p \in Range(s \o t), p.n # 0
      PROVE  p.n - base \in DOMAIN (a \o b) /\ (a \o b)[p.n - base] = Meant(p)
  <2>1. CASE p \in Range(s)
    <3>1. p.n - base \in 1 .. Len(a) /\ a[p.n - base] = Meant(p)
      BY <1>1, <1>6, <2>1 DEF Matches
    <3> QED
      BY <1>1, <1>4, <3>1
  <2>2. CASE p \in Range(t)
    <3> DEFINE i == p.n - (base + Len(a))
    <3>1. i \in 1 .. Len(b) /\ b[i] = Meant(p)
      BY <1>1, <1>6, <2>2 DEF Matches
    <3>2. p.n - base = Len(a) + i
      BY <1>1, <1>3, <2>2
    <3> HIDE DEF i
    <3>3. Len(a) + i \in 1 .. Len(a) + Len(b)
      BY <1>1, <3>1
    <3> QED
      BY <1>1, <1>5, <3>1, <3>2, <3>3
  <2> QED
    BY <1>2, <2>1, <2>2
<1>7. ASSUME NEW i \in DOMAIN (a \o b)
      PROVE  \E p \in Range(s \o t) : p.n = base + i
  <2>1. CASE i <= Len(a)
    <3>1. i \in DOMAIN a
      BY <1>1, <2>1
    <3> QED
      BY <1>2, <3>1 DEF Matches
  <2>2. CASE i > Len(a)
    <3>1. i - Len(a) \in DOMAIN b /\ base + Len(a) + (i - Len(a)) = base + i
      BY <1>1, <2>2
    <3>2. PICK p \in Range(t) : p.n = base + Len(a) + (i - Len(a))
      BY <3>1 DEF Matches
    <3> QED
      BY <1>2, <3>1, <3>2
  <2> QED
    BY <1>1, <2>1, <2>2
<1> QED
  BY <1>6, <1>7 DEF Matches

\* A clause without placeholders.
LEMMA MatchNone ==
    ASSUME NEW s \in Seq(SqlPiece), \A i \in 1 .. Len(s) : s[i].n = 0, NEW base \in Nat
    PROVE  Matches(s, <<>>, base)
BY DEF Matches, Range

LEMMA NoPieces ==
    /\ <<>> \in Seq(SqlPiece) /\ <<>> \in Seq(Argument)
    /\ \A i \in 1 .. Len(<<>>) : <<>>[i].n = 0
    /\ \A base \in Nat : Matches(<<>>, <<>>, base)
<1>1. /\ <<>> \in Seq(SqlPiece) /\ <<>> \in Seq(Argument)
      /\ \A i \in 1 .. Len(<<>>) : <<>>[i].n = 0
  OBVIOUS
<1> QED
  BY <1>1, MatchNone

\* A clause whose placeholders are numbered from base + 1 on.
LEMMA MatchNumbered ==
    ASSUME NEW s \in Seq(SqlPiece), NEW a \in Seq(Argument), NEW base \in Nat,
           Len(s) = Len(a),
           \A i \in 1 .. Len(s) : s[i].n = base + i /\ a[i] = Meant(s[i])
    PROVE  Matches(s, a, base)
<1>1. Len(s) \in Nat /\ DOMAIN s = 1 .. Len(s) /\ DOMAIN a = 1 .. Len(s)
  OBVIOUS
<1>2. ASSUME NEW p \in Range(s)
      PROVE  p.n - base \in DOMAIN a /\ a[p.n - base] = Meant(p)
  <2>1. PICK i \in 1 .. Len(s) : p = s[i]
    BY <1>1 DEF Range
  <2>2. p.n - base = i
    BY <1>1, <2>1
  <2> QED
    BY <1>1, <2>1, <2>2
<1>3. ASSUME NEW i \in DOMAIN a PROVE \E p \in Range(s) : p.n = base + i
  BY <1>1 DEF Range
<1> QED
  BY <1>2, <1>3 DEF Matches

\* Queries whose placeholders are bound to what is meant.
Built == {q \in Query : Matches(q.sql, q.args, 0)}

\* An item brings the argument that its place calls for.
Proper ==
    {item \in ItemType :
        item.role # "null" =>
            item.arg = Meant(Piece(item.role, item.arg.record, item.arg.col, 1, TRUE))}

LEMMA BindMatches ==
    ASSUME NEW q \in Built, NEW x \in Argument, NEW comma \in BOOLEAN,
           NEW role \in {"set", "add", "value", "mutator", "where"},
           x = Meant(Piece(role, x.record, x.col, 1, TRUE))
    PROVE  Bind(q, role, comma, x) \in Built
<1> DEFINE piece == Piece(role, x.record, x.col, Len(q.args) + 1, comma)
<1>1. q \in Query /\ Matches(q.sql, q.args, 0)
  BY DEF Built
<1>2. /\ q.sql \in Seq(SqlPiece) /\ q.args \in Seq(Argument)
      /\ Len(q.args) \in Nat
  BY <1>1 DEF Query
<1>3. piece \in SqlPiece
  BY <1>2 DEF Piece, SqlPiece, Argument, Role
<1>4. Meant(piece) = x /\ piece.n = Len(q.args) + 1
  BY DEF Piece, Meant
<1> HIDE DEF piece
<1>5. <<piece>> \in Seq(SqlPiece) /\ <<x>> \in Seq(Argument)
  BY <1>3
<1>6. Matches(<<piece>>, <<x>>, 0 + Len(q.args))
  <2>1. /\ Len(<<piece>>) = 1 /\ Len(<<x>>) = 1
        /\ <<piece>>[1] = piece /\ <<x>>[1] = x /\ 0 + Len(q.args) \in Nat
    BY <1>2
  <2>2. \A i \in 1 .. Len(<<piece>>) :
           /\ <<piece>>[i].n = (0 + Len(q.args)) + i
           /\ <<x>>[i] = Meant(<<piece>>[i])
    BY <1>2, <1>4, <2>1
  <2> QED
    BY <1>5, <2>1, <2>2, MatchNumbered
<1>7. Matches(q.sql \o <<piece>>, q.args \o <<x>>, 0)
  BY <1>1, <1>2, <1>5, <1>6, MatchJoin, 0 \in Nat
<1>8. /\ Append(q.sql, piece) = q.sql \o <<piece>>
      /\ Append(q.args, x) = q.args \o <<x>>
  BY <1>2, <1>3
<1>9. /\ Bind(q, role, comma, x) \in Query
      /\ Bind(q, role, comma, x).sql = Append(q.sql, piece)
      /\ Bind(q, role, comma, x).args = Append(q.args, x)
  <2>1. role \in Role
    BY DEF Role
  <2> QED
    BY <1>1, <2>1, BindType DEF piece
<1> QED
  BY <1>7, <1>8, <1>9 DEF Built

\* SQL without placeholders, and results, leave the others as they are.
LEMMA AppendMatches ==
    ASSUME NEW q \in Built, NEW pieces \in Seq(SqlPiece),
           \A i \in 1 .. Len(pieces) : pieces[i].n = 0, NEW exprs \in Seq(Argument)
    PROVE  AppendSQL(q, pieces) \in Built /\ AppendResults(q, exprs) \in Built
<1>1. q \in Query /\ Matches(q.sql, q.args, 0)
  BY DEF Built
<1>2. /\ q.sql \in Seq(SqlPiece) /\ q.args \in Seq(Argument) /\ Len(q.args) \in Nat
      /\ q.args \o <<>> = q.args
  BY <1>1 DEF Query
<1>3. Matches(pieces, <<>>, 0 + Len(q.args))
  BY <1>2, MatchNone, 0 + Len(q.args) \in Nat
<1>4. Matches(q.sql \o pieces, q.args \o <<>>, 0)
  BY <1>1, <1>2, <1>3, MatchJoin, 0 \in Nat, <<>> \in Seq(Argument)
<1> QED
  BY <1>1, <1>2, <1>4, AppendType DEF Built

LEMMA ItemsMatch ==
    ASSUME NEW q \in Built, NEW items \in Seq(Proper)
    PROVE  AppendItems(q, items) \in Built
<1>1. q \in Query /\ items \in Seq(ItemType)
  BY SeqMonotonic DEF Built, Proper
<1>2. PICK after :
         /\ after[0] = q
         /\ \A j \in 1 .. Len(items) : after[j] = AppendItem(after[j - 1], items[j])
         /\ AppendItems(q, items) = after[Len(items)]
  BY <1>1, AppendItemsLoop
<1> DEFINE stage == [j \in 0 .. Len(items) |-> Built]
<1>3. Len(items) \in Nat /\ \A j \in 1 .. Len(items) : items[j] \in Proper
  OBVIOUS
<1>4. after[0] \in stage[0]
  BY <1>2, <1>3
<1>5. ASSUME NEW r \in Built, NEW item \in Proper PROVE AppendItem(r, item) \in Built
  <2>1. CASE item.role = "null"
    <3> DEFINE piece == Piece("null", item.arg.record, item.arg.col, 0, item.comma)
    <3>1. piece \in SqlPiece /\ piece.n = 0
      BY DEF Proper, ItemType, Argument, SqlPiece, Piece, Role
    <3>2. AppendItem(r, item) = AppendSQL(r, <<piece>>)
      BY <2>1 DEF AppendItem
    <3> HIDE DEF piece
    <3>3. /\ <<piece>> \in Seq(SqlPiece) /\ <<>> \in Seq(Argument)
          /\ \A i \in 1 .. Len(<<piece>>) : <<piece>>[i].n = 0
      BY <3>1
    <3> QED
      BY <3>2, <3>3, AppendMatches
  <2>2. CASE item.role # "null"
    BY <2>2, BindMatches DEF AppendItem, Proper, ItemType
  <2> QED
    BY <2>1, <2>2
<1>6. \A j \in 1 .. Len(items) : after[j - 1] \in stage[j - 1] => after[j] \in stage[j]
  BY <1>2, <1>3, <1>5
<1>7. \A j \in 0 .. Len(items) : after[j] \in stage[j]
  <2> HIDE DEF stage
  <2> QED
    BY <1>3, <1>4, <1>6, Rounds
<1> QED
  BY <1>2, <1>3, <1>7

LEMMA RowsMatch ==
    ASSUME NEW q \in Built, NEW n \in Nat, NEW rows \in [1 .. n -> Seq(Proper)],
           NEW results \in [1 .. n -> Seq(Argument)]
    PROVE  AppendRows(q, rows, results) \in Built
<1>1. q \in Query /\ rows \in [1 .. n -> Seq(ItemType)]
  <2>1. Seq(Proper) \subseteq Seq(ItemType)
    BY SeqMonotonic DEF Proper
  <2> QED
    BY <2>1 DEF Built
<1>2. PICK after :
         /\ after[0] = q
         /\ \A j \in 1 .. n :
               after[j] = AppendResults(AppendItems(after[j - 1], rows[j]), results[j])
         /\ AppendRows(q, rows, results) = after[n]
  BY <1>1, AppendRowsLoop
<1> DEFINE stage == [j \in 0 .. n |-> Built]
<1>3. after[0] \in stage[0]
  BY <1>2
<1>4. ASSUME NEW r \in Built, NEW j \in 1 .. n
      PROVE  AppendResults(AppendItems(r, rows[j]), results[j]) \in Built
  <2>1. AppendItems(r, rows[j]) \in Built
    BY ItemsMatch
  <2> QED
    BY <2>1, NoPieces, AppendMatches
<1>5. \A j \in 1 .. n : after[j - 1] \in stage[j - 1] => after[j] \in stage[j]
  BY <1>2, <1>4
<1>6. \A j \in 0 .. n : after[j] \in stage[j]
  <2> HIDE DEF stage
  <2> QED
    BY <1>3, <1>5, Rounds
<1> QED
  BY <1>2, <1>6

LEMMA ChangedMatch ==
    ASSUME NEW q \in Built, NEW list \in Seq(Range(cols)), NEW changed,
           NEW role, NEW what, <<role, what>> \in {<<"set", "data">>, <<"add", "mut">>}
    PROVE  AppendChanged(q, role, what, list, changed) \in Built
<1>1. /\ q \in Query
      /\ \/ role = "set" /\ what = "data"
         \/ role = "add" /\ what = "mut"
  BY DEF Built
<1>2. PICK after :
         /\ after[0] = q
         /\ \A j \in 1 .. Len(list) :
               after[j] = IF j \in changed
                          THEN Bind(after[j - 1], role,
                                    CommaBefore(after[j - 1], list, j),
                                    Expr(what, 1, list[j]))
                          ELSE after[j - 1]
         /\ AppendChanged(q, role, what, list, changed) = after[Len(list)]
  BY <1>1, AppendChangedLoop
<1> DEFINE stage == [j \in 0 .. Len(list) |-> Built]
<1>3. Len(list) \in Nat /\ \A j \in 1 .. Len(list) : list[j] \in Range(cols)
  OBVIOUS
<1>4. after[0] \in stage[0]
  BY <1>2, <1>3
<1>5. ASSUME NEW r \in Built, NEW j \in 1 .. Len(list)
      PROVE  Bind(r, role, CommaBefore(r, list, j), Expr(what, 1, list[j])) \in Built
  <2> DEFINE x == Expr(what, 1, list[j])
  <2>1. x \in Argument
    BY <1>1, <1>3 DEF Expr, Argument
  <2>2. x = Meant(Piece(role, x.record, x.col, 1, TRUE))
    BY <1>1 DEF Meant, Piece, Expr
  <2> HIDE DEF x
  <2> QED
    BY <1>1, <2>1, <2>2, BindMatches DEF CommaBefore, x
<1>6. \A j \in 1 .. Len(list) : after[j - 1] \in stage[j - 1] => after[j] \in stage[j]
  BY <1>2, <1>3, <1>5
<1>7. \A j \in 0 .. Len(list) : after[j] \in stage[j]
  <2> HIDE DEF stage
  <2> QED
    BY <1>3, <1>4, <1>6, Rounds
<1> QED
  BY <1>2, <1>3, <1>7

LEMMA IsSequence ==
    ASSUME NEW S, NEW n \in Nat, NEW f \in [1 .. n -> S]
    PROVE  f \in Seq(S) /\ Len(f) = n
<1>1. f \in Seq(S)
  BY SeqDef
<1> QED
  BY <1>1, LenProperties

LEMMA JoinShape ==
    ASSUME NEW S, NEW s \in Seq(S), NEW t \in Seq(S)
    PROVE  /\ s \o t \in Seq(S) /\ Len(s) \in Nat /\ Len(t) \in Nat
           /\ Len(s \o t) = Len(s) + Len(t)
           /\ \A j \in 1 .. Len(s) : (s \o t)[j] = s[j]
           /\ \A j \in 1 .. Len(t) : (s \o t)[Len(s) + j] = t[j]
BY ConcatProperties

LEMMA JoinPieces ==
    ASSUME NEW s \in Seq(SqlPiece), NEW t \in Seq(SqlPiece)
    PROVE  /\ s \o t \in Seq(SqlPiece) /\ Len(s) \in Nat /\ Len(t) \in Nat
           /\ Len(s \o t) = Len(s) + Len(t)
           /\ \A j \in 1 .. Len(s) : (s \o t)[j] = s[j]
           /\ \A j \in 1 .. Len(t) : (s \o t)[Len(s) + j] = t[j]
BY JoinShape

LEMMA RegroupPieces ==
    ASSUME NEW s \in Seq(SqlPiece), NEW t \in Seq(SqlPiece), NEW u \in Seq(SqlPiece)
    PROVE  s \o (t \o u) = (s \o t) \o u
<1>1. (s \o t) \o u = s \o (t \o u)
  BY ConcatAssociative
<1> QED
  BY ONLY <1>1

LEMMA JoinArguments ==
    ASSUME NEW s \in Seq(Argument), NEW t \in Seq(Argument)
    PROVE  /\ s \o t \in Seq(Argument) /\ Len(s) \in Nat /\ Len(t) \in Nat
           /\ Len(s \o t) = Len(s) + Len(t)
           /\ \A j \in 1 .. Len(s) : (s \o t)[j] = s[j]
           /\ \A j \in 1 .. Len(t) : (s \o t)[Len(s) + j] = t[j]
BY JoinShape

\* The clauses of the fixed statements.
LEMMA ClauseTypes ==
    ASSUME FillTypes, NEW list \in Seq(Range(cols)), NEW base \in Nat, NEW role \in Role,
           NEW i \in Nat, NEW what \in {"data", "mut", "sum"}
    PROVE  /\ Listed(role, list) \in Seq(SqlPiece)
           /\ Len(Listed(role, list)) = Len(list)
           /\ Numbered(role, list, base) \in Seq(SqlPiece)
           /\ Len(Numbered(role, list, base)) = Len(list)
           /\ Where(list, base) \in Seq(SqlPiece)
           /\ Len(Where(list, base)) = Len(list)
           /\ Added(base) \in Seq(SqlPiece)
           /\ Len(Added(base)) = Len(groups.mutators)
           /\ Exprs(what, i, list) \in Seq(Argument)
           /\ Len(Exprs(what, i, list)) = Len(list)
<1>1. /\ Len(list) \in Nat /\ DOMAIN list = 1 .. Len(list)
      /\ \A j \in 1 .. Len(list) : list[j] \in Range(cols)
  OBVIOUS
<1>2. /\ Len(groups.mutators) \in Nat
      /\ DOMAIN groups.mutators = 1 .. Len(groups.mutators)
      /\ \A j \in 1 .. Len(groups.mutators) : groups.mutators[j] \in Range(cols)
  BY ListTypes DEF Group
<1>3. ASSUME NEW c \in Range(cols), NEW n \in Nat, NEW comma \in BOOLEAN,
             NEW r \in Role
      PROVE  Piece(r, 1, c, n, comma) \in SqlPiece
  BY DEF Piece, SqlPiece
<1>4. ASSUME NEW l \in Seq(Range(cols)), NEW j \in DOMAIN l
      PROVE  l[j] \in Range(cols) /\ j \in Nat /\ base + j \in Nat
  OBVIOUS
<1>5. Listed(role, list) \in [1 .. Len(list) -> SqlPiece]
  <2>1. ASSUME NEW j \in DOMAIN list
        PROVE  Piece(role, 1, list[j], 0, j > 1) \in SqlPiece
    <3>1. (j > 1) \in BOOLEAN /\ list[j] \in Range(cols) /\ 0 \in Nat
      BY <1>4
    <3> QED
      BY <1>3, <3>1, Zenon
  <2> QED
    BY <1>1, <2>1 DEF Listed
<1>6. Numbered(role, list, base) \in [1 .. Len(list) -> SqlPiece]
  <2>1. ASSUME NEW j \in DOMAIN list
        PROVE  Piece(role, 1, list[j], base + j, j > 1) \in SqlPiece
    <3>1. (j > 1) \in BOOLEAN /\ list[j] \in Range(cols) /\ base + j \in Nat
      BY <1>4
    <3> QED
      BY <1>3, <3>1, Zenon
  <2> QED
    BY <1>1, <2>1 DEF Numbered
<1>7. Where(list, base) \in [1 .. Len(list) -> SqlPiece]
  <2>1. \A j \in DOMAIN list : Piece("where", 1, list[j], base + j, FALSE) \in SqlPiece
    BY <1>3, <1>4, "where" \in Role DEF Role
  <2> QED
    BY <1>1, <2>1 DEF Where
<1>8. Added(base) \in [1 .. Len(groups.mutators) -> SqlPiece]
  <2>1. \A j \in DOMAIN groups.mutators :
           Piece("add", 1, groups.mutators[j], base + j, AddedComma(j)) \in SqlPiece
    <3>1. groups.mutators \in Seq(Range(cols))
      BY ListTypes DEF Group
    <3>2. \A j \in DOMAIN groups.mutators : AddedComma(j) \in BOOLEAN
      BY DEF AddedComma
    <3>3. "add" \in Role
      BY DEF Role
    <3> QED
      BY <1>3, <1>4, <3>1, <3>2, <3>3
  <2> QED
    BY <1>2, <2>1 DEF Added
<1>9. Exprs(what, i, list) \in [1 .. Len(list) -> Argument]
  BY <1>1 DEF Exprs, Expr, Argument
<1> QED
  BY <1>1, <1>2, <1>5, <1>6, <1>7, <1>8, <1>9, IsSequence

LEMMA ExprsType ==
    ASSUME FillTypes, NEW i \in Nat, NEW list \in Seq(Range(cols))
    PROVE  /\ Exprs("data", i, list) \in Seq(Argument)
           /\ Len(Exprs("data", i, list)) = Len(list)
           /\ \A m \in 1 .. Len(list) : Exprs("data", i, list)[m] = Expr("data", i, list[m])
<1>1. DOMAIN list = 1 .. Len(list)
  OBVIOUS
<1>2. /\ Exprs("data", i, list) \in Seq(Argument)
      /\ Len(Exprs("data", i, list)) = Len(list)
  <2>1. "where" \in Role
    BY DEF Role
  <2> QED
    BY <2>1, ClauseTypes, 0 \in Nat, "data" \in {"data", "mut", "sum"}
<1> QED
  BY <1>1, <1>2 DEF Exprs

LEMMA ListedType ==
    ASSUME FillTypes, NEW list \in Seq(Range(cols)), NEW role \in Role
    PROVE  /\ Listed(role, list) \in Seq(SqlPiece)
           /\ Len(Listed(role, list)) = Len(list)
           /\ DOMAIN list = 1 .. Len(list)
           /\ \A m \in 1 .. Len(list) :
                 Listed(role, list)[m] = Piece(role, 1, list[m], 0, m > 1)
<1>1. DOMAIN list = 1 .. Len(list)
  OBVIOUS
<1>2. Listed(role, list) \in Seq(SqlPiece) /\ Len(Listed(role, list)) = Len(list)
  BY ClauseTypes, 0 \in Nat, 1 \in Nat, "data" \in {"data", "mut", "sum"}
<1> QED
  BY <1>1, <1>2 DEF Listed

LEMMA ListedMatches ==
    ASSUME FillTypes, NEW list \in Seq(Range(cols)), NEW base \in Nat, NEW role \in Role
    PROVE  Matches(Listed(role, list), <<>>, base)
<1>1. \A j \in 1 .. Len(Listed(role, list)) : Listed(role, list)[j].n = 0
  BY ClauseTypes DEF Listed, Piece
<1> QED
  BY <1>1, ClauseTypes, MatchNone

LEMMA NumberedMatches ==
    ASSUME FillTypes, NEW list \in Seq(Range(cols)), NEW base \in Nat
    PROVE  /\ Matches(Numbered("set", list, base), Exprs("data", 1, list), base)
           /\ Matches(Where(list, base), Exprs("data", 1, list), base)
           /\ Matches(Added(base), Exprs("mut", 1, groups.mutators), base)
<1>1. DOMAIN list = 1 .. Len(list)
  OBVIOUS
<1>2. groups.mutators \in Seq(Range(cols)) /\ DOMAIN groups.mutators = 1 .. Len(groups.mutators)
  BY ListTypes DEF Group
<1>3. /\ Exprs("data", 1, list) \in Seq(Argument)
      /\ Len(Exprs("data", 1, list)) = Len(list)
      /\ Exprs("mut", 1, groups.mutators) \in Seq(Argument)
      /\ Len(Exprs("mut", 1, groups.mutators)) = Len(groups.mutators)
  BY <1>2, ClauseTypes DEF Role
<1>4. Matches(Numbered("set", list, base), Exprs("data", 1, list), base)
  <2>1. /\ Numbered("set", list, base) \in Seq(SqlPiece)
        /\ Len(Numbered("set", list, base)) = Len(list)
    BY ClauseTypes DEF Role
  <2>2. \A j \in 1 .. Len(list) :
           /\ Numbered("set", list, base)[j].n = base + j
           /\ Exprs("data", 1, list)[j] = Meant(Numbered("set", list, base)[j])
    BY <1>1 DEF Numbered, Piece, Exprs, Meant
  <2> QED
    BY <1>3, <2>1, <2>2, MatchNumbered
<1>5. Matches(Where(list, base), Exprs("data", 1, list), base)
  <2>1. Where(list, base) \in Seq(SqlPiece) /\ Len(Where(list, base)) = Len(list)
    BY ClauseTypes DEF Role
  <2>2. \A j \in 1 .. Len(list) :
           /\ Where(list, base)[j].n = base + j
           /\ Exprs("data", 1, list)[j] = Meant(Where(list, base)[j])
    BY <1>1 DEF Where, Piece, Exprs, Meant
  <2> QED
    BY <1>3, <2>1, <2>2, MatchNumbered
<1>6. Matches(Added(base), Exprs("mut", 1, groups.mutators), base)
  <2>1. Added(base) \in Seq(SqlPiece) /\ Len(Added(base)) = Len(groups.mutators)
    BY <1>2, ClauseTypes DEF Role
  <2>2. \A j \in 1 .. Len(groups.mutators) :
           /\ Added(base)[j].n = base + j
           /\ Exprs("mut", 1, groups.mutators)[j] = Meant(Added(base)[j])
    BY <1>2 DEF Added, Piece, Exprs, Meant
  <2> QED
    BY <1>3, <2>1, <2>2, MatchNumbered
<1> QED
  BY <1>4, <1>5, <1>6

----------------------------------------------------------------------------
(* The statements.                                                         *)

LEMMA SimpleBuilt ==
    ASSUME NEW sql \in Seq(SqlPiece), NEW args \in Seq(Argument),
           NEW results \in Seq(Argument), Matches(sql, args, 0)
    PROVE  NewSimpleQuery(sql, args, results) \in Built
BY DEF NewSimpleQuery, Built, Query

LEMMA BuilderBuilt ==
    ASSUME NEW sql \in Seq(SqlPiece), \A i \in 1 .. Len(sql) : sql[i].n = 0
    PROVE  NewQueryBuilder(sql) \in Built
<1>1. <<>> \in Seq(Argument)
  OBVIOUS
<1>2. Matches(sql, <<>>, 0)
  BY MatchNone, 0 \in Nat
<1> QED
  BY <1>1, <1>2, SimpleBuilt DEF NewQueryBuilder

\* What the pass guarantees of the groups.
Listing ==
    /\ FillTypes
    /\ \A c \in table.primaryKey \cup Range(groups.updateValue) : c \notin table.mutators

LEMMA GroupTypes ==
    ASSUME Listing
    PROVE  /\ groups.insertValue \in Seq(Range(cols))
           /\ groups.insertResult \in Seq(Range(cols))
           /\ groups.updateValue \in Seq(Range(cols))
           /\ groups.updateResult \in Seq(Range(cols))
           /\ groups.mutators \in Seq(Range(cols))
           /\ cols \in Seq(Range(cols))
BY ListTypes, LayoutAssumption DEF Listing, FillTypes, Group

\* A column of VALUES and its argument.
LEMMA InsertArgType ==
    ASSUME NEW i \in Nat, NEW c \in Range(cols)
    PROVE  /\ InsertArg(i, c) \in Argument
           /\ InsertArg(i, c).record = i /\ InsertArg(i, c).col = c
BY DEF InsertArg, Expr, Argument

LEMMA DeleteBuilt ==
    ASSUME Listing, NEW key \in Seq(Range(cols))
    PROVE  QueryDelete(key) \in Built
<1>1. Where(key, 0) \in Seq(SqlPiece) /\ Exprs("data", 1, key) \in Seq(Argument)
  BY ClauseTypes, "where" \in Role DEF Listing, Role
<1>2. Matches(Where(key, 0), Exprs("data", 1, key), 0)
  BY NumberedMatches, 0 \in Nat DEF Listing
<1>3. <<>> \in Seq(Argument)
  OBVIOUS
<1> QED
  BY <1>1, <1>2, <1>3, SimpleBuilt DEF QueryDelete

\* WHERE and RETURNING.
LEMMA FoundBuilt ==
    ASSUME Listing, NEW key \in Seq(Range(cols)), NEW list \in Seq(Range(cols))
    PROVE  /\ NewSimpleQuery(Where(key, 0) \o Listed("returning", list),
                             Exprs("data", 1, key), Exprs("data", 1, list)) \in Built
           /\ NewSimpleQuery(Listed("returning", list) \o Where(key, 0),
                             Exprs("data", 1, key), Exprs("data", 1, list)) \in Built
<1> DEFINE w == Where(key, 0)
           l == Listed("returning", list)
           a == Exprs("data", 1, key)
<1>1. /\ w \in Seq(SqlPiece) /\ l \in Seq(SqlPiece)
      /\ a \in Seq(Argument) /\ Exprs("data", 1, list) \in Seq(Argument)
  BY ClauseTypes, "returning" \in Role, 0 \in Nat, 1 \in Nat DEF Listing, Role
<1>2. Matches(w, a, 0)
  BY NumberedMatches, 0 \in Nat DEF Listing
<1>3. \A base \in Nat : Matches(l, <<>>, base)
  BY ListedMatches, "returning" \in Role DEF Listing, Role
<1> HIDE DEF w, l, a
<1>4. /\ <<>> \in Seq(Argument) /\ a \o <<>> = a /\ <<>> \o a = a
      /\ Len(a) \in Nat /\ 0 + Len(a) \in Nat /\ Len(<<>>) = 0 /\ 0 + Len(<<>>) = 0
  BY <1>1
<1>5. Matches(w \o l, a \o <<>>, 0)
  BY <1>1, <1>2, <1>3, <1>4, MatchJoin, 0 \in Nat
<1>6. Matches(l \o w, <<>> \o a, 0)
  BY <1>1, <1>2, <1>3, <1>4, MatchJoin, 0 \in Nat
<1>7. w \o l \in Seq(SqlPiece) /\ l \o w \in Seq(SqlPiece)
  BY <1>1
<1> QED
  BY <1>1, <1>4, <1>5, <1>6, <1>7, SimpleBuilt DEF w, l, a

LEMMA SelectBuilt ==
    ASSUME Listing, NEW key \in Seq(Range(cols))
    PROVE  QuerySelect(key) \in Built /\ QuerySelectMutators(key) \in Built
BY GroupTypes, FoundBuilt DEF QuerySelect, QuerySelectMutators

LEMMA FullUpdateBuilt ==
    ASSUME Listing, NEW key \in Seq(Range(cols))
    PROVE  QueryFullUpdate(key) \in Built
<1> DEFINE u == groups.updateValue
           m == groups.mutators
           s == Numbered("set", u, 0)
           d == Added(Len(u))
           w == Where(key, Len(u) + Len(m))
           l == Listed("returning", groups.updateResult)
           a == Exprs("data", 1, u)
           b == Exprs("mut", 1, m)
           c == Exprs("data", 1, key)
<1>1. /\ u \in Seq(Range(cols)) /\ m \in Seq(Range(cols))
      /\ groups.updateResult \in Seq(Range(cols))
      /\ Len(u) \in Nat /\ Len(m) \in Nat /\ Len(u) + Len(m) \in Nat
      /\ FillTypes
  <2>1. /\ u \in Seq(Range(cols)) /\ m \in Seq(Range(cols)) /\ FillTypes
        /\ groups.updateResult \in Seq(Range(cols))
    BY GroupTypes DEF Listing
  <2> HIDE DEF u, m
  <2> QED
    BY <2>1
<1> HIDE DEF u, m
<1>2. /\ s \in Seq(SqlPiece) /\ a \in Seq(Argument) /\ Len(a) = Len(u)
      /\ Matches(s, a, 0)
  BY <1>1, ClauseTypes, NumberedMatches, 0 \in Nat, 1 \in Nat DEF Role
<1>3. /\ d \in Seq(SqlPiece) /\ b \in Seq(Argument) /\ Len(b) = Len(m)
      /\ Matches(d, b, Len(u))
  <2>1. "where" \in Role /\ "mut" \in {"data", "mut", "sum"}
    BY DEF Role
  <2>2. /\ d \in Seq(SqlPiece) /\ b \in Seq(Argument) /\ Len(b) = Len(m)
    BY <1>1, <2>1, ClauseTypes, 1 \in Nat
  <2>3. Matches(d, b, Len(u))
    BY <1>1, NumberedMatches DEF m
  <2> QED
    BY <2>2, <2>3
<1>4. /\ w \in Seq(SqlPiece) /\ c \in Seq(Argument)
      /\ Matches(w, c, Len(u) + Len(m))
  BY <1>1, ClauseTypes, NumberedMatches, 1 \in Nat DEF Role
<1>5. /\ l \in Seq(SqlPiece) /\ Exprs("data", 1, groups.updateResult) \in Seq(Argument)
      /\ \A base \in Nat : Matches(l, <<>>, base)
  BY <1>1, ClauseTypes, ListedMatches, 0 \in Nat, 1 \in Nat DEF Role
<1> HIDE DEF s, d, w, l, a, b, c
<1>6. /\ s \o d \in Seq(SqlPiece) /\ a \o b \in Seq(Argument)
      /\ Len(a \o b) = Len(u) + Len(m)
      /\ Matches(s \o d, a \o b, 0)
  <2>1. Matches(d, b, 0 + Len(a))
    BY <1>1, <1>2, <1>3
  <2>2. Matches(s \o d, a \o b, 0)
    BY <1>2, <1>3, <2>1, MatchJoin, 0 \in Nat
  <2>3. s \o d \in Seq(SqlPiece) /\ a \o b \in Seq(Argument)
    BY <1>2, <1>3
  <2>4. Len(a \o b) = Len(a) + Len(b)
    BY <1>2, <1>3, ConcatProperties
  <2> QED
    BY <1>2, <1>3, <2>2, <2>3, <2>4
<1>7. /\ s \o d \o w \in Seq(SqlPiece) /\ a \o b \o c \in Seq(Argument)
      /\ Len(a \o b \o c) \in Nat
      /\ Matches(s \o d \o w, a \o b \o c, 0)
  <2>1. Matches(w, c, 0 + Len(a \o b))
    BY <1>1, <1>4, <1>6
  <2>2. Matches(s \o d \o w, a \o b \o c, 0)
    BY <1>4, <1>6, <2>1, MatchJoin, 0 \in Nat
  <2> QED
    BY <1>4, <1>6, <2>2
<1>8. Matches(s \o d \o w \o l, a \o b \o c, 0)
  <2>1. /\ (a \o b \o c) \o <<>> = a \o b \o c /\ <<>> \in Seq(Argument)
        /\ 0 + Len(a \o b \o c) \in Nat
    BY <1>7
  <2>2. Matches(s \o d \o w \o l, (a \o b \o c) \o <<>>, 0)
    BY <1>5, <1>7, <2>1, MatchJoin, 0 \in Nat
  <2> QED
    BY <2>1, <2>2
<1>9. s \o d \o w \o l \in Seq(SqlPiece)
  BY <1>5, <1>7
<1> QED
  BY <1>5, <1>7, <1>8, <1>9, SimpleBuilt
     DEF QueryFullUpdate, FullUpdateWhere, s, d, w, l, a, b, c, u, m

\* The row of a record in VALUES, and its columns in WHERE.
LEMMA RowsProper ==
    ASSUME Listing, NEW i \in Nat, NEW key \in Seq(Range(cols))
    PROVE  /\ InsertRow(i) \in Seq(Proper)
           /\ UpdateRow(i) \in Seq(Proper)
           /\ KeyItems(i, key) \in Seq(Proper)
<1>1. /\ groups.insertValue \in Seq(Range(cols)) /\ cols \in Seq(Range(cols))
      /\ Len(groups.insertValue) \in Nat /\ Len(cols) \in Nat /\ Len(key) \in Nat
      /\ DOMAIN groups.insertValue = 1 .. Len(groups.insertValue)
      /\ DOMAIN cols = 1 .. Len(cols) /\ DOMAIN key = 1 .. Len(key)
  BY GroupTypes
<1>2. InsertRow(i) \in [1 .. Len(groups.insertValue) -> Proper]
  <2>1. ASSUME NEW j \in 1 .. Len(groups.insertValue)
        PROVE  Item("value", j > 1, InsertArg(i, groups.insertValue[j])) \in Proper
    <3> DEFINE x == InsertArg(i, groups.insertValue[j])
    <3>1. groups.insertValue[j] \in Range(cols) /\ (j > 1) \in BOOLEAN
      BY <1>1
    <3>2. x \in Argument /\ x.record = i /\ x.col = groups.insertValue[j]
      BY <3>1, InsertArgType
    <3>3. x = Meant(Piece("value", x.record, x.col, 1, TRUE))
      BY <3>2 DEF Meant, Piece
    <3> HIDE DEF x
    <3>4. Item("value", j > 1, x) \in ItemType
      BY <3>1, <3>2 DEF Item, ItemType
    <3> QED
      BY <3>3, <3>4 DEF Proper, Item, x
  <2> QED
    BY <1>1, <2>1 DEF InsertRow
<1>3. UpdateRow(i) \in [1 .. Len(cols) -> Proper]
  <2>1. ASSUME NEW j \in 1 .. Len(cols)
        PROVE  Item(Kind(cols[j]), j > 1,
                    Expr(IF Kind(cols[j]) = "mutator" THEN "mut" ELSE "data",
                         i, cols[j])) \in Proper
    <3> DEFINE k == Kind(cols[j])
               x == Expr(IF k = "mutator" THEN "mut" ELSE "data", i, cols[j])
    <3>1. cols[j] \in Range(cols) /\ (j > 1) \in BOOLEAN
      BY <1>1
    <3>2. /\ k \in {"value", "mutator", "null"}
          /\ k = "value" => cols[j] \notin table.mutators
      BY DEF Kind, Listing
    <3> HIDE DEF k
    <3>3. x \in Argument /\ x.record = i /\ x.col = cols[j]
      BY <3>1, <3>2 DEF Expr, Argument
    <3>4. k # "null" => x = Meant(Piece(k, x.record, x.col, 1, TRUE))
      BY <3>2 DEF Meant, Piece, Expr, InsertArg
    <3> HIDE DEF x
    <3>5. Item(k, j > 1, x) \in ItemType
      BY <3>1, <3>2, <3>3 DEF Item, ItemType
    <3> QED
      BY <3>4, <3>5 DEF Proper, Item, x, k
  <2> QED
    BY <1>1, <2>1 DEF UpdateRow
<1>4. KeyItems(i, key) \in [1 .. Len(key) -> Proper]
  <2>1. ASSUME NEW j \in 1 .. Len(key)
        PROVE  Item("where", FALSE, Expr("data", i, key[j])) \in Proper
    <3> DEFINE x == Expr("data", i, key[j])
    <3>1. x \in Argument
      BY <1>1 DEF Expr, Argument
    <3>2. x = Meant(Piece("where", x.record, x.col, 1, TRUE))
      BY DEF Expr, Meant, Piece
    <3> HIDE DEF x
    <3> QED
      BY <3>1, <3>2 DEF Proper, ItemType, Item, x
  <2> QED
    BY <1>1, <2>1 DEF KeyItems
<1> QED
  BY <1>1, <1>2, <1>3, <1>4, IsSequence

\* Clauses without placeholders.
LEMMA ListedZero ==
    ASSUME FillTypes, NEW list \in Seq(Range(cols)), NEW role \in Role
    PROVE  \A i \in 1 .. Len(Listed(role, list)) : Listed(role, list)[i].n = 0
BY ClauseTypes, 0 \in Nat, 1 \in Nat DEF Listed, Piece

LEMMA ZeroJoin ==
    ASSUME NEW s \in Seq(SqlPiece), NEW t \in Seq(SqlPiece),
           \A i \in 1 .. Len(s) : s[i].n = 0, \A i \in 1 .. Len(t) : t[i].n = 0
    PROVE  \A i \in 1 .. Len(s \o t) : (s \o t)[i].n = 0
<1>1. /\ Len(s) \in Nat /\ Len(t) \in Nat /\ Len(s \o t) = Len(s) + Len(t)
  OBVIOUS
<1> SUFFICES ASSUME NEW i \in 1 .. Len(s \o t) PROVE (s \o t)[i].n = 0
  OBVIOUS
<1>2. CASE i <= Len(s)
  <2>1. i \in 1 .. Len(s) /\ (s \o t)[i] = s[i]
    BY <1>1, <1>2
  <2> QED
    BY <2>1
<1>3. CASE i > Len(s)
  <2>1. i - Len(s) \in 1 .. Len(t) /\ (s \o t)[i] = t[i - Len(s)]
    BY <1>1, <1>3
  <2> QED
    BY <2>1
<1> QED
  BY <1>1, <1>2, <1>3

LEMMA InsertBuilt ==
    ASSUME Listing
    PROVE  QueryInsert \in Built
<1> DEFINE v == groups.insertValue
           m == groups.mutators
           s == Numbered("value", v, 0)
           e == Listed("excluded", groups.updateValue)
           d == Added(Len(v))
           l == Listed("returning", groups.insertResult)
           a == [j \in DOMAIN v |-> InsertArg(1, v[j])]
           b == Exprs("mut", 1, m)
           o == IF table.updateOnConflict THEN e \o d ELSE <<>>
           x == IF table.updateOnConflict THEN b ELSE <<>>
<1>1. /\ v \in Seq(Range(cols)) /\ m \in Seq(Range(cols)) /\ FillTypes
      /\ groups.insertResult \in Seq(Range(cols))
      /\ groups.updateValue \in Seq(Range(cols))
      /\ Len(v) \in Nat /\ DOMAIN v = 1 .. Len(v)
  BY GroupTypes, ListTypes DEF Listing, Group
<1>2. a \in Seq(Argument) /\ Len(a) = Len(v)
  <2>1. a \in [1 .. Len(v) -> Argument]
    BY <1>1, InsertArgType, 1 \in Nat
  <2> QED
    BY <1>1, <2>1, IsSequence
<1>3. s \in Seq(SqlPiece) /\ Matches(s, a, 0)
  <2>1. s \in Seq(SqlPiece) /\ Len(s) = Len(v)
    BY <1>1, ClauseTypes, 0 \in Nat, 1 \in Nat DEF Role
  <2>2. \A j \in 1 .. Len(v) : s[j].n = 0 + j /\ a[j] = Meant(s[j])
    BY <1>1 DEF Numbered, Piece, Meant
  <2> QED
    BY <1>2, <2>1, <2>2, MatchNumbered, 0 \in Nat
<1>4. o \in Seq(SqlPiece) /\ x \in Seq(Argument) /\ Matches(o, x, Len(v))
  <2>1. /\ e \in Seq(SqlPiece) /\ d \in Seq(SqlPiece) /\ b \in Seq(Argument)
    BY <1>1, ClauseTypes, 1 \in Nat DEF Role, m
  <2>2. Matches(e, <<>>, Len(v)) /\ Matches(d, b, Len(v))
    BY <1>1, ListedMatches, NumberedMatches DEF Role, m
  <2>3. <<>> \in Seq(SqlPiece) /\ <<>> \in Seq(Argument)
    BY NoPieces
  <2>4. CASE table.updateOnConflict
    <3> HIDE DEF e, d, b, v
    <3>1. /\ Len(v) + Len(<<>>) = Len(v) /\ <<>> \o b = b
          /\ e \o d \in Seq(SqlPiece)
      BY <1>1, <2>1
    <3>2. Matches(d, b, Len(v) + Len(<<>>))
      BY <2>2, <3>1
    <3>3. Matches(e \o d, <<>> \o b, Len(v))
      BY <1>1, <2>1, <2>2, <2>3, <3>2, MatchJoin
    <3>4. o = e \o d /\ x = b
      BY <2>4
    <3> HIDE DEF o, x
    <3> QED
      BY <2>1, <3>1, <3>3, <3>4
  <2>5. CASE ~table.updateOnConflict
    <3>1. Matches(<<>>, <<>>, Len(v))
      BY <1>1, NoPieces
    <3> QED
      BY <2>3, <2>5, <3>1
  <2> QED
    BY <2>4, <2>5
<1>5. /\ l \in Seq(SqlPiece) /\ Exprs("data", 1, groups.insertResult) \in Seq(Argument)
      /\ \A base \in Nat : Matches(l, <<>>, base)
  BY <1>1, ClauseTypes, ListedMatches, 0 \in Nat, 1 \in Nat DEF Role
<1>6. QueryInsert = NewSimpleQuery(s \o (o \o l), a \o x,
                                   Exprs("data", 1, groups.insertResult))
  BY DEF QueryInsert, InsertTail, OnConflict, InsertArgs
<1> HIDE DEF s, l, a, o, x
<1>7. o \o l \in Seq(SqlPiece) /\ Matches(o \o l, x, Len(v))
  <2>1. x \o <<>> = x /\ Len(v) + Len(x) \in Nat /\ <<>> \in Seq(Argument)
    BY <1>1, <1>4
  <2>2. Matches(l, <<>>, Len(v) + Len(x))
    BY <1>5, <2>1
  <2>3. Matches(o \o l, x \o <<>>, Len(v))
    BY <1>1, <1>4, <1>5, <2>1, <2>2, MatchJoin
  <2> QED
    BY <1>4, <1>5, <2>1, <2>3
<1>8. Matches(s \o (o \o l), a \o x, 0)
  <2>1. Matches(o \o l, x, 0 + Len(a))
    BY <1>1, <1>2, <1>7
  <2> QED
    BY <1>2, <1>3, <1>4, <1>7, <2>1, MatchJoin, 0 \in Nat
<1>9. s \o (o \o l) \in Seq(SqlPiece) /\ a \o x \in Seq(Argument)
  BY <1>2, <1>3, <1>4, <1>7
<1> QED
  BY <1>5, <1>6, <1>8, <1>9, SimpleBuilt

LEMMA InsertMultiBuilt ==
    ASSUME Listing, HasInsertMulti, NEW n \in Nat
    PROVE  QueryInsertMulti(n) \in Built
<1> DEFINE rows == [i \in 1 .. n |-> InsertRow(i)]
           results == [i \in 1 .. n |-> Exprs("data", i, groups.insertResult)]
<1>1. NewQueryBuilder(<<>>) \in Built
  BY NoPieces, BuilderBuilt
<1>2. rows \in [1 .. n -> Seq(Proper)]
  BY RowsProper, GroupTypes
<1>3. results \in [1 .. n -> Seq(Argument)]
  <2>1. groups.insertResult \in Seq(Range(cols)) /\ FillTypes
    BY GroupTypes DEF Listing
  <2>2. \A i \in Nat : Exprs("data", i, groups.insertResult) \in Seq(Argument)
    BY <2>1, ClauseTypes, "returning" \in Role, 0 \in Nat DEF Role
  <2> QED
    BY <2>2
<1>4. AppendRows(NewQueryBuilder(<<>>), rows, results) \in Built
  <2> HIDE DEF rows, results
  <2> QED
    BY <1>1, <1>2, <1>3, RowsMatch
<1>5. InsertTail \in Seq(SqlPiece) /\ \A i \in 1 .. Len(InsertTail) : InsertTail[i].n = 0
  <2> DEFINE e == Listed("excluded", groups.updateValue)
             l == Listed("returning", groups.insertResult)
             d == Added(Len(groups.insertValue))
  <2>1. /\ groups.insertResult \in Seq(Range(cols)) /\ FillTypes
        /\ groups.updateValue \in Seq(Range(cols))
        /\ Len(groups.insertValue) \in Nat
    BY GroupTypes, ListTypes DEF Listing, Group
  <2>2. e \in Seq(SqlPiece) /\ l \in Seq(SqlPiece) /\ d \in Seq(SqlPiece)
    BY <2>1, ClauseTypes, 0 \in Nat, 1 \in Nat DEF Role
  <2>3. /\ \A i \in 1 .. Len(e) : e[i].n = 0
        /\ \A i \in 1 .. Len(l) : l[i].n = 0
    BY <2>1, ListedZero DEF Role
  <2>4. table.updateOnConflict => d = <<>>
    BY DEF HasInsertMulti, Added
  <2>5. InsertTail = (IF table.updateOnConflict THEN e \o d ELSE <<>>) \o l
    BY DEF InsertTail, OnConflict
  <2> HIDE DEF e, l, d
  <2>6. CASE table.updateOnConflict
    <3>1. InsertTail = e \o l
      BY <2>2, <2>4, <2>5, <2>6
    <3> QED
      BY <2>2, <2>3, <3>1, ZeroJoin
  <2>7. CASE ~table.updateOnConflict
    <3>1. InsertTail = l
      BY <2>2, <2>5, <2>7
    <3> QED
      BY <2>2, <2>3, <3>1
  <2> QED
    BY <2>6, <2>7
<1>6. <<>> \in Seq(Argument)
  OBVIOUS
<1> QED
  BY <1>4, <1>5, <1>6, AppendMatches DEF QueryInsertMulti

LEMMA UpdateMultiBuilt ==
    ASSUME Listing, NEW n \in Nat, NEW key \in Seq(Range(cols))
    PROVE  QueryUpdateMulti(key, n) \in Built
<1> DEFINE rows == [i \in 1 .. n |-> UpdateRow(i)]
           results == [i \in 1 .. n |-> Exprs("data", i, groups.updateResult)]
           u == Listed("set", groups.updateValue)
           d == [j \in DOMAIN groups.mutators |->
                    Piece("add", 1, groups.mutators[j], 0, AddedComma(j))]
           w == [j \in DOMAIN key |-> Piece("where", 1, key[j], 0, FALSE)]
           l == Listed("returning", groups.updateResult)
<1>1. /\ groups.updateValue \in Seq(Range(cols)) /\ FillTypes
      /\ groups.mutators \in Seq(Range(cols))
      /\ groups.updateResult \in Seq(Range(cols))
  BY GroupTypes DEF Listing
<1>2. /\ u \in Seq(SqlPiece) /\ \A i \in 1 .. Len(u) : u[i].n = 0
      /\ l \in Seq(SqlPiece) /\ \A i \in 1 .. Len(l) : l[i].n = 0
  BY <1>1, ClauseTypes, ListedZero, 0 \in Nat, 1 \in Nat DEF Role
<1>3. /\ d \in Seq(SqlPiece) /\ \A i \in 1 .. Len(d) : d[i].n = 0
      /\ w \in Seq(SqlPiece) /\ \A i \in 1 .. Len(w) : w[i].n = 0
  <2>1. /\ \A j \in DOMAIN groups.mutators : groups.mutators[j] \in Range(cols)
        /\ \A j \in DOMAIN key : key[j] \in Range(cols)
        /\ DOMAIN groups.mutators = 1 .. Len(groups.mutators)
        /\ DOMAIN key = 1 .. Len(key) /\ Len(groups.mutators) \in Nat /\ Len(key) \in Nat
    BY <1>1
  <2>2. \A j \in DOMAIN groups.mutators :
           Piece("add", 1, groups.mutators[j], 0, AddedComma(j)) \in SqlPiece
    BY <2>1 DEF Piece, SqlPiece, Role, AddedComma
  <2>3. \A j \in DOMAIN key : Piece("where", 1, key[j], 0, FALSE) \in SqlPiece
    BY <2>1 DEF Piece, SqlPiece, Role
  <2>4. /\ d \in [1 .. Len(groups.mutators) -> SqlPiece]
        /\ w \in [1 .. Len(key) -> SqlPiece]
    BY <2>1, <2>2, <2>3
  <2>5. /\ \A j \in DOMAIN groups.mutators : d[j].n = 0
        /\ \A j \in DOMAIN key : w[j].n = 0
    BY DEF Piece
  <2> HIDE DEF d, w
  <2>6. /\ d \in Seq(SqlPiece) /\ Len(d) = Len(groups.mutators)
        /\ w \in Seq(SqlPiece) /\ Len(w) = Len(key)
    BY <2>1, <2>4, IsSequence
  <2> QED
    BY <2>1, <2>5, <2>6
<1>4. UpdateMultiHead = u \o d /\ UpdateMultiTail(key) = w \o l
  BY DEF UpdateMultiHead, UpdateMultiTail
<1>5. rows \in [1 .. n -> Seq(Proper)]
  BY RowsProper
<1>6. results \in [1 .. n -> Seq(Argument)]
  <2>1. \A i \in Nat : Exprs("data", i, groups.updateResult) \in Seq(Argument)
    BY <1>1, ClauseTypes, "returning" \in Role, 0 \in Nat DEF Role
  <2> QED
    BY <2>1
<1> HIDE DEF rows, results, u, d, w, l
<1>7. NewQueryBuilder(UpdateMultiHead) \in Built
  <2>1. u \o d \in Seq(SqlPiece) /\ \A i \in 1 .. Len(u \o d) : (u \o d)[i].n = 0
    BY <1>2, <1>3, ZeroJoin
  <2> QED
    BY <1>4, <2>1, BuilderBuilt
<1>8. AppendRows(NewQueryBuilder(UpdateMultiHead), rows, results) \in Built
  BY <1>5, <1>6, <1>7, RowsMatch
<1>9. w \o l \in Seq(SqlPiece) /\ \A i \in 1 .. Len(w \o l) : (w \o l)[i].n = 0
  BY <1>2, <1>3, ZeroJoin
<1> QED
  BY <1>4, <1>8, <1>9, NoPieces, AppendMatches DEF QueryUpdateMulti, rows, results

LEMMA UpdateBuilt ==
    ASSUME Listing, NEW key \in Seq(Range(cols)), NEW called, NEW counted
    PROVE  QueryUpdate(key, called, counted) \in Built
<1> DEFINE set == AppendChanged(NewQueryBuilder(<<>>), "set", "data",
                                groups.updateValue, {b + 1 : b \in MaskOf(called)})
           added == AppendChanged(set, "add", "mut", groups.mutators,
                                  {j \in DOMAIN groups.mutators :
                                      groups.mutators[j] \in counted})
           found == AppendItems(added, KeyItems(1, key))
           l == Listed("returning", groups.updateResult)
           e == Exprs("data", 1, groups.updateResult)
<1>1. /\ groups.updateValue \in Seq(Range(cols)) /\ FillTypes
      /\ groups.mutators \in Seq(Range(cols))
      /\ groups.updateResult \in Seq(Range(cols))
  BY GroupTypes DEF Listing
<1>2. NewQueryBuilder(<<>>) \in Built
  BY NoPieces, BuilderBuilt
<1>3. set \in Built
  BY <1>1, <1>2, ChangedMatch
<1> HIDE DEF set
<1>4. added \in Built
  BY <1>1, <1>3, ChangedMatch
<1> HIDE DEF added
<1>5. found \in Built
  BY <1>4, RowsProper, ItemsMatch, 1 \in Nat
<1>6. l \in Seq(SqlPiece) /\ e \in Seq(Argument) /\ \A i \in 1 .. Len(l) : l[i].n = 0
  BY <1>1, ClauseTypes, ListedZero, 0 \in Nat, 1 \in Nat DEF Role
<1> HIDE DEF found, l, e
<1>7. AppendSQL(found, l) \in Built
  BY <1>5, <1>6, AppendMatches
<1>8. AppendResults(AppendSQL(found, l), e) \in Built
  BY <1>6, <1>7, NoPieces, AppendMatches
<1> QED
  BY <1>8 DEF QueryUpdate, set, added, found, l, e

LEMMA MultiBuilt ==
    ASSUME Listing, NEW n \in Nat, NEW key \in Seq(Range(cols))
    PROVE  QueryDeleteMulti(key, n) \in Built /\ QuerySelectMulti(key, n) \in Built
<1> DEFINE rows == [i \in 1 .. n |-> KeyItems(i, key)]
           results == [i \in 1 .. n |-> <<>>]
           l == Listed("returning", cols)
           e == Exprs("data", 1, cols)
<1>1. rows \in [1 .. n -> Seq(Proper)] /\ results \in [1 .. n -> Seq(Argument)]
  BY RowsProper, NoPieces
<1>2. NewQueryBuilder(<<>>) \in Built
  BY NoPieces, BuilderBuilt
<1>3. QueryDeleteMulti(key, n) \in Built
  <2> HIDE DEF rows, results
  <2>1. AppendRows(NewQueryBuilder(<<>>), rows, results) \in Built
    BY <1>1, <1>2, RowsMatch
  <2> QED
    BY <2>1 DEF QueryDeleteMulti, rows, results
<1>4. l \in Seq(SqlPiece) /\ e \in Seq(Argument) /\ \A i \in 1 .. Len(l) : l[i].n = 0
  <2>1. cols \in Seq(Range(cols)) /\ FillTypes
    BY GroupTypes DEF Listing
  <2> QED
    BY <2>1, ClauseTypes, ListedZero, 0 \in Nat, 1 \in Nat DEF Role
<1> HIDE DEF l, e
<1>5. AppendSQL(QueryDeleteMulti(key, n), l) \in Built
  BY <1>3, <1>4, NoPieces, AppendMatches
<1>6. AppendResults(AppendSQL(QueryDeleteMulti(key, n), l), e) \in Built
  BY <1>4, <1>5, NoPieces, AppendMatches
<1> QED
  BY <1>3, <1>6 DEF QuerySelectMulti, l, e

\* The columns of a key, in any order.
LEMMA KeyTypes ==
    ASSUME FillTypes, NEW key \in Keys
    PROVE  key \in Seq(Range(cols)) /\ Range(key) = table.primaryKey
<1> DEFINE P == table.primaryKey
           D == 1 .. Cardinality(P)
<1>1. P \in SUBSET Range(cols)
  BY DEF FillTypes, TableOver
<1>2. IsFiniteSet(P)
  <2>1. /\ Len(cols) \in Nat /\ cols \in [1 .. Len(cols) -> Range(cols)]
        /\ DOMAIN cols = 1 .. Len(cols)
    BY ColumnTypes
  <2>2. cols \in Surjection(1 .. Len(cols), Range(cols))
    BY <2>1 DEF Surjection, Range
  <2>3. IsFiniteSet(1 .. Len(cols))
    BY <2>1, FS_Interval, 1 \in Int, Len(cols) \in Int
  <2>4. IsFiniteSet(Range(cols))
    BY <2>2, <2>3, FS_Surjection
  <2> QED
    BY <1>1, <2>4, FS_Subset
<1>3. Cardinality(P) \in Nat
  BY <1>2, FS_CardinalityType
<1>4. key \in [D -> P] /\ \A i, j \in D : i # j => key[i] # key[j]
  BY DEF Keys, SetToSeqs
<1> HIDE DEF P
<1>5. Range(key) = P
  <2>1. key \in Injection(D, P)
    BY <1>4 DEF Injection, IsInjective
  <2>2. Range(key) \subseteq P /\ key \in Injection(D, Range(key))
    BY <1>4, <2>1 DEF Range, Injection
  <2>3. IsFiniteSet(D) /\ Cardinality(D) = Cardinality(P)
    <3>1. Cardinality(D) = IF 1 > Cardinality(P) THEN 0 ELSE Cardinality(P) - 1 + 1
      BY <1>3, FS_Interval, 1 \in Int, Cardinality(P) \in Int
    <3> QED
      BY <1>3, <3>1, FS_Interval, 1 \in Int, Cardinality(P) \in Int
  <2>4. IsFiniteSet(Range(key)) /\ Cardinality(D) <= Cardinality(Range(key))
    BY <1>2, <2>2, <2>3, FS_Subset, FS_Injection
  <2>5. Cardinality(Range(key)) <= Cardinality(P)
    BY <1>2, <2>2, FS_Subset
  <2> QED
    BY <1>2, <1>3, <2>2, <2>3, <2>4, <2>5, FS_Subset, FS_CardinalityType
<1>6. key \in Seq(P)
  <2> HIDE DEF Keys
  <2> QED
    BY <1>3, <1>4, IsSequence
<1>7. key \in Seq(Range(cols))
  BY <1>1, <1>6, SeqMonotonic DEF P
<1> QED
  BY <1>5, <1>7 DEF P

\* No counter is in the key or among the columns an UPDATE sets.
LEMMA DoneListing ==
    ASSUME FillInv, GroupsAsDeclared, phase = "done"
    PROVE  Listing
<1>1. FillTypes /\ Sound /\ Accepted(decl)
      /\ Range(groups.updateValue) = UpdateValue(decl)
  BY DEF FillInv, GroupsAsDeclared, Generated
<1>2. table.primaryKey = decl.primaryKey /\ table.mutators = decl.mutators
  BY <1>1 DEF Sound, SameFlags
<1>3. decl.mutators \cap decl.primaryKey = {}
  BY <1>1 DEF Accepted
<1>4. UpdateValue(decl) \cap decl.mutators = {}
  BY DEF UpdateValue, ByStorage
<1> QED
  BY <1>1, <1>2, <1>3, <1>4 DEF Listing

\* Every statement of the table, whatever the columns of its key and whatever
\* slice it is given.
LEMMA QueriesBuilt ==
    ASSUME Listing
    PROVE  Queries \subseteq Built
<1>1. BatchSize \subseteq Nat
  BY BatchSizeAssumption
<1>2. cols \in Seq(Range(cols)) /\ \A key \in Keys : key \in Seq(Range(cols))
  BY GroupTypes, KeyTypes DEF Listing
<1>3. InsertQueries \subseteq Built
  BY <1>1, InsertBuilt, InsertMultiBuilt DEF InsertQueries
<1>4. ASSUME NEW key \in Seq(Range(cols)) PROVE SelectQueries(key) \subseteq Built
  BY <1>1, SelectBuilt, MultiBuilt DEF SelectQueries
<1>5. ASSUME NEW key \in Seq(Range(cols)) PROVE KeyQueries(key) \subseteq Built
  <2>1. QueryDelete(key) \in Built /\ QueryFullUpdate(key) \in Built
        /\ QuerySelectMutators(key) \in Built
    BY DeleteBuilt, FullUpdateBuilt, SelectBuilt
  <2>2. \A n \in BatchSize :
           QueryDeleteMulti(key, n) \in Built /\ QueryUpdateMulti(key, n) \in Built
    BY <1>1, MultiBuilt, UpdateMultiBuilt
  <2>3. \A x \in Changes : QueryUpdate(key, x[1], x[2]) \in Built
    BY UpdateBuilt
  <2> QED
    BY <2>1, <2>2, <2>3 DEF KeyQueries
<1> QED
  BY <1>2, <1>3, <1>4, <1>5 DEF Queries

\* In every statement generated for a table, fixed or put together, a placeholder
\* is bound to what is meant for its column and its record, and no argument is
\* without a placeholder: for tables of any number of columns, keys and slices of
\* any length.
THEOREM PlaceholdersCorrect == Spec => []PlaceholdersMatch
<1>1. ASSUME FillInv, GroupsAsDeclared PROVE PlaceholdersMatch
  <2> SUFFICES ASSUME phase = "done", NEW q \in Queries
               PROVE  /\ \A p \in Range(q.sql) :
                            p.n # 0 => p.n \in DOMAIN q.args /\ q.args[p.n] = Meant(p)
                      /\ DOMAIN q.args \subseteq {p.n : p \in Range(q.sql)}
    BY DEF PlaceholdersMatch
  <2>1. q \in Query /\ Matches(q.sql, q.args, 0)
    BY <1>1, DoneListing, QueriesBuilt DEF Built
  <2>2. q.sql \in Seq(SqlPiece) /\ q.args \in Seq(Argument)
    BY <2>1 DEF Query
  <2>3. \A p \in Range(q.sql) : p.n \in Nat /\ p.n - 0 = p.n
    <3>1. Range(q.sql) \subseteq SqlPiece
      BY <2>2 DEF Range
    <3> QED
      BY <3>1 DEF SqlPiece
  <2>4. \A a \in DOMAIN q.args : 0 + a = a
    BY <2>2
  <2> QED
    BY <2>1, <2>3, <2>4 DEF Matches
<1> QED
  BY <1>1, FillCorrect, GroupsCorrect, PTL

----------------------------------------------------------------------------
(* The SQL of a loop.                                                      *)

Shows(p, item) ==
    /\ p.role = item.role /\ p.comma = item.comma
    /\ p.record = item.arg.record /\ p.col = item.arg.col

\* The queries made of q by the first j of the items.
Longer(q, items, j) ==
    {r \in Query :
        /\ r.results = q.results
        /\ Len(r.sql) = Len(q.sql) + j
        /\ \A h \in 1 .. Len(q.sql) : r.sql[h] = q.sql[h]
        /\ \A m \in 1 .. j : Shows(r.sql[Len(q.sql) + m], items[m])}

LEMMA ItemShows ==
    ASSUME NEW r \in Query, NEW item \in ItemType
    PROVE  /\ AppendItem(r, item) \in Query
           /\ AppendItem(r, item).results = r.results
           /\ \E p \in SqlPiece : /\ AppendItem(r, item).sql = Append(r.sql, p)
                                 /\ Shows(p, item)
<1>1. r.sql \in Seq(SqlPiece) /\ Len(r.args) + 1 \in Nat
  BY DEF Query
<1>2. CASE item.role = "null"
  <2> DEFINE piece == Piece("null", item.arg.record, item.arg.col, 0, item.comma)
  <2>1. piece \in SqlPiece /\ Shows(piece, item)
    BY <1>2 DEF ItemType, Argument, SqlPiece, Piece, Role, Shows
  <2>2. AppendItem(r, item) = AppendSQL(r, <<piece>>)
    BY <1>2 DEF AppendItem
  <2> HIDE DEF piece
  <2>3. <<piece>> \in Seq(SqlPiece) /\ Append(r.sql, piece) = r.sql \o <<piece>>
    BY <1>1, <2>1
  <2>4. /\ AppendSQL(r, <<piece>>) \in Query
        /\ AppendSQL(r, <<piece>>).sql = r.sql \o <<piece>>
        /\ AppendSQL(r, <<piece>>).results = r.results
    BY <2>3, NoPieces, AppendType
  <2> QED
    BY <2>1, <2>2, <2>3, <2>4
<1>3. CASE item.role # "null"
  <2> DEFINE piece == Piece(item.role, item.arg.record, item.arg.col,
                            Len(r.args) + 1, item.comma)
  <2>1. item.role \in Role /\ item.arg \in Argument /\ item.comma \in BOOLEAN
    BY DEF ItemType, Role
  <2>2. piece \in SqlPiece /\ Shows(piece, item)
    BY <1>1, <2>1 DEF Argument, SqlPiece, Piece, Shows
  <2>3. AppendItem(r, item) = Bind(r, item.role, item.comma, item.arg)
    BY <1>3 DEF AppendItem
  <2>4. /\ Bind(r, item.role, item.comma, item.arg) \in Query
        /\ Bind(r, item.role, item.comma, item.arg).sql = Append(r.sql, piece)
        /\ Bind(r, item.role, item.comma, item.arg).results = r.results
    BY <2>1, BindType
  <2> HIDE DEF piece
  <2> QED
    BY <2>2, <2>3, <2>4
<1> QED
  BY <1>2, <1>3

LEMMA ItemsSql ==
    ASSUME NEW q \in Query, NEW items \in Seq(ItemType)
    PROVE  AppendItems(q, items) \in Longer(q, items, Len(items))
<1> DEFINE stage == [j \in 0 .. Len(items) |-> Longer(q, items, j)]
           n == Len(q.sql)
<1>1. PICK after :
         /\ after[0] = q
         /\ \A j \in 1 .. Len(items) : after[j] = AppendItem(after[j - 1], items[j])
         /\ AppendItems(q, items) = after[Len(items)]
  BY AppendItemsLoop
<1>2. /\ Len(items) \in Nat /\ \A j \in 1 .. Len(items) : items[j] \in ItemType
      /\ q.sql \in Seq(SqlPiece) /\ n \in Nat
  BY DEF Query
<1>3. after[0] \in stage[0]
  <2>1. q \in Longer(q, items, 0)
    BY <1>2 DEF Longer
  <2> QED
    BY <1>1, <1>2, <2>1
<1>4. ASSUME NEW j \in 1 .. Len(items), after[j - 1] \in stage[j - 1]
      PROVE  after[j] \in stage[j]
  <2> DEFINE r == after[j - 1]
             t == after[j]
  <2>1. j - 1 \in 0 .. Len(items) /\ j \in 0 .. Len(items)
    BY <1>2
  <2>2. r \in Longer(q, items, j - 1)
    BY <1>4, <2>1
  <2>3. t = AppendItem(r, items[j]) /\ items[j] \in ItemType
    BY <1>1, <1>2
  <2> HIDE DEF r, t
  <2>4. r \in Query /\ r.sql \in Seq(SqlPiece) /\ Len(r.sql) = n + (j - 1)
    BY <2>2 DEF Longer, Query
  <2>5. PICK p \in SqlPiece : t.sql = Append(r.sql, p) /\ Shows(p, items[j])
    BY <2>3, <2>4, ItemShows
  <2>6. t \in Query /\ t.results = q.results
    BY <2>2, <2>3, <2>4, ItemShows DEF Longer
  <2>7. /\ Len(t.sql) = n + j /\ t.sql[n + j] = p
        /\ \A h \in 1 .. n + (j - 1) : t.sql[h] = r.sql[h]
    BY <1>2, <2>1, <2>4, <2>5
  <2>8. \A h \in 1 .. n : t.sql[h] = q.sql[h]
    <3>1. \A h \in 1 .. n : h \in 1 .. n + (j - 1) /\ r.sql[h] = q.sql[h]
      BY <1>2, <2>1, <2>2 DEF Longer
    <3> QED
      BY <2>7, <3>1
  <2>9. ASSUME NEW m \in 1 .. j PROVE Shows(t.sql[n + m], items[m])
    <3>1. CASE m = j
      BY <2>5, <2>7, <3>1
    <3>2. CASE m # j
      <4>1. m \in 1 .. j - 1 /\ n + m \in 1 .. n + (j - 1)
        BY <1>2, <2>1, <3>2
      <4>2. Shows(r.sql[n + m], items[m])
        BY <2>2, <4>1 DEF Longer
      <4> QED
        BY <2>7, <4>1, <4>2
    <3> QED
      BY <3>1, <3>2
  <2>10. t \in Longer(q, items, j)
    BY <2>6, <2>7, <2>8, <2>9 DEF Longer
  <2> QED
    BY <2>1, <2>10 DEF t
<1>5. \A j \in 0 .. Len(items) : after[j] \in stage[j]
  <2> HIDE DEF stage
  <2> QED
    BY <1>2, <1>3, <1>4, Rounds
<1> QED
  BY <1>1, <1>2, <1>5

----------------------------------------------------------------------------
(* What a smart UPDATE changes.                                            *)

\* The columns that a statement names, and where.
Mentions(sql) == {<<sql[j].role, sql[j].col>> : j \in 1 .. Len(sql)}

LEMMA MentionsJoin ==
    ASSUME NEW s \in Seq(SqlPiece), NEW t \in Seq(SqlPiece)
    PROVE  Mentions(s \o t) = Mentions(s) \cup Mentions(t)
<1>1. /\ Len(s) \in Nat /\ Len(t) \in Nat /\ Len(s \o t) = Len(s) + Len(t)
      /\ \A j \in 1 .. Len(s) : (s \o t)[j] = s[j]
      /\ \A j \in 1 .. Len(t) : (s \o t)[Len(s) + j] = t[j]
  BY ConcatProperties
<1>2. ASSUME NEW j \in 1 .. Len(s \o t)
      PROVE  <<(s \o t)[j].role, (s \o t)[j].col>> \in Mentions(s) \cup Mentions(t)
  <2>1. CASE j \in 1 .. Len(s)
    BY <1>1, <2>1 DEF Mentions
  <2>2. CASE j \notin 1 .. Len(s)
    <3>1. j - Len(s) \in 1 .. Len(t) /\ Len(s) + (j - Len(s)) = j
      BY <1>1, <2>2
    <3>2. (s \o t)[j] = t[j - Len(s)]
      BY <1>1, <3>1
    <3> QED
      BY <3>1, <3>2 DEF Mentions
  <2> QED
    BY <2>1, <2>2
<1>3. ASSUME NEW j \in 1 .. Len(s) PROVE <<s[j].role, s[j].col>> \in Mentions(s \o t)
  <2>1. j \in 1 .. Len(s \o t) /\ (s \o t)[j] = s[j]
    BY <1>1
  <2> QED
    BY <2>1 DEF Mentions
<1>4. ASSUME NEW j \in 1 .. Len(t) PROVE <<t[j].role, t[j].col>> \in Mentions(s \o t)
  <2>1. Len(s) + j \in 1 .. Len(s \o t) /\ (s \o t)[Len(s) + j] = t[j]
    BY <1>1
  <2> QED
    BY <2>1 DEF Mentions
<1> QED
  BY <1>2, <1>3, <1>4 DEF Mentions

LEMMA BindMentions ==
    ASSUME NEW q \in Query, NEW x \in Argument, NEW comma \in BOOLEAN,
           NEW role \in Role
    PROVE  /\ Bind(q, role, comma, x) \in Query
           /\ Mentions(Bind(q, role, comma, x).sql) =
                  Mentions(q.sql) \cup {<<role, x.col>>}
<1> DEFINE piece == Piece(role, x.record, x.col, Len(q.args) + 1, comma)
<1>1. q.sql \in Seq(SqlPiece) /\ Len(q.args) + 1 \in Nat
  BY DEF Query
<1>2. piece \in SqlPiece /\ piece.role = role /\ piece.col = x.col
  BY <1>1 DEF Piece, SqlPiece, Argument
<1>3. /\ Bind(q, role, comma, x) \in Query
      /\ Bind(q, role, comma, x).sql = Append(q.sql, piece)
  BY BindType
<1> HIDE DEF piece
<1>4. <<piece>> \in Seq(SqlPiece) /\ Append(q.sql, piece) = q.sql \o <<piece>>
  BY <1>1, <1>2
<1>5. Mentions(<<piece>>) = {<<role, x.col>>}
  BY <1>2 DEF Mentions
<1>6. Mentions(q.sql \o <<piece>>) = Mentions(q.sql) \cup Mentions(<<piece>>)
  BY <1>1, <1>4, MentionsJoin
<1> QED
  BY <1>3, <1>4, <1>5, <1>6

\* The queries that name these columns.
WithMentions(M) == {q \in Query : Mentions(q.sql) = M}

LEMMA ChangedMentions ==
    ASSUME NEW q \in Query, NEW list \in Seq(Range(cols)), NEW changed,
           NEW role \in {"set", "add"}, NEW what \in {"data", "mut", "sum"}
    PROVE  AppendChanged(q, role, what, list, changed) \in
             WithMentions(Mentions(q.sql) \cup
                        {<<role, list[k]>> : k \in changed \cap (1 .. Len(list))})
<1> DEFINE upto(j) == {<<role, list[k]>> : k \in changed \cap (1 .. j)}
           stage == [j \in 0 .. Len(list) |-> WithMentions(Mentions(q.sql) \cup upto(j))]
<1>1. PICK after :
         /\ after[0] = q
         /\ \A j \in 1 .. Len(list) :
               after[j] = IF j \in changed
                          THEN Bind(after[j - 1], role,
                                    CommaBefore(after[j - 1], list, j),
                                    Expr(what, 1, list[j]))
                          ELSE after[j - 1]
         /\ AppendChanged(q, role, what, list, changed) = after[Len(list)]
  BY AppendChangedLoop
<1>2. Len(list) \in Nat /\ \A j \in 1 .. Len(list) : list[j] \in Range(cols)
  OBVIOUS
<1>3. after[0] \in stage[0]
  <2>1. upto(0) = {}
    OBVIOUS
  <2> QED
    BY <1>1, <1>2, <2>1 DEF WithMentions
<1>4. ASSUME NEW j \in 1 .. Len(list), after[j - 1] \in stage[j - 1]
      PROVE  after[j] \in stage[j]
  <2> DEFINE r == after[j - 1]
             x == Expr(what, 1, list[j])
  <2>1. j - 1 \in 0 .. Len(list) /\ j \in 0 .. Len(list)
    BY <1>2
  <2>2. r \in Query /\ Mentions(r.sql) = Mentions(q.sql) \cup upto(j - 1)
    BY <1>4, <2>1 DEF WithMentions
  <2>3. x \in Argument /\ x.col = list[j]
    BY <1>2 DEF Expr, Argument
  <2>4. 1 .. j = (1 .. j - 1) \cup {j}
    BY <1>2
  <2>5. CASE j \in changed
    <3>1. after[j] = Bind(r, role, CommaBefore(r, list, j), x)
      BY <1>1, <2>5
    <3>2. CommaBefore(r, list, j) \in BOOLEAN /\ role \in Role
      BY DEF CommaBefore, Role
    <3>3. upto(j) = upto(j - 1) \cup {<<role, list[j]>>}
      BY <2>4, <2>5
    <3> HIDE DEF r, x, upto
    <3>4. after[j] \in Query /\ Mentions(after[j].sql) =
             Mentions(r.sql) \cup {<<role, list[j]>>}
      BY <2>2, <2>3, <3>1, <3>2, BindMentions
    <3>5. after[j] \in WithMentions(Mentions(q.sql) \cup upto(j))
      BY <2>2, <3>3, <3>4 DEF WithMentions
    <3> QED
      BY <2>1, <3>5
  <2>6. CASE j \notin changed
    <3>1. after[j] = r
      BY <1>1, <2>6
    <3>2. upto(j) = upto(j - 1)
      BY <2>4, <2>6
    <3> HIDE DEF r, upto
    <3> QED
      BY <2>1, <2>2, <3>1, <3>2 DEF WithMentions
  <2> QED
    BY <2>5, <2>6
<1>5. \A j \in 0 .. Len(list) : after[j] \in stage[j]
  <2> HIDE DEF stage
  <2> QED
    BY <1>2, <1>3, <1>4, Rounds
<1> QED
  BY <1>1, <1>2, <1>5

LEMMA ItemsMentions ==
    ASSUME NEW q \in Query, NEW items \in Seq(ItemType)
    PROVE  AppendItems(q, items) \in
             WithMentions(Mentions(q.sql) \cup
                        {<<items[k].role, items[k].arg.col>> : k \in 1 .. Len(items)})
<1> DEFINE r == AppendItems(q, items)
           n == Len(q.sql)
           I == {<<items[k].role, items[k].arg.col>> : k \in 1 .. Len(items)}
<1>1. r \in Longer(q, items, Len(items))
  BY ItemsSql
<1>2. n \in Nat /\ Len(items) \in Nat
  BY DEF Query
<1> HIDE DEF r
<1>3. /\ r \in Query /\ Len(r.sql) = n + Len(items)
      /\ \A h \in 1 .. n : r.sql[h] = q.sql[h]
      /\ \A m \in 1 .. Len(items) : /\ r.sql[n + m].role = items[m].role
                                    /\ r.sql[n + m].col = items[m].arg.col
  BY <1>1 DEF Longer, Shows
<1>4. ASSUME NEW h \in 1 .. Len(r.sql)
      PROVE  <<r.sql[h].role, r.sql[h].col>> \in Mentions(q.sql) \cup I
  <2>1. CASE h <= n
    <3>1. h \in 1 .. n /\ r.sql[h] = q.sql[h]
      BY <1>2, <1>3, <2>1
    <3> QED
      BY <3>1 DEF Mentions
  <2>2. CASE h > n
    <3>1. h - n \in 1 .. Len(items) /\ n + (h - n) = h
      BY <1>2, <1>3, <2>2
    <3>2. r.sql[h].role = items[h - n].role /\ r.sql[h].col = items[h - n].arg.col
      BY <1>3, <3>1
    <3> QED
      BY <3>1, <3>2
  <2> QED
    BY <1>2, <1>3, <2>1, <2>2
<1>5. ASSUME NEW h \in 1 .. n PROVE <<q.sql[h].role, q.sql[h].col>> \in Mentions(r.sql)
  <2>1. h \in 1 .. Len(r.sql) /\ r.sql[h] = q.sql[h]
    BY <1>2, <1>3
  <2> QED
    BY <2>1 DEF Mentions
<1>6. ASSUME NEW m \in 1 .. Len(items)
      PROVE  <<items[m].role, items[m].arg.col>> \in Mentions(r.sql)
  <2>1. n + m \in 1 .. Len(r.sql)
    BY <1>2, <1>3
  <2> QED
    BY <1>3, <2>1 DEF Mentions
<1>7. Mentions(r.sql) = Mentions(q.sql) \cup I
  BY <1>4, <1>5, <1>6 DEF Mentions
<1> QED
  BY <1>3, <1>7 DEF WithMentions, r

\* All that a smart UPDATE names.
LEMMA UpdateMentions ==
    ASSUME Listing, NEW key \in Seq(Range(cols)), NEW called, NEW counted
    PROVE  Mentions(QueryUpdate(key, called, counted).sql) =
              {<<"set", groups.updateValue[k]>> :
                  k \in {b + 1 : b \in MaskOf(called)} \cap DOMAIN groups.updateValue}
              \cup {<<"add", groups.mutators[k]>> :
                  k \in {j \in DOMAIN groups.mutators : groups.mutators[j] \in counted}}
              \cup {<<"where", key[k]>> : k \in DOMAIN key}
              \cup {<<"returning", groups.updateResult[k]>> :
                  k \in DOMAIN groups.updateResult}
<1> DEFINE bits == {b + 1 : b \in MaskOf(called)}
           counts == {j \in DOMAIN groups.mutators : groups.mutators[j] \in counted}
           none == NewQueryBuilder(<<>>)
           set == AppendChanged(none, "set", "data", groups.updateValue, bits)
           added == AppendChanged(set, "add", "mut", groups.mutators, counts)
           found == AppendItems(added, KeyItems(1, key))
           l == Listed("returning", groups.updateResult)
           e == Exprs("data", 1, groups.updateResult)
           S == {<<"set", groups.updateValue[k]>> : k \in bits \cap DOMAIN groups.updateValue}
           A == {<<"add", groups.mutators[k]>> : k \in counts}
           W == {<<"where", key[k]>> : k \in DOMAIN key}
           R == {<<"returning", groups.updateResult[k]>> : k \in DOMAIN groups.updateResult}
<1>1. /\ groups.updateValue \in Seq(Range(cols)) /\ FillTypes
      /\ groups.mutators \in Seq(Range(cols))
      /\ groups.updateResult \in Seq(Range(cols))
      /\ DOMAIN groups.updateValue = 1 .. Len(groups.updateValue)
      /\ DOMAIN groups.mutators = 1 .. Len(groups.mutators)
      /\ DOMAIN groups.updateResult = 1 .. Len(groups.updateResult)
      /\ DOMAIN key = 1 .. Len(key) /\ Len(key) \in Nat
  BY GroupTypes, ListTypes DEF Listing, Group
<1>2. none \in Query /\ Mentions(none.sql) = {}
  <2>1. none \in Query
    BY NoPieces, BuilderBuilt DEF Built
  <2>2. none.sql = <<>>
    BY DEF NewQueryBuilder, NewSimpleQuery
  <2> QED
    BY <2>1, <2>2 DEF Mentions
<1> HIDE DEF none, bits
<1>3. set \in Query /\ Mentions(set.sql) = S
  <2>1. set \in WithMentions(Mentions(none.sql) \cup
                   {<<"set", groups.updateValue[k]>> :
                       k \in bits \cap (1 .. Len(groups.updateValue))})
    BY <1>1, <1>2, ChangedMentions
  <2> QED
    BY <1>1, <1>2, <2>1 DEF WithMentions
<1> HIDE DEF set, S, counts
<1>4. added \in Query /\ Mentions(added.sql) = S \cup A
  <2>1. added \in WithMentions(Mentions(set.sql) \cup
                   {<<"add", groups.mutators[k]>> :
                       k \in counts \cap (1 .. Len(groups.mutators))})
    BY <1>1, <1>3, ChangedMentions
  <2>2. counts \cap (1 .. Len(groups.mutators)) = counts
    BY <1>1 DEF counts
  <2> QED
    BY <1>3, <2>1, <2>2 DEF WithMentions
<1> HIDE DEF added, A
<1>5. found \in Query /\ Mentions(found.sql) = S \cup A \cup W
  <2> DEFINE items == KeyItems(1, key)
  <2>1. items \in Seq(ItemType)
    <3>1. items \in Seq(Proper)
      BY RowsProper, 1 \in Nat
    <3>2. Proper \subseteq ItemType
      BY DEF Proper
    <3> QED
      BY <3>1, <3>2, SeqMonotonic
  <2>2. /\ Len(items) = Len(key)
        /\ \A k \in 1 .. Len(key) : items[k].role = "where" /\ items[k].arg.col = key[k]
    BY <1>1 DEF KeyItems, Item, Expr
  <2> HIDE DEF items
  <2>3. AppendItems(added, items) \in WithMentions(Mentions(added.sql) \cup
           {<<items[k].role, items[k].arg.col>> : k \in 1 .. Len(items)})
    BY <1>4, <2>1, ItemsMentions
  <2>4. {<<items[k].role, items[k].arg.col>> : k \in 1 .. Len(items)} = W
    BY <1>1, <2>2
  <2> HIDE DEF W
  <2> QED
    BY <1>4, <2>3, <2>4 DEF WithMentions, items
<1>6. l \in Seq(SqlPiece) /\ Mentions(l) = R
  <2>1. l \in Seq(SqlPiece) /\ Len(l) = Len(groups.updateResult)
    BY <1>1, ClauseTypes, 0 \in Nat, 1 \in Nat DEF Role
  <2>2. \A k \in 1 .. Len(l) : l[k].role = "returning" /\ l[k].col = groups.updateResult[k]
    BY <1>1, <2>1 DEF Listed, Piece
  <2> HIDE DEF l
  <2> QED
    BY <1>1, <2>1, <2>2 DEF Mentions
<1>7. e \in Seq(Argument)
  BY <1>1, ClauseTypes, "where" \in Role, 0 \in Nat, 1 \in Nat DEF Role
<1> HIDE DEF found, l, e, W, R
<1> DEFINE q == AppendResults(AppendSQL(found, l), e)
<1>8. QueryUpdate(key, called, counted) = q
  BY DEF QueryUpdate, found, added, set, none, bits, counts, l, e
<1>9. q.sql = found.sql \o l /\ found.sql \in Seq(SqlPiece)
  <2>1. AppendSQL(found, l) \in Query /\ AppendSQL(found, l).sql = found.sql \o l
    BY <1>5, <1>6, NoPieces, AppendType
  <2>2. AppendResults(AppendSQL(found, l), e).sql = AppendSQL(found, l).sql
    BY <1>7, <2>1, NoPieces, AppendType
  <2> QED
    BY <1>5, <2>1, <2>2 DEF Query
<1> HIDE DEF q
<1>10. Mentions(q.sql) = S \cup A \cup W \cup R
  <2>1. Mentions(found.sql \o l) = Mentions(found.sql) \cup Mentions(l)
    BY <1>6, <1>9, MentionsJoin
  <2> QED
    BY <1>5, <1>6, <1>9, <2>1
<1> QED
  BY <1>8, <1>10 DEF S, A, W, R, bits, counts

LEMMA NamedColumns ==
    ASSUME NEW q \in Query, NEW role, NEW c
    PROVE  c \in ColumnsOf(q, role) <=> <<role, c>> \in Mentions(q.sql)
<1>1. DOMAIN q.sql = 1 .. Len(q.sql)
  BY DEF Query
<1>2. c \in ColumnsOf(q, role) <=>
         \E j \in 1 .. Len(q.sql) : q.sql[j].role = role /\ q.sql[j].col = c
  BY <1>1 DEF ColumnsOf, Range
<1> QED
  BY <1>2 DEF Mentions

\* The bits set by the setters that were called, and the columns that queryUpdate
\* finds by them.
LEMMA BitsSent ==
    ASSUME FillInv, WalkInv, GroupsAsDeclared, SettersFindTheirBit, phase = "done",
           ~table.disableActiveRecord, NEW called
    PROVE  {groups.updateValue[k] :
               k \in {b + 1 : b \in MaskOf(called)} \cap DOMAIN groups.updateValue} =
           called \cap UpdateValue(decl)
<1>1. /\ groups.updateValue \in Seq(Range(cols)) /\ groups.setters \in Seq(Range(cols))
      /\ Range(groups.updateValue) = UpdateValue(decl)
      /\ Len(groups.setters) \in Nat /\ next <= Len(groups.setters) + 1 /\ next \in Nat
  BY WalkedLists DEF Generated
<1>2. /\ bit \in Seq(Int) /\ Len(bit) = next - 1 /\ next > Len(groups.setters)
  BY DEF WalkInv, Generated
<1>3. DOMAIN bit = DOMAIN groups.setters /\ \A k \in DOMAIN bit : bit[k] \in Int
  BY <1>1, <1>2
<1>4. ASSUME NEW i \in DOMAIN groups.updateValue
      PROVE  i \in {b + 1 : b \in MaskOf(called)} <=> groups.updateValue[i] \in called
  <2>1. PICK n \in DOMAIN groups.setters :
           /\ groups.setters[n] = groups.updateValue[i]
           /\ \A k \in DOMAIN bit : bit[k] = i - 1 <=> k = n
    BY DEF SettersFindTheirBit
  <2>2. i \in Nat /\ i >= 1
    BY <1>1
  <2>3. ASSUME NEW b \in MaskOf(called), i = b + 1
        PROVE  groups.updateValue[i] \in called
    <3>1. PICK k \in DOMAIN bit : groups.setters[k] \in called /\ b = bit[k]
      BY DEF MaskOf
    <3>2. bit[k] = i - 1
      BY <1>3, <2>2, <2>3, <3>1
    <3> QED
      BY <2>1, <3>1, <3>2
  <2>4. ASSUME groups.updateValue[i] \in called
        PROVE  i \in {b + 1 : b \in MaskOf(called)}
    <3>1. bit[n] = i - 1 /\ bit[n] # -1
      BY <1>3, <2>1, <2>2
    <3>2. bit[n] \in MaskOf(called)
      BY <1>3, <2>1, <2>4, <3>1 DEF MaskOf
    <3> QED
      BY <2>2, <3>1, <3>2
  <2> QED
    BY <2>3, <2>4
<1> DEFINE M == {b + 1 : b \in MaskOf(called)}
<1> HIDE DEF M
<1>5. {groups.updateValue[k] : k \in M \cap DOMAIN groups.updateValue} =
         {c \in Range(groups.updateValue) : c \in called}
  BY <1>4 DEF Range, M
<1> QED
  BY <1>1, <1>5 DEF M

\* A smart UPDATE sets the columns whose setters were called, adds to the counters
\* that were counted on and finds the row by the whole key, whatever the table: the
\* bit a setter sets in updateMask is the one queryUpdate tests for its column.
THEOREM UpdateSendsCorrect == Spec => []UpdateSendsChanges
<1>1. ASSUME FillInv, WalkInv, GroupsAsDeclared, SettersFindTheirBit
      PROVE  UpdateSendsChanges
  <2> SUFFICES ASSUME phase = "done", ~table.disableActiveRecord,
                      NEW key \in Keys, NEW x \in Changes
               PROVE  LET q == QueryUpdate(key, x[1], x[2])
                      IN /\ ColumnsOf(q, "set") = x[1] \cap UpdateValue(decl)
                         /\ ColumnsOf(q, "add") = x[2]
                         /\ ColumnsOf(q, "where") = decl.primaryKey
                         /\ ColumnsOf(q, "returning") = UpdateResult(decl)
    BY DEF UpdateSendsChanges
  <2> DEFINE q == QueryUpdate(key, x[1], x[2])
             bits == {b + 1 : b \in MaskOf(x[1])} \cap DOMAIN groups.updateValue
             counts == {j \in DOMAIN groups.mutators : groups.mutators[j] \in x[2]}
             S == {<<"set", groups.updateValue[k]>> : k \in bits}
             A == {<<"add", groups.mutators[k]>> : k \in counts}
             W == {<<"where", key[k]>> : k \in DOMAIN key}
             R == {<<"returning", groups.updateResult[k]>> :
                      k \in DOMAIN groups.updateResult}
             M == S \cup A \cup W \cup R
  <2>1. Listing
    BY <1>1, DoneListing
  <2>2. /\ key \in Seq(Range(cols)) /\ Range(key) = table.primaryKey
        /\ table.primaryKey = decl.primaryKey
        /\ Range(groups.updateResult) = UpdateResult(decl)
    <3>1. /\ FillTypes /\ Sound
          /\ Range(groups.updateResult) = UpdateResult(decl)
      BY <1>1 DEF FillInv, GroupsAsDeclared, Generated
    <3> QED
      BY <3>1, KeyTypes DEF Sound, SameFlags
  <2>3. q \in Query
    BY <2>1, <2>2, UpdateBuilt DEF Built
  <2>4. Mentions(q.sql) = M
    BY <2>1, <2>2, UpdateMentions
  <2>5. {groups.updateValue[k] : k \in bits} = x[1] \cap UpdateValue(decl)
    BY <1>1, BitsSent
  <2>6. x[2] \subseteq Range(groups.mutators)
    BY DEF Changes, Selections
  <2>7. {groups.mutators[k] : k \in counts} = x[2]
    BY <2>6 DEF Range
  <2> HIDE DEF q, bits, counts
  <2>8. \A role, c : c \in ColumnsOf(q, role) <=> <<role, c>> \in M
    <3> HIDE DEF M
    <3> QED
      BY <2>3, <2>4, NamedColumns
  <2>9. \A c : <<"set", c>> \in M <=> c \in {groups.updateValue[k] : k \in bits}
    OBVIOUS
  <2>10. \A c : <<"add", c>> \in M <=> c \in {groups.mutators[k] : k \in counts}
    OBVIOUS
  <2>11. \A c : <<"where", c>> \in M <=> c \in {key[k] : k \in DOMAIN key}
    OBVIOUS
  <2>12. \A c : <<"returning", c>> \in M <=>
            c \in {groups.updateResult[k] : k \in DOMAIN groups.updateResult}
    OBVIOUS
  <2>13. /\ {key[k] : k \in DOMAIN key} = decl.primaryKey
         /\ {groups.updateResult[k] : k \in DOMAIN groups.updateResult} =
               UpdateResult(decl)
    BY <2>2 DEF Range
  <2> HIDE DEF M
  <2>14. /\ ColumnsOf(q, "set") = x[1] \cap UpdateValue(decl)
         /\ ColumnsOf(q, "add") = x[2]
         /\ ColumnsOf(q, "where") = decl.primaryKey
         /\ ColumnsOf(q, "returning") = UpdateResult(decl)
    BY <2>5, <2>7, <2>8, <2>9, <2>10, <2>11, <2>12, <2>13
  <2> QED
    BY <2>14 DEF q
<1> QED
  BY <1>1, WalkCorrect, GroupsCorrect, SettersCorrect, PTL

----------------------------------------------------------------------------
(* Results.                                                                *)

NoReturning(sql) == \A j \in 1 .. Len(sql) : sql[j].role # "returning"

\* The columns of list, for each of the first n records in turn.
InRounds(results, n, list) ==
    /\ Len(results) = n * Len(list)
    /\ \A i \in 1 .. n, m \in 1 .. Len(list) :
          results[(i - 1) * Len(list) + m] = Expr("data", i, list[m])

LEMMA Product ==
    ASSUME NEW i \in Nat, NEW j \in Nat, NEW k \in Nat, i <= j
    PROVE  /\ i * k \in Nat /\ j * k \in Nat /\ i * k <= j * k
           /\ (i + 1) * k = i * k + k
<1>1. PICK d \in Nat : j = i + d
  BY j - i \in Nat
<1>2. d * k \in Nat /\ j * k = i * k + d * k
  BY <1>1
<1>3. i * k \in Nat /\ j * k \in Nat
  OBVIOUS
<1>4. i * k <= j * k
  BY <1>2, <1>3
<1> QED
  BY <1>3, <1>4

LEMMA NoReturningJoin ==
    ASSUME NEW s \in Seq(SqlPiece), NEW t \in Seq(SqlPiece), NoReturning(s), NoReturning(t)
    PROVE  NoReturning(s \o t)
<1>1. /\ Len(s) \in Nat /\ Len(t) \in Nat /\ Len(s \o t) = Len(s) + Len(t)
  BY ConcatProperties
<1> SUFFICES ASSUME NEW j \in 1 .. Len(s \o t) PROVE (s \o t)[j].role # "returning"
  BY DEF NoReturning
<1>2. CASE j <= Len(s)
  <2>1. j \in 1 .. Len(s) /\ (s \o t)[j] = s[j]
    BY <1>1, <1>2
  <2> QED
    BY <2>1 DEF NoReturning
<1>3. CASE j > Len(s)
  <2>1. j - Len(s) \in 1 .. Len(t) /\ (s \o t)[j] = t[j - Len(s)]
    BY <1>1, <1>3
  <2> QED
    BY <2>1 DEF NoReturning
<1> QED
  BY <1>1, <1>2, <1>3

LEMMA ClausesNoReturning ==
    ASSUME FillTypes, NEW list \in Seq(Range(cols)), NEW base \in Nat,
           NEW role \in Role \ {"returning"}
    PROVE  /\ NoReturning(Listed(role, list)) /\ NoReturning(Numbered(role, list, base))
           /\ NoReturning(Where(list, base)) /\ NoReturning(Added(base))
           /\ NoReturning(<<>>)
<1>1. /\ Len(Listed(role, list)) = Len(list) /\ Len(Numbered(role, list, base)) = Len(list)
      /\ Len(Where(list, base)) = Len(list) /\ Len(Added(base)) = Len(groups.mutators)
  BY ClauseTypes, 1 \in Nat
<1>2. DOMAIN list = 1 .. Len(list) /\ DOMAIN groups.mutators = 1 .. Len(groups.mutators)
  BY ListTypes DEF Group
<1>3. NoReturning(Listed(role, list)) /\ NoReturning(Numbered(role, list, base))
  BY <1>1, <1>2 DEF NoReturning, Listed, Numbered, Piece
<1>4. NoReturning(Where(list, base)) /\ NoReturning(Added(base))
  BY <1>1, <1>2 DEF NoReturning, Where, Added, Piece
<1> QED
  BY <1>3, <1>4 DEF NoReturning

LEMMA EndsInTurn ==
    ASSUME FillTypes, NEW q \in Query, NEW s \in Seq(SqlPiece), NoReturning(s),
           NEW list \in Seq(Range(cols)), q.sql = s \o Listed("returning", list),
           NEW n \in Nat, InRounds(q.results, n, list)
    PROVE  InTurn(q, n)
<1> DEFINE l == Listed("returning", list)
           tail == SubSeq(q.sql, Len(s) + 1, Len(q.sql))
<1>1. l \in Seq(SqlPiece) /\ Len(l) = Len(list) /\ DOMAIN list = 1 .. Len(list)
  BY ListedType DEF Role
<1>2. \A m \in 1 .. Len(list) : l[m].role = "returning" /\ l[m].col = list[m]
  <2>1. "returning" \in Role
    BY DEF Role
  <2>2. \A m \in 1 .. Len(list) : l[m] = Piece("returning", 1, list[m], 0, m > 1)
    BY <2>1, ListedType, Zenon
  <2> HIDE DEF l
  <2>3. ASSUME NEW m \in 1 .. Len(list)
        PROVE  l[m].role = "returning" /\ l[m].col = list[m]
    <3>1. l[m] = Piece("returning", 1, list[m], 0, m > 1)
      BY <2>2
    <3> QED
      BY <3>1 DEF Piece
  <2> QED
    BY <2>3
<1> HIDE DEF l
<1>3. /\ Len(s) \in Nat /\ Len(list) \in Nat /\ Len(q.sql) = Len(s) + Len(list)
      /\ \A j \in 1 .. Len(s) : q.sql[j] = s[j]
      /\ \A m \in 1 .. Len(list) : q.sql[Len(s) + m] = l[m]
      /\ DOMAIN q.sql = 1 .. Len(q.sql)
  <2>1. q.sql = s \o l /\ q.sql \in Seq(SqlPiece)
    BY DEF l, Query
  <2>2. /\ Len(s) \in Nat /\ Len(l) \in Nat /\ Len(s \o l) = Len(s) + Len(l)
        /\ \A j \in 1 .. Len(s) : (s \o l)[j] = s[j]
        /\ \A m \in 1 .. Len(l) : (s \o l)[Len(s) + m] = l[m]
    BY <1>1, JoinPieces, Zenon
  <2>3. DOMAIN q.sql = 1 .. Len(q.sql)
    BY <2>1
  <2> QED
    BY <1>1, <2>1, <2>2, <2>3, Zenon
<1>4. tail = l
  BY <1>1, <1>3 DEF l
<1>5. ASSUME NEW j \in DOMAIN q.sql
      PROVE  q.sql[j].role = "returning" <=> j > Len(s)
  <2>1. CASE j <= Len(s)
    <3>1. j \in 1 .. Len(s)
      BY <1>3, <2>1
    <3> QED
      BY <1>3, <2>1, <3>1 DEF NoReturning
  <2>2. CASE j > Len(s)
    <3>1. j - Len(s) \in 1 .. Len(list) /\ Len(s) + (j - Len(s)) = j
      BY <1>3, <2>2
    <3> QED
      BY <1>2, <1>3, <2>2, <3>1
  <2> QED
    BY <1>3, <2>1, <2>2
<1> HIDE DEF tail
<1>6. /\ Len(q.results) = n * Len(tail)
      /\ \A i \in 1 .. n, m \in 1 .. Len(tail) :
            q.results[(i - 1) * Len(tail) + m] = Expr("data", i, tail[m].col)
  BY <1>1, <1>2, <1>4 DEF InRounds
<1>7. Len(s) \in 0 .. Len(q.sql)
  BY <1>3
<1> QED
  BY <1>5, <1>6, <1>7 DEF InTurn, tail

LEMMA RoundJoin ==
    ASSUME NEW list \in Seq(Range(cols)), NEW results \in Seq(Argument),
           NEW j \in Nat, InRounds(results, j, list), FillTypes
    PROVE  InRounds(results \o Exprs("data", j + 1, list), j + 1, list)
<1> DEFINE e == Exprs("data", j + 1, list)
           L == Len(list)
<1>1. /\ e \in Seq(Argument) /\ Len(e) = L /\ L \in Nat
      /\ \A m \in 1 .. L : e[m] = Expr("data", j + 1, list[m])
  <2>1. e \in Seq(Argument) /\ Len(e) = L
    BY ClauseTypes, "where" \in Role, 0 \in Nat, j + 1 \in Nat DEF Role
  <2>2. \A m \in 1 .. L : e[m] = Expr("data", j + 1, list[m])
    BY DEF Exprs
  <2> QED
    BY <2>1, <2>2
<1>2. Len(results) = j * L /\ j * L \in Nat /\ (j + 1) * L = j * L + L
  BY <1>1, Product DEF InRounds
<1> HIDE DEF e, L
<1>3. /\ Len(results \o e) = (j + 1) * L
      /\ \A h \in 1 .. j * L : (results \o e)[h] = results[h]
      /\ \A m \in 1 .. L : (results \o e)[j * L + m] = e[m]
  <2>1. /\ Len(results \o e) = Len(results) + Len(e)
        /\ \A h \in 1 .. Len(results) : (results \o e)[h] = results[h]
        /\ \A m \in 1 .. Len(e) : (results \o e)[Len(results) + m] = e[m]
    BY <1>1, JoinArguments, Zenon
  <2> QED
    BY <1>1, <1>2, <2>1
<1>4. ASSUME NEW i \in 1 .. j + 1, NEW m \in 1 .. L
      PROVE  (results \o e)[(i - 1) * L + m] = Expr("data", i, list[m])
  <2>1. CASE i = j + 1
    <3>1. (i - 1) * L = j * L
      BY <2>1
    <3> QED
      BY <1>1, <1>3, <2>1, <3>1
  <2>2. CASE i # j + 1
    <3>1. i \in 1 .. j /\ i - 1 \in Nat /\ i \in Nat /\ i <= j /\ (i - 1) + 1 = i
      BY <2>2
    <3>2. i * L <= j * L /\ i * L = (i - 1) * L + L /\ (i - 1) * L \in Nat
      BY <1>1, <3>1, Product
    <3>3. (i - 1) * L + m \in 1 .. j * L
      <4> DEFINE a == (i - 1) * L
                 b == i * L
                 c == j * L
      <4>1. a \in Nat /\ b = a + L /\ b <= c /\ c \in Nat
        BY <1>2, <3>2
      <4> HIDE DEF a, b, c
      <4>2. a + m \in 1 .. c
        BY <1>1, <4>1
      <4> QED
        BY <4>2 DEF a, c
    <3>4. results[(i - 1) * L + m] = Expr("data", i, list[m])
      BY <3>1 DEF InRounds, L
    <3> QED
      BY <1>3, <3>3, <3>4
  <2> QED
    BY <2>1, <2>2
<1> QED
  BY <1>3, <1>4 DEF InRounds, e, L

\* The queries that have scanned the rows of j records, RETURNING not yet written.
Scanned(j, list) ==
    {q \in Query : NoReturning(q.sql) /\ InRounds(q.results, j, list)}

LEMMA ItemsKeepScanned ==
    ASSUME NEW list, NEW j \in Nat, NEW q \in Scanned(j, list), NEW items \in Seq(ItemType)
    PROVE  AppendItems(q, items) \in Scanned(j, list)
<1> DEFINE r == AppendItems(q, items)
           n == Len(q.sql)
<1>1. /\ q \in Query /\ NoReturning(q.sql) /\ InRounds(q.results, j, list)
      /\ n \in Nat /\ Len(items) \in Nat
  BY DEF Scanned, Query
<1>2. r \in Longer(q, items, Len(items))
  BY <1>1, ItemsSql
<1> HIDE DEF r
<1>3. /\ r \in Query /\ r.results = q.results /\ Len(r.sql) = n + Len(items)
      /\ \A h \in 1 .. n : r.sql[h] = q.sql[h]
      /\ \A m \in 1 .. Len(items) : r.sql[n + m].role = items[m].role
  BY <1>2 DEF Longer, Shows
<1>4. \A m \in 1 .. Len(items) : items[m].role # "returning"
  <2>1. \A m \in 1 .. Len(items) : items[m] \in ItemType
    OBVIOUS
  <2>2. \A item \in ItemType : item.role # "returning"
    BY DEF ItemType
  <2> QED
    BY <2>1, <2>2
<1>5. ASSUME NEW h \in 1 .. Len(r.sql) PROVE r.sql[h].role # "returning"
  <2>1. CASE h <= n
    <3>1. h \in 1 .. n
      BY <1>1, <1>3, <2>1
    <3> QED
      BY <1>1, <1>3, <3>1 DEF NoReturning
  <2>2. CASE h > n
    <3>1. h - n \in 1 .. Len(items) /\ n + (h - n) = h
      BY <1>1, <1>3, <2>2
    <3>2. r.sql[h].role = items[h - n].role
      BY <1>3, <3>1
    <3> QED
      BY <1>4, <3>1, <3>2
  <2> QED
    BY <1>1, <1>3, <2>1, <2>2
<1>6. r \in Scanned(j, list)
  BY <1>1, <1>3, <1>5 DEF Scanned, NoReturning
<1> QED
  BY <1>6 DEF r

LEMMA RowsScanned ==
    ASSUME FillTypes, NEW list \in Seq(Range(cols)), NEW q \in Scanned(0, list),
           NEW n \in Nat, NEW rows \in [1 .. n -> Seq(ItemType)]
    PROVE  AppendRows(q, rows, [i \in 1 .. n |-> Exprs("data", i, list)])
               \in Scanned(n, list)
<1> DEFINE results == [i \in 1 .. n |-> Exprs("data", i, list)]
           stage == [j \in 0 .. n |-> Scanned(j, list)]
<1>0. n \in Nat /\ rows \in [1 .. n -> Seq(ItemType)]
  OBVIOUS
<1>1. \A i \in Nat : Exprs("data", i, list) \in Seq(Argument)
  BY ExprsType
<1>2. results \in [1 .. n -> Seq(Argument)]
  BY <1>1
<1>3. q \in Query
  BY DEF Scanned
<1> HIDE DEF results
<1>4. PICK after :
         /\ after[0] = q
         /\ \A j \in 1 .. n :
               after[j] = AppendResults(AppendItems(after[j - 1], rows[j]), results[j])
         /\ AppendRows(q, rows, results) = after[n]
  BY ONLY <1>0, <1>2, <1>3, AppendRowsLoop
<1>5. after[0] \in stage[0]
  BY <1>4
<1>6. ASSUME NEW j \in 1 .. n, after[j - 1] \in stage[j - 1]
      PROVE  after[j] \in stage[j]
  <2> DEFINE s == AppendItems(after[j - 1], rows[j])
             e == Exprs("data", j, list)
  <2>1. j - 1 \in 0 .. n /\ j \in 0 .. n /\ j - 1 \in Nat /\ (j - 1) + 1 = j
        /\ results[j] = e
    BY DEF results
  <2>2. after[j - 1] \in Scanned(j - 1, list)
    BY <1>6, <2>1
  <2>3. s \in Scanned(j - 1, list)
    BY <2>1, <2>2, ItemsKeepScanned
  <2>4. after[j] = AppendResults(s, e) /\ e \in Seq(Argument)
    <3>1. after[j] = AppendResults(AppendItems(after[j - 1], rows[j]), results[j])
      BY <1>4
    <3>2. e \in Seq(Argument)
      BY <1>1
    <3> QED
      BY <2>1, <3>1, <3>2
  <2> HIDE DEF s
  <2>5. /\ s \in Query /\ NoReturning(s.sql) /\ InRounds(s.results, j - 1, list)
        /\ s.results \in Seq(Argument)
    BY <2>3 DEF Scanned, Query
  <2>6. InRounds(s.results \o Exprs("data", (j - 1) + 1, list), (j - 1) + 1, list)
    BY <2>1, <2>5, RoundJoin
  <2>7. InRounds(s.results \o e, j, list)
    BY <2>1, <2>6
  <2> HIDE DEF e
  <2>8. /\ AppendResults(s, e) \in Query
        /\ AppendResults(s, e).sql = s.sql
        /\ AppendResults(s, e).results = s.results \o e
    BY <2>4, <2>5, NoPieces, AppendType
  <2>9. after[j] \in Scanned(j, list)
    BY <2>4, <2>5, <2>7, <2>8 DEF Scanned
  <2> QED
    BY <2>1, <2>9
<1>7. \A j \in 0 .. n : after[j] \in stage[j]
  <2> HIDE DEF stage
  <2> QED
    BY <1>5, <1>6, Rounds
<1> QED
  BY <1>4, <1>7 DEF results

\* A statement for one record.
LEMMA OnceInTurn ==
    ASSUME FillTypes, NEW list \in Seq(Range(cols)), NEW s \in Seq(SqlPiece), NoReturning(s),
           NEW args, NewSimpleQuery(s \o Listed("returning", list), args,
                                    Exprs("data", 1, list)) \in Query
    PROVE  InTurn(NewSimpleQuery(s \o Listed("returning", list), args,
                                 Exprs("data", 1, list)), 1)
<1> DEFINE q == NewSimpleQuery(s \o Listed("returning", list), args, Exprs("data", 1, list))
<1>1. q.sql = s \o Listed("returning", list) /\ q.results = Exprs("data", 1, list)
  BY DEF NewSimpleQuery
<1>2. InRounds(Exprs("data", 1, list), 1, list)
  BY DEF InRounds, Exprs
<1> HIDE DEF q
<1>3. InTurn(q, 1)
  BY <1>1, <1>2, EndsInTurn DEF q
<1> QED
  BY <1>3 DEF q

\* A statement for the records of a slice.
LEMMA SliceInTurn ==
    ASSUME FillTypes, NEW list \in Seq(Range(cols)), NEW n \in Nat,
           NEW q \in Scanned(n, list), NEW s \in Seq(SqlPiece), NoReturning(s)
    PROVE  InTurn(AppendSQL(q, s \o Listed("returning", list)), n)
<1> DEFINE l == Listed("returning", list)
           t == AppendSQL(q, s \o l)
<1>1. /\ q \in Query /\ NoReturning(q.sql) /\ InRounds(q.results, n, list)
      /\ q.sql \in Seq(SqlPiece)
  BY DEF Scanned, Query
<1>2. l \in Seq(SqlPiece)
  BY ListedType DEF Role
<1> HIDE DEF l
<1>3. s \o l \in Seq(SqlPiece)
  BY <1>2, JoinPieces
<1>4. t \in Query /\ t.sql = q.sql \o (s \o l) /\ t.results = q.results
  BY <1>1, <1>3, NoPieces, AppendType
<1>5. t.sql = (q.sql \o s) \o l /\ q.sql \o s \in Seq(SqlPiece)
  <2>1. q.sql \o (s \o l) = (q.sql \o s) \o l
    BY <1>1, <1>2, RegroupPieces
  <2> QED
    BY <1>1, <1>4, <2>1, JoinPieces
<1>6. NoReturning(q.sql \o s)
  BY <1>1, NoReturningJoin
<1> HIDE DEF t
<1>7. InTurn(t, n)
  BY <1>1, <1>4, <1>5, <1>6, EndsInTurn DEF l
<1> QED
  BY <1>7 DEF t, l

LEMMA FirstScanned ==
    ASSUME NEW list \in Seq(Range(cols)), NEW sql \in Seq(SqlPiece), NoReturning(sql)
    PROVE  NewQueryBuilder(sql) \in Scanned(0, list)
<1> DEFINE q == NewQueryBuilder(sql)
<1>1. q.sql = sql /\ q.results = <<>> /\ q \in Query
  BY NoPieces DEF NewQueryBuilder, NewSimpleQuery, Query
<1>2. InRounds(<<>>, 0, list)
  BY DEF InRounds
<1> HIDE DEF q
<1>3. q \in Scanned(0, list)
  BY <1>1, <1>2 DEF Scanned
<1> QED
  BY <1>3 DEF q

\* SET and WHERE of UpdateMulti, which take their columns from VALUES.
LEMMA HeadType ==
    ASSUME Listing
    PROVE  /\ UpdateMultiHead \in Seq(SqlPiece) /\ NoReturning(UpdateMultiHead)
           /\ \A j \in 1 .. Len(UpdateMultiHead) : /\ UpdateMultiHead[j].n = 0
                                                   /\ ~IsValue(UpdateMultiHead[j])
<1> DEFINE u == Listed("set", groups.updateValue)
           m == groups.mutators
           d == [j \in DOMAIN m |-> Piece("add", 1, m[j], 0, AddedComma(j))]
<1>1. /\ FillTypes /\ groups.updateValue \in Seq(Range(cols)) /\ m \in Seq(Range(cols))
      /\ DOMAIN m = 1 .. Len(m) /\ Len(m) \in Nat
  BY GroupTypes, ListTypes DEF Listing, Group
<1>2. /\ u \in Seq(SqlPiece)
      /\ \A j \in 1 .. Len(u) : u[j].n = 0 /\ u[j].role = "set"
  <2>1. "set" \in Role
    BY DEF Role
  <2>2. /\ u \in Seq(SqlPiece) /\ Len(u) = Len(groups.updateValue)
        /\ \A j \in 1 .. Len(groups.updateValue) :
              u[j] = Piece("set", 1, groups.updateValue[j], 0, j > 1)
    BY <1>1, <2>1, ListedType
  <2> HIDE DEF u
  <2>3. ASSUME NEW j \in 1 .. Len(u) PROVE u[j].n = 0 /\ u[j].role = "set"
    <3>1. u[j] = Piece("set", 1, groups.updateValue[j], 0, j > 1)
      BY <2>2
    <3> QED
      BY <3>1 DEF Piece
  <2> QED
    BY <2>2, <2>3
<1>3. /\ d \in Seq(SqlPiece)
      /\ \A j \in 1 .. Len(d) : d[j].n = 0 /\ d[j].role = "add"
  <2>1. \A j \in DOMAIN m : m[j] \in Range(cols)
    BY <1>1
  <2>2. \A j \in DOMAIN m : Piece("add", 1, m[j], 0, AddedComma(j)) \in SqlPiece
    BY <2>1 DEF Piece, SqlPiece, Role, AddedComma
  <2>3. d \in [1 .. Len(m) -> SqlPiece] /\ \A j \in DOMAIN m : d[j].n = 0 /\ d[j].role = "add"
    BY <1>1, <2>2 DEF Piece
  <2> HIDE DEF d, m
  <2>4. d \in Seq(SqlPiece) /\ Len(d) = Len(m)
    BY <1>1, <2>3, IsSequence
  <2> QED
    BY <1>1, <2>3, <2>4
<1> HIDE DEF u, d
<1>4. \A j \in 1 .. Len(u \o d) :
         (u \o d)[j].n = 0 /\ (u \o d)[j].role \in {"set", "add"}
  <2>1. /\ Len(u) \in Nat /\ Len(d) \in Nat /\ Len(u \o d) = Len(u) + Len(d)
        /\ \A j \in 1 .. Len(u) : (u \o d)[j] = u[j]
        /\ \A j \in 1 .. Len(d) : (u \o d)[Len(u) + j] = d[j]
    BY <1>2, <1>3, JoinPieces
  <2> SUFFICES ASSUME NEW j \in 1 .. Len(u \o d)
               PROVE  (u \o d)[j].n = 0 /\ (u \o d)[j].role \in {"set", "add"}
    OBVIOUS
  <2>2. CASE j <= Len(u)
    <3>1. j \in 1 .. Len(u)
      BY <2>1, <2>2
    <3> QED
      BY <1>2, <2>1, <3>1
  <2>3. CASE j > Len(u)
    <3>1. j - Len(u) \in 1 .. Len(d) /\ Len(u) + (j - Len(u)) = j
      BY <2>1, <2>3
    <3>2. (u \o d)[j] = d[j - Len(u)]
      BY <2>1, <3>1
    <3> QED
      BY <1>3, <3>1, <3>2
  <2> QED
    BY <2>1, <2>2, <2>3
<1>5. UpdateMultiHead = u \o d
  BY DEF UpdateMultiHead, u, d, m
<1>6. u \o d \in Seq(SqlPiece)
  BY <1>2, <1>3, JoinPieces
<1> QED
  BY <1>4, <1>5, <1>6 DEF NoReturning, IsValue

KeyPieces(key) == [j \in DOMAIN key |-> Piece("where", 1, key[j], 0, FALSE)]

LEMMA TailType ==
    ASSUME NEW key \in Seq(Range(cols))
    PROVE  /\ KeyPieces(key) \in Seq(SqlPiece) /\ NoReturning(KeyPieces(key))
           /\ Len(KeyPieces(key)) = Len(key)
           /\ \A j \in 1 .. Len(key) : /\ KeyPieces(key)[j].role = "where"
                                     /\ KeyPieces(key)[j].col = key[j]
           /\ UpdateMultiTail(key) =
                 KeyPieces(key) \o Listed("returning", groups.updateResult)
<1> DEFINE t == KeyPieces(key)
<1>1. DOMAIN key = 1 .. Len(key) /\ Len(key) \in Nat
  OBVIOUS
<1>2. \A j \in DOMAIN key : Piece("where", 1, key[j], 0, FALSE) \in SqlPiece
  BY <1>1 DEF Piece, SqlPiece, Role
<1>3. /\ t \in [1 .. Len(key) -> SqlPiece]
      /\ \A j \in 1 .. Len(key) : t[j].role = "where" /\ t[j].col = key[j]
  BY <1>1, <1>2 DEF Piece, KeyPieces
<1> HIDE DEF t
<1>4. t \in Seq(SqlPiece) /\ Len(t) = Len(key)
  BY <1>1, <1>3, IsSequence
<1>5. NoReturning(t)
  BY <1>3, <1>4 DEF NoReturning
<1> QED
  BY <1>3, <1>4, <1>5 DEF t, UpdateMultiTail, KeyPieces

LEMMA InsertTurn ==
    ASSUME Listing
    PROVE  /\ InTurn(QueryInsert, 1)
           /\ \A n \in Nat : HasInsertMulti => InTurn(QueryInsertMulti(n), n)
<1> DEFINE list == groups.insertResult
           v == Numbered("value", groups.insertValue, 0)
           l == Listed("returning", list)
<1>1. /\ FillTypes /\ groups.insertValue \in Seq(Range(cols))
      /\ list \in Seq(Range(cols)) /\ groups.updateValue \in Seq(Range(cols))
      /\ Len(groups.insertValue) \in Nat
  BY GroupTypes, ListTypes DEF Listing, Group
<1>2. v \in Seq(SqlPiece) /\ NoReturning(v)
  <2>1. "value" \in Role \ {"returning"}
    BY DEF Role
  <2> QED
    BY <1>1, <2>1, ClauseTypes, ClausesNoReturning, 0 \in Nat, 1 \in Nat,
       "data" \in {"data", "mut", "sum"}
<1>3. l \in Seq(SqlPiece)
  <2>1. "returning" \in Role
    BY DEF Role
  <2> QED
    BY <1>1, <2>1, ListedType
<1>4. OnConflict \in Seq(SqlPiece) /\ NoReturning(OnConflict)
  <2> DEFINE e == Listed("excluded", groups.updateValue)
             d == Added(Len(groups.insertValue))
  <2>1. "excluded" \in Role \ {"returning"}
    BY DEF Role
  <2>2. /\ e \in Seq(SqlPiece) /\ NoReturning(e)
        /\ d \in Seq(SqlPiece) /\ NoReturning(d) /\ NoReturning(<<>>)
    BY <1>1, <2>1, ClauseTypes, ClausesNoReturning, 1 \in Nat,
       "data" \in {"data", "mut", "sum"}
  <2>3. OnConflict = IF table.updateOnConflict THEN e \o d ELSE <<>>
    BY DEF OnConflict
  <2> HIDE DEF e, d
  <2>4. e \o d \in Seq(SqlPiece) /\ NoReturning(e \o d)
    BY <2>2, NoReturningJoin, JoinPieces
  <2> QED
    BY <2>2, <2>3, <2>4, NoPieces
<1>5. InTurn(QueryInsert, 1)
  <2> DEFINE e == Exprs("data", 1, list)
  <2>1. QueryInsert = NewSimpleQuery(v \o (OnConflict \o l), InsertArgs, e)
    BY DEF QueryInsert, InsertTail
  <2> HIDE DEF v, e, l
  <2>2. v \o (OnConflict \o l) = (v \o OnConflict) \o l
    BY <1>2, <1>3, <1>4, RegroupPieces
  <2>3. v \o OnConflict \in Seq(SqlPiece) /\ NoReturning(v \o OnConflict)
    BY <1>2, <1>4, NoReturningJoin, JoinPieces
  <2>4. QueryInsert \in Query
    BY InsertBuilt DEF Built
  <2> HIDE DEF list
  <2>5. QueryInsert = NewSimpleQuery((v \o OnConflict) \o Listed("returning", list),
                                     InsertArgs, Exprs("data", 1, list))
    BY <2>1, <2>2 DEF e, l
  <2> QED
    BY <1>1, <2>3, <2>4, <2>5, OnceInTurn
<1>6. ASSUME NEW n \in Nat PROVE InTurn(QueryInsertMulti(n), n)
  <2> DEFINE rows == [i \in 1 .. n |-> InsertRow(i)]
             q == AppendRows(NewQueryBuilder(<<>>), rows,
                             [i \in 1 .. n |-> Exprs("data", i, list)])
  <2>1. rows \in [1 .. n -> Seq(ItemType)]
    <3>1. Seq(Proper) \subseteq Seq(ItemType)
      BY SeqMonotonic DEF Proper
    <3>2. \A i \in Nat : InsertRow(i) \in Seq(Proper)
      BY <1>1, RowsProper
    <3> QED
      BY <3>1, <3>2
  <2>2. NewQueryBuilder(<<>>) \in Scanned(0, list)
    <3>1. NoReturning(<<>>)
      BY DEF NoReturning
    <3> QED
      BY <1>1, <3>1, FirstScanned, NoPieces
  <2> HIDE DEF rows
  <2>3. q \in Scanned(n, list)
    BY <1>1, <2>1, <2>2, RowsScanned
  <2>4. QueryInsertMulti(n) = AppendSQL(q, OnConflict \o Listed("returning", list))
    BY DEF QueryInsertMulti, InsertTail, rows
  <2> HIDE DEF q, list
  <2> QED
    BY <1>1, <1>4, <2>3, <2>4, SliceInTurn
<1> QED
  BY <1>5, <1>6

LEMMA UpdateTurn ==
    ASSUME Listing, NEW key \in Seq(Range(cols))
    PROVE  /\ InTurn(QueryFullUpdate(key), 1)
           /\ \A n \in Nat : InTurn(QueryUpdateMulti(key, n), n)
<1> DEFINE list == groups.updateResult
           u == Numbered("set", groups.updateValue, 0)
           d == Added(Len(groups.updateValue))
           w == Where(key, Len(groups.updateValue) + Len(groups.mutators))
<1>1. /\ FillTypes /\ groups.updateValue \in Seq(Range(cols))
      /\ list \in Seq(Range(cols)) /\ groups.mutators \in Seq(Range(cols))
      /\ Len(groups.updateValue) \in Nat /\ Len(groups.mutators) \in Nat
      /\ Len(groups.updateValue) + Len(groups.mutators) \in Nat
  <2>1. /\ FillTypes /\ groups.updateValue \in Seq(Range(cols))
        /\ list \in Seq(Range(cols)) /\ groups.mutators \in Seq(Range(cols))
    BY GroupTypes DEF Listing
  <2>2. Len(groups.updateValue) \in Nat /\ Len(groups.mutators) \in Nat
    BY <2>1
  <2>3. \A a \in Nat, b \in Nat : a + b \in Nat
    OBVIOUS
  <2> QED
    BY <2>1, <2>2, <2>3, Zenon
<1>2. InTurn(QueryFullUpdate(key), 1)
  <2> DEFINE args == Exprs("data", 1, groups.updateValue)
                         \o Exprs("mut", 1, groups.mutators)
                         \o Exprs("data", 1, key)
  <2>1. "set" \in Role \ {"returning"}
    BY DEF Role
  <2>2. /\ u \in Seq(SqlPiece) /\ NoReturning(u)
        /\ d \in Seq(SqlPiece) /\ NoReturning(d)
        /\ w \in Seq(SqlPiece) /\ NoReturning(w)
    BY <1>1, <2>1, ClauseTypes, ClausesNoReturning, 0 \in Nat, 1 \in Nat,
       "data" \in {"data", "mut", "sum"}
  <2>3. QueryFullUpdate(key) = NewSimpleQuery(u \o d \o w \o Listed("returning", list),
                                              args, Exprs("data", 1, list))
    BY DEF QueryFullUpdate, FullUpdateWhere
  <2> HIDE DEF u, d, w, args
  <2>4. u \o d \in Seq(SqlPiece) /\ NoReturning(u \o d)
    BY <2>2, NoReturningJoin, JoinPieces
  <2>5. u \o d \o w \in Seq(SqlPiece) /\ NoReturning(u \o d \o w)
    BY <2>2, <2>4, NoReturningJoin, JoinPieces
  <2>6. QueryFullUpdate(key) \in Query
    BY FullUpdateBuilt DEF Built
  <2> HIDE DEF list
  <2> QED
    BY <1>1, <2>3, <2>5, <2>6, OnceInTurn
<1>3. ASSUME NEW n \in Nat PROVE InTurn(QueryUpdateMulti(key, n), n)
  <2> DEFINE rows == [i \in 1 .. n |-> UpdateRow(i)]
             q == AppendRows(NewQueryBuilder(UpdateMultiHead), rows,
                             [i \in 1 .. n |-> Exprs("data", i, list)])
             t == KeyPieces(key)
  <2>1. rows \in [1 .. n -> Seq(ItemType)]
    <3>1. Seq(Proper) \subseteq Seq(ItemType)
      BY SeqMonotonic DEF Proper
    <3>2. \A i \in Nat : UpdateRow(i) \in Seq(Proper)
      BY RowsProper
    <3> QED
      BY <3>1, <3>2
  <2>2. NewQueryBuilder(UpdateMultiHead) \in Scanned(0, list)
    BY <1>1, FirstScanned, HeadType
  <2>3. t \in Seq(SqlPiece) /\ NoReturning(t)
    BY TailType
  <2> HIDE DEF rows
  <2>4. q \in Scanned(n, list)
    BY <1>1, <2>1, <2>2, RowsScanned
  <2>5. QueryUpdateMulti(key, n) = AppendSQL(q, t \o Listed("returning", list))
    BY TailType DEF QueryUpdateMulti, rows
  <2> HIDE DEF q, list, t
  <2> QED
    BY <1>1, <2>3, <2>4, <2>5, SliceInTurn
<1> QED
  BY <1>2, <1>3

\* The statements that return columns scan them where they stand in RETURNING, one
\* stretch of results for each record of the slice, however long the slice is and
\* whatever the columns of the table.
THEOREM ResultsCorrect == Spec => []ResultsFollowReturning
<1>1. ASSUME FillInv, GroupsAsDeclared PROVE ResultsFollowReturning
  <2> SUFFICES ASSUME phase = "done"
               PROVE  /\ InTurn(QueryInsert, 1)
                      /\ \A n \in BatchSize : HasInsertMulti => InTurn(QueryInsertMulti(n), n)
                      /\ \A key \in Keys \ {<<>>} :
                            /\ HasFullUpdate => InTurn(QueryFullUpdate(key), 1)
                            /\ \A n \in BatchSize :
                                 HasFullUpdate => InTurn(QueryUpdateMulti(key, n), n)
    BY DEF ResultsFollowReturning
  <2>1. Listing
    BY <1>1, DoneListing
  <2>2. BatchSize \subseteq Nat
    BY BatchSizeAssumption
  <2>3. \A key \in Keys : key \in Seq(Range(cols))
    BY <2>1, KeyTypes DEF Listing
  <2> QED
    BY <2>1, <2>2, <2>3, InsertTurn, UpdateTurn
<1> QED
  BY <1>1, FillCorrect, GroupsCorrect, PTL

----------------------------------------------------------------------------
(* The rows of UpdateMulti.                                                *)

\* A list of columns mentions them, in its role.
LEMMA ListMentions ==
    ASSUME NEW s \in Seq(SqlPiece), NEW role, NEW list \in Seq(Range(cols)),
           Len(s) = Len(list),
           \A j \in 1 .. Len(s) : s[j].role = role /\ s[j].col = list[j]
    PROVE  \A r, c : <<r, c>> \in Mentions(s) <=> r = role /\ c \in Range(list)
<1>1. DOMAIN list = 1 .. Len(s)
  OBVIOUS
<1>2. Mentions(s) = {<<role, list[j]>> : j \in DOMAIN list}
  BY <1>1 DEF Mentions
<1> QED
  BY <1>2 DEF Range

LEMMA HeadMentions ==
    ASSUME Listing
    PROVE  \A r, c : <<r, c>> \in Mentions(UpdateMultiHead) <=>
              \/ r = "set" /\ c \in Range(groups.updateValue)
              \/ r = "add" /\ c \in Range(groups.mutators)
<1> DEFINE u == Listed("set", groups.updateValue)
           m == groups.mutators
           d == [j \in DOMAIN m |-> Piece("add", 1, m[j], 0, AddedComma(j))]
<1>1. /\ FillTypes /\ groups.updateValue \in Seq(Range(cols)) /\ m \in Seq(Range(cols))
      /\ DOMAIN m = 1 .. Len(m) /\ Len(m) \in Nat
  BY GroupTypes, ListTypes DEF Listing, Group
<1>2. /\ u \in Seq(SqlPiece)
      /\ \A r, c : <<r, c>> \in Mentions(u) <=>
            r = "set" /\ c \in Range(groups.updateValue)
  <2>1. "set" \in Role
    BY DEF Role
  <2>2. /\ u \in Seq(SqlPiece) /\ Len(u) = Len(groups.updateValue)
        /\ \A j \in 1 .. Len(groups.updateValue) :
              u[j] = Piece("set", 1, groups.updateValue[j], 0, j > 1)
    BY <1>1, <2>1, ListedType
  <2> HIDE DEF u
  <2>3. ASSUME NEW j \in 1 .. Len(u)
        PROVE  u[j].role = "set" /\ u[j].col = groups.updateValue[j]
    <3>1. u[j] = Piece("set", 1, groups.updateValue[j], 0, j > 1)
      BY <2>2
    <3> QED
      BY <3>1 DEF Piece
  <2> QED
    BY <1>1, <2>2, <2>3, ListMentions
<1>3. /\ d \in Seq(SqlPiece)
      /\ \A r, c : <<r, c>> \in Mentions(d) <=> r = "add" /\ c \in Range(m)
  <2>1. \A j \in DOMAIN m : m[j] \in Range(cols)
    BY <1>1
  <2>2. \A j \in DOMAIN m : Piece("add", 1, m[j], 0, AddedComma(j)) \in SqlPiece
    BY <2>1 DEF Piece, SqlPiece, Role, AddedComma
  <2>3. /\ d \in [1 .. Len(m) -> SqlPiece]
        /\ \A j \in DOMAIN m : d[j].role = "add" /\ d[j].col = m[j]
    BY <1>1, <2>2 DEF Piece
  <2> HIDE DEF d, m
  <2>4. d \in Seq(SqlPiece) /\ Len(d) = Len(m)
    BY <1>1, <2>3, IsSequence
  <2>5. \A j \in 1 .. Len(d) : d[j].role = "add" /\ d[j].col = m[j]
    BY <1>1, <2>3, <2>4
  <2>6. m \in Seq(Range(cols))
    BY <1>1
  <2>7. \A r, c : <<r, c>> \in Mentions(d) <=> r = "add" /\ c \in Range(m)
    BY <2>4, <2>5, <2>6, ListMentions, Zenon
  <2> QED
    BY <2>4, <2>7
<1>4. UpdateMultiHead = u \o d
  BY DEF UpdateMultiHead
<1> HIDE DEF u, d
<1>5. Mentions(u \o d) = Mentions(u) \cup Mentions(d)
  BY <1>2, <1>3, MentionsJoin
<1> QED
  BY <1>2, <1>3, <1>4, <1>5 DEF m

LEMMA TailMentions ==
    ASSUME Listing, NEW key \in Seq(Range(cols))
    PROVE  /\ UpdateMultiTail(key) \in Seq(SqlPiece)
           /\ \A r, c : <<r, c>> \in Mentions(UpdateMultiTail(key)) <=>
                 \/ r = "where" /\ c \in Range(key)
                 \/ r = "returning" /\ c \in Range(groups.updateResult)
<1> DEFINE t == KeyPieces(key)
           l == Listed("returning", groups.updateResult)
<1>1. FillTypes /\ groups.updateResult \in Seq(Range(cols))
  BY GroupTypes DEF Listing
<1>2. /\ t \in Seq(SqlPiece)
      /\ \A r, c : <<r, c>> \in Mentions(t) <=> r = "where" /\ c \in Range(key)
  <2>1. /\ t \in Seq(SqlPiece) /\ Len(t) = Len(key)
        /\ \A j \in 1 .. Len(key) : t[j].role = "where" /\ t[j].col = key[j]
    BY TailType
  <2> HIDE DEF t
  <2>2. \A j \in 1 .. Len(t) : t[j].role = "where" /\ t[j].col = key[j]
    BY <2>1
  <2>3. \A r, c : <<r, c>> \in Mentions(t) <=> r = "where" /\ c \in Range(key)
    BY <2>1, <2>2, ListMentions, Zenon
  <2> QED
    BY <2>1, <2>3
<1>3. /\ l \in Seq(SqlPiece)
      /\ \A r, c : <<r, c>> \in Mentions(l) <=>
            r = "returning" /\ c \in Range(groups.updateResult)
  <2>1. "returning" \in Role
    BY DEF Role
  <2>2. /\ l \in Seq(SqlPiece) /\ Len(l) = Len(groups.updateResult)
        /\ \A j \in 1 .. Len(groups.updateResult) :
              l[j] = Piece("returning", 1, groups.updateResult[j], 0, j > 1)
    BY <1>1, <2>1, ListedType
  <2> HIDE DEF l
  <2>3. ASSUME NEW j \in 1 .. Len(l)
        PROVE  l[j].role = "returning" /\ l[j].col = groups.updateResult[j]
    <3>1. l[j] = Piece("returning", 1, groups.updateResult[j], 0, j > 1)
      BY <2>2
    <3> QED
      BY <3>1 DEF Piece
  <2> QED
    BY <1>1, <2>2, <2>3, ListMentions
<1>4. UpdateMultiTail(key) = t \o l
  BY TailType
<1> HIDE DEF t, l
<1>5. Mentions(t \o l) = Mentions(t) \cup Mentions(l) /\ t \o l \in Seq(SqlPiece)
  BY <1>2, <1>3, MentionsJoin, JoinPieces
<1> QED
  BY <1>2, <1>3, <1>4, <1>5

\* Where the row of record i + 1 begins, in VALUES.
Ends(n) == [i \in 0 .. n |-> i * Len(cols)]

LEMMA EndsFacts ==
    ASSUME FillTypes, NEW n \in Nat
    PROVE  /\ Ends(n)[0] = 0 /\ Len(cols) \in Nat
           /\ \A i \in 0 .. n : Ends(n)[i] \in Nat
           /\ \A i \in 1 .. n : Ends(n)[i] = Ends(n)[i - 1] + Len(cols)
           /\ \A i, j \in 0 .. n : i <= j => Ends(n)[i] <= Ends(n)[j]
<1>1. Len(cols) \in Nat
  BY ColumnTypes
<1>2. \A i \in 0 .. n : Ends(n)[i] \in Nat
  BY <1>1, Product DEF Ends
<1>3. ASSUME NEW i \in 1 .. n PROVE Ends(n)[i] = Ends(n)[i - 1] + Len(cols)
  <2>1. i - 1 \in Nat /\ (i - 1) + 1 = i /\ i \in 0 .. n /\ i - 1 \in 0 .. n
    OBVIOUS
  <2>2. ((i - 1) + 1) * Len(cols) = (i - 1) * Len(cols) + Len(cols)
    BY <1>1, <2>1, Product
  <2> QED
    BY <2>1, <2>2 DEF Ends
<1>4. \A i, j \in 0 .. n : i <= j => Ends(n)[i] <= Ends(n)[j]
  BY <1>1, Product DEF Ends
<1>5. Ends(n)[0] = 0
  BY <1>1 DEF Ends
<1> QED
  BY <1>1, <1>2, <1>3, <1>4, <1>5

\* The first piece belongs to the m-th column of record i.
Cell(p, i, m) ==
    p.record = i /\ p.col = cols[m] /\ p.role = Kind(cols[m])

\* The queries that have the rows of the first j records, of n, in VALUES.
Rowed(n, j) ==
    {r \in Query :
        LET H == Len(UpdateMultiHead)
        IN /\ Len(r.sql) = H + Ends(n)[j]
           /\ \A h \in 1 .. H : r.sql[h] = UpdateMultiHead[h]
           /\ \A i \in 1 .. j, m \in 1 .. Len(cols) :
                 Cell(r.sql[H + Ends(n)[i - 1] + m], i, m)
           /\ \A h \in H + 1 .. Len(r.sql) :
                 /\ IsValue(r.sql[h]) /\ r.sql[h].record \in 1 .. j
                 /\ \A i \in 1 .. j : r.sql[h].record = i <=>
                       H + Ends(n)[i - 1] < h /\ h <= H + Ends(n)[i]}

\* The row of record j follows those of the records before it.
LEMMA RowedNext ==
    ASSUME Listing, NEW n \in Nat, NEW j \in 1 .. n, NEW q \in Rowed(n, j - 1),
           NEW s \in Longer(q, UpdateRow(j), Len(cols))
    PROVE  s \in Rowed(n, j)
<1> DEFINE H == Len(UpdateMultiHead)
           L == Len(cols)
           E == Ends(n)
           B == Len(q.sql)
<1>1. /\ H \in Nat /\ L \in Nat /\ j \in Nat /\ j - 1 \in 0 .. n /\ j \in 0 .. n
      /\ cols \in [1 .. L -> Range(cols)] /\ DOMAIN cols = 1 .. L
  BY HeadType, ColumnTypes DEF Listing
<1>2. /\ E[0] = 0
      /\ \A i \in 0 .. n : E[i] \in Nat
      /\ \A i \in 1 .. n : E[i] = E[i - 1] + L
      /\ \A i, k \in 0 .. n : i <= k => E[i] <= E[k]
  BY EndsFacts DEF Listing
<1>3. ASSUME NEW m \in 1 .. L PROVE Cell(s.sql[B + m], j, m)
  <2>1. Shows(s.sql[B + m], UpdateRow(j)[m])
    BY <1>3 DEF Longer
  <2>2. /\ UpdateRow(j)[m].role = Kind(cols[m])
        /\ UpdateRow(j)[m].arg.record = j /\ UpdateRow(j)[m].arg.col = cols[m]
    BY <1>1 DEF UpdateRow, Item, Expr
  <2> QED
    BY <2>1, <2>2 DEF Shows, Cell
<1>4. /\ s \in Query /\ Len(s.sql) = B + L
      /\ \A h \in 1 .. B : s.sql[h] = q.sql[h]
  BY DEF Longer
<1>5. /\ B = H + E[j - 1]
      /\ \A h \in 1 .. H : q.sql[h] = UpdateMultiHead[h]
      /\ \A i \in 1 .. j - 1, m \in 1 .. L : Cell(q.sql[H + E[i - 1] + m], i, m)
      /\ \A h \in H + 1 .. B :
            /\ IsValue(q.sql[h]) /\ q.sql[h].record \in 1 .. j - 1
            /\ \A i \in 1 .. j - 1 :
                  q.sql[h].record = i <=> H + E[i - 1] < h /\ h <= H + E[i]
  BY DEF Rowed
<1>6. \A m \in 1 .. L : Kind(cols[m]) \in {"value", "mutator", "null"}
  BY DEF Kind
<1> HIDE DEF H, L, E, B
<1>7. /\ E[j] = E[j - 1] + L /\ E[j - 1] \in Nat /\ E[j] \in Nat /\ B \in Nat
      /\ \A i \in 1 .. j - 1 : /\ E[i] \in Nat /\ E[i - 1] \in Nat /\ E[i] <= E[j - 1]
                               /\ E[i] = E[i - 1] + L
  <2>1. j \in 1 .. n /\ n \in Nat
    OBVIOUS
  <2>2. E[j] = E[j - 1] + L /\ E[j - 1] \in Nat /\ E[j] \in Nat
    BY ONLY <1>1, <1>2, <2>1
  <2>3. B \in Nat
    BY ONLY <1>1, <1>5, <2>2
  <2>4. ASSUME NEW i \in 1 .. j - 1
        PROVE  /\ E[i] \in Nat /\ E[i - 1] \in Nat /\ E[i] <= E[j - 1]
               /\ E[i] = E[i - 1] + L
    <3>1. i \in 1 .. n /\ i \in 0 .. n /\ i - 1 \in 0 .. n /\ i <= j - 1
      BY ONLY <2>1, i \in 1 .. j - 1
    <3> QED
      BY ONLY <1>1, <1>2, <3>1
  <2> QED
    BY <2>2, <2>3, <2>4
<1>8. Len(s.sql) = H + E[j]
  BY <1>1, <1>4, <1>5, <1>7
<1>9. \A h \in 1 .. H : s.sql[h] = UpdateMultiHead[h]
  <2>1. \A h \in 1 .. H : h \in 1 .. B
    BY <1>1, <1>5, <1>7
  <2> QED
    BY <1>4, <1>5, <2>1
<1>10. ASSUME NEW i \in 1 .. j, NEW m \in 1 .. L
       PROVE  Cell(s.sql[H + E[i - 1] + m], i, m)
  <2>1. CASE i = j
    BY <1>3, <1>5, <2>1
  <2>2. CASE i # j
    <3>1. i \in 1 .. j - 1
      BY <1>1, <2>2
    <3>2. E[i - 1] \in Nat /\ E[i - 1] + L <= E[j - 1]
      BY <1>7, <3>1
    <3>3. H + E[i - 1] + m \in 1 .. B
      <4>1. \A e, b \in Nat : e + L <= b => H + e + m \in 1 .. H + b
        BY <1>1
      <4> QED
        BY <1>5, <1>7, <3>2, <4>1
    <3> QED
      BY <1>4, <1>5, <3>1, <3>3
  <2> QED
    BY <2>1, <2>2
<1>11. ASSUME NEW h \in H + 1 .. Len(s.sql)
       PROVE  /\ IsValue(s.sql[h]) /\ s.sql[h].record \in 1 .. j
              /\ \A i \in 1 .. j :
                    s.sql[h].record = i <=> H + E[i - 1] < h /\ h <= H + E[i]
  <2>1. CASE h <= B
    <3>1. h \in H + 1 .. B /\ h \in 1 .. B /\ s.sql[h] = q.sql[h]
      <4>1. h \in Int /\ h >= H + 1 /\ h <= B /\ H \in Nat /\ B \in Nat
        BY <1>1, <1>4, <1>7, <2>1
      <4>2. h \in H + 1 .. B /\ h \in 1 .. B
        BY ONLY <4>1
      <4> QED
        BY <1>4, <4>2
    <3>2. /\ IsValue(s.sql[h]) /\ s.sql[h].record \in 1 .. j - 1
          /\ \A i \in 1 .. j - 1 :
                s.sql[h].record = i <=> H + E[i - 1] < h /\ h <= H + E[i]
      BY <1>5, <3>1
    <3>3. s.sql[h].record # j /\ s.sql[h].record \in 1 .. j
      <4>1. s.sql[h].record \in 1 .. j - 1 /\ j \in Nat
        BY <1>1, <3>2
      <4> QED
        BY ONLY <4>1
    <3>4. ~(H + E[j - 1] < h)
      <4>1. \A b \in Nat : h <= b => ~(b < h)
        BY <1>1
      <4> QED
        BY <1>5, <1>7, <2>1, <4>1
    <3>5. \A i \in 1 .. j : i = j \/ i \in 1 .. j - 1
      BY <1>1
    <3> QED
      BY <3>2, <3>3, <3>4, <3>5
  <2>2. CASE h > B
    <3>1. h - B \in 1 .. L /\ B + (h - B) = h
      BY <1>1, <1>4, <1>7, <2>2
    <3>2. s.sql[h].record = j /\ IsValue(s.sql[h])
      BY <1>3, <1>6, <3>1 DEF Cell, IsValue
    <3>3. H + E[j - 1] < h /\ h <= H + E[j]
      BY <1>1, <1>5, <1>7, <1>8, <2>2
    <3>4. ASSUME NEW i \in 1 .. j - 1 PROVE i # j /\ ~(h <= H + E[i])
      <4>1. i # j
        BY ONLY <1>1, i \in 1 .. j - 1
      <4>2. E[i] \in Nat /\ E[i] <= E[j - 1] /\ E[j - 1] \in Nat
        BY <1>7
      <4>3. H \in Nat /\ h \in Int /\ h > H + E[j - 1]
        BY <1>1, <1>5, <2>2
      <4> QED
        BY ONLY <4>1, <4>2, <4>3
    <3>5. \A i \in 1 .. j : i = j \/ i \in 1 .. j - 1
      BY <1>1
    <3> QED
      BY <1>1, <3>2, <3>3, <3>4, <3>5
  <2> QED
    BY <1>1, <1>4, <1>7, <2>1, <2>2
<1> QED
  BY <1>4, <1>8, <1>9, <1>10, <1>11 DEF Rowed, H, L, E

LEMMA RowsRowed ==
    ASSUME Listing, NEW n \in Nat, NEW results \in [1 .. n -> Seq(Argument)]
    PROVE  AppendRows(NewQueryBuilder(UpdateMultiHead),
                      [i \in 1 .. n |-> UpdateRow(i)], results) \in Rowed(n, n)
<1> DEFINE q == NewQueryBuilder(UpdateMultiHead)
           rows == [i \in 1 .. n |-> UpdateRow(i)]
           stage == [j \in 0 .. n |-> Rowed(n, j)]
<1>1. rows \in [1 .. n -> Seq(ItemType)]
  <2>1. Seq(Proper) \subseteq Seq(ItemType)
    BY SeqMonotonic DEF Proper
  <2>2. \A i \in Nat : UpdateRow(i) \in Seq(Proper)
    BY RowsProper, <<>> \in Seq(Range(cols))
  <2> QED
    BY <2>1, <2>2
<1>2. \A j \in 1 .. n : rows[j] = UpdateRow(j)
  OBVIOUS
<1>3. UpdateMultiHead \in Seq(SqlPiece)
  BY HeadType
<1>4. q \in Query /\ q.sql = UpdateMultiHead
  BY <1>3, NoPieces DEF NewQueryBuilder, NewSimpleQuery, Query
<1> HIDE DEF q, rows
<1>5. PICK after :
         /\ after[0] = q
         /\ \A j \in 1 .. n :
               after[j] = AppendResults(AppendItems(after[j - 1], rows[j]), results[j])
         /\ AppendRows(q, rows, results) = after[n]
  BY <1>1, <1>4, AppendRowsLoop
<1>6. after[0] \in stage[0]
  <2>1. /\ Ends(n)[0] = 0 /\ Len(UpdateMultiHead) \in Nat
        /\ Len(UpdateMultiHead) + 0 = Len(UpdateMultiHead)
    BY <1>3, EndsFacts DEF Listing
  <2>2. 1 .. 0 = {} /\ Len(UpdateMultiHead) + 1 .. Len(UpdateMultiHead) = {}
    BY <2>1
  <2>3. q \in Rowed(n, 0)
    BY <1>4, <2>1, <2>2 DEF Rowed
  <2> QED
    BY <1>5, <2>3
<1>7. ASSUME NEW j \in 1 .. n, after[j - 1] \in stage[j - 1]
      PROVE  after[j] \in stage[j]
  <2> DEFINE r == after[j - 1]
             s == AppendItems(r, UpdateRow(j))
             e == results[j]
  <2>1. j - 1 \in 0 .. n /\ j \in 0 .. n /\ e \in Seq(Argument)
    OBVIOUS
  <2>2. r \in Rowed(n, j - 1) /\ r \in Query
    BY <1>7, <2>1 DEF Rowed
  <2>3. UpdateRow(j) \in Seq(ItemType) /\ Len(UpdateRow(j)) = Len(cols)
    <3>1. UpdateRow(j) \in Seq(ItemType)
      BY <1>1, <1>2
    <3>2. DOMAIN UpdateRow(j) = 1 .. Len(cols) /\ Len(cols) \in Nat
      BY ColumnTypes DEF Listing, UpdateRow
    <3> QED
      BY <3>1, <3>2
  <2>4. after[j] = AppendResults(s, e)
    BY <1>2, <1>5
  <2> HIDE DEF r, e
  <2>5. s \in Longer(r, UpdateRow(j), Len(cols))
    BY <2>2, <2>3, ItemsSql
  <2> HIDE DEF s
  <2>6. s \in Rowed(n, j)
    BY <2>2, <2>5, RowedNext
  <2>7. s \in Query
    BY <2>6 DEF Rowed
  <2>8. AppendResults(s, e) \in Query /\ AppendResults(s, e).sql = s.sql
    BY <2>1, <2>7, NoPieces, AppendType
  <2>9. AppendResults(s, e) \in Rowed(n, j)
    <3> DEFINE t == AppendResults(s, e)
    <3> HIDE DEF t
    <3>1. t \in Query /\ t.sql = s.sql => t \in Rowed(n, j)
      BY <2>6 DEF Rowed
    <3> QED
      BY <2>8, <3>1 DEF t
  <2> QED
    BY <2>1, <2>4, <2>9
<1>8. \A j \in 0 .. n : after[j] \in stage[j]
  <2> HIDE DEF stage
  <2> QED
    BY <1>6, <1>7, Rounds
<1>9. after[n] \in Rowed(n, n)
  BY <1>8
<1> QED
  BY <1>5, <1>9 DEF q, rows

\* What SET, VALUES and WHERE of an UpdateMulti name.
LEMMA MultiMentions ==
    ASSUME Listing, NEW key \in Seq(Range(cols)), NEW n \in Nat,
           NEW r \in Rowed(n, n), NEW q \in Query,
           q.sql = r.sql \o UpdateMultiTail(key)
    PROVE  /\ \A c : c \in ColumnsOf(q, "set") <=> c \in Range(groups.updateValue)
           /\ \A c : c \in ColumnsOf(q, "add") <=> c \in Range(groups.mutators)
           /\ \A c : c \in ColumnsOf(q, "where") <=> c \in Range(key)
<1> DEFINE head == UpdateMultiHead
           tail == UpdateMultiTail(key)
           Values == {"value", "mutator", "null"}
<1>1. /\ head \in Seq(SqlPiece) /\ Len(head) \in Nat
      /\ \A j \in 1 .. Len(head) : ~IsValue(head[j])
  BY HeadType
<1>2. /\ tail \in Seq(SqlPiece)
      /\ \A role, c : <<role, c>> \in Mentions(tail) <=>
            \/ role = "where" /\ c \in Range(key)
            \/ role = "returning" /\ c \in Range(groups.updateResult)
  BY TailMentions
<1>3. \A role, c : <<role, c>> \in Mentions(head) <=>
         \/ role = "set" /\ c \in Range(groups.updateValue)
         \/ role = "add" /\ c \in Range(groups.mutators)
  BY HeadMentions
<1>4. r.sql \in Seq(SqlPiece) /\ Len(r.sql) \in Nat
  BY DEF Rowed, Query
<1>5. ASSUME NEW role, NEW c, role \notin Values
      PROVE  <<role, c>> \in Mentions(r.sql) <=> <<role, c>> \in Mentions(head)
  <2>1. /\ Len(r.sql) = Len(head) + Ends(n)[n] /\ Ends(n)[n] \in Nat
        /\ \A h \in 1 .. Len(head) : r.sql[h] = head[h]
        /\ \A h \in Len(head) + 1 .. Len(r.sql) : r.sql[h].role \in Values
    <3>1. \A h \in Len(head) + 1 .. Len(r.sql) : IsValue(r.sql[h])
      BY DEF Rowed
    <3> QED
      BY <3>1, EndsFacts DEF Rowed, IsValue, Listing
  <2> HIDE DEF head, Values
  <2>2. \A h \in 1 .. Len(r.sql) :
           r.sql[h].role = role => h \in 1 .. Len(head) /\ r.sql[h] = head[h]
    <3>1. \A h \in 1 .. Len(r.sql) :
             h \in 1 .. Len(head) \/ h \in Len(head) + 1 .. Len(r.sql)
      BY <1>1, <1>4
    <3> QED
      BY <1>5, <2>1, <3>1
  <2>3. \A h \in 1 .. Len(head) : h \in 1 .. Len(r.sql) /\ r.sql[h] = head[h]
    BY <1>1, <1>4, <2>1
  <2> QED
    BY <2>2, <2>3 DEF Mentions
<1> HIDE DEF head, tail
<1>6. Mentions(q.sql) = Mentions(r.sql) \cup Mentions(tail)
  <2>1. q.sql = r.sql \o tail
    BY DEF tail
  <2> QED
    BY <1>2, <1>4, <2>1, MentionsJoin
<1>7. \A role, c : c \in ColumnsOf(q, role) <=> <<role, c>> \in Mentions(q.sql)
  BY NamedColumns
<1>8. \A role, c : role \notin Values =>
         (c \in ColumnsOf(q, role) <=>
             <<role, c>> \in Mentions(head) \/ <<role, c>> \in Mentions(tail))
  BY <1>5, <1>6, <1>7
<1>9. "set" \notin Values /\ "add" \notin Values /\ "where" \notin Values
  OBVIOUS
<1> HIDE DEF Values
<1>10. \A c : c \in ColumnsOf(q, "set") <=> c \in Range(groups.updateValue)
  <2>1. \A c : <<"set", c>> \in Mentions(head) <=> c \in Range(groups.updateValue)
    BY <1>2, <1>3
  <2>2. \A c : <<"set", c>> \notin Mentions(tail)
    BY <1>2, <1>3
  <2> QED
    BY <1>8, <1>9, <2>1, <2>2, Zenon
<1>11. \A c : c \in ColumnsOf(q, "add") <=> c \in Range(groups.mutators)
  <2>1. \A c : <<"add", c>> \in Mentions(head) <=> c \in Range(groups.mutators)
    BY <1>2, <1>3
  <2>2. \A c : <<"add", c>> \notin Mentions(tail)
    BY <1>2, <1>3
  <2> QED
    BY <1>8, <1>9, <2>1, <2>2, Zenon
<1>12. \A c : c \in ColumnsOf(q, "where") <=> c \in Range(key)
  <2>1. \A c : <<"where", c>> \in Mentions(tail) <=> c \in Range(key)
    BY <1>2, <1>3
  <2>2. \A c : <<"where", c>> \notin Mentions(head)
    BY <1>2, <1>3
  <2> QED
    BY <1>8, <1>9, <2>1, <2>2, Zenon
<1> QED
  BY <1>10, <1>11, <1>12

\* The rows of VALUES.
LEMMA RowFits ==
    ASSUME Listing, NEW key \in Seq(Range(cols)), Range(key) = table.primaryKey,
           Range(groups.mutators) = table.mutators, NEW n \in Nat, NEW i \in 1 .. n
    PROVE  LET q == QueryUpdateMulti(key, n)
           IN \E base \in 0 .. Len(q.sql) :
               LET row == SubSeq(q.sql, base + 1, base + Len(cols))
                   sent(role) == {p.col : p \in {r \in Range(row) : r.role = role}}
               IN /\ \A j \in DOMAIN q.sql :
                        q.sql[j].record = i /\ IsValue(q.sql[j])
                            <=> base < j /\ j <= base + Len(cols)
                  /\ [j \in DOMAIN row |-> row[j].col] = cols
                  /\ sent("value") = ColumnsOf(q, "set") \cup ColumnsOf(q, "where")
                  /\ sent("mutator") = ColumnsOf(q, "add")
<1> DEFINE q == QueryUpdateMulti(key, n)
           r == AppendRows(NewQueryBuilder(UpdateMultiHead),
                           [k \in 1 .. n |-> UpdateRow(k)],
                           [k \in 1 .. n |-> Exprs("data", k, groups.updateResult)])
           head == UpdateMultiHead
           tail == UpdateMultiTail(key)
           L == Len(cols)
           E == Ends(n)
           base == Len(head) + E[i - 1]
           row == SubSeq(q.sql, base + 1, base + L)
           sent(role) == {p.col : p \in {x \in Range(row) : x.role = role}}
<1>1. r \in Rowed(n, n)
  <2>1. groups.updateResult \in Seq(Range(cols)) /\ FillTypes
    BY GroupTypes DEF Listing
  <2>2. \A k \in Nat : Exprs("data", k, groups.updateResult) \in Seq(Argument)
    BY <2>1, ExprsType
  <2>3. [k \in 1 .. n |-> Exprs("data", k, groups.updateResult)]
            \in [1 .. n -> Seq(Argument)]
    BY <2>2
  <2> QED
    BY <2>3, RowsRowed
<1>2. q = AppendSQL(r, tail)
  BY DEF QueryUpdateMulti
<1>3. /\ head \in Seq(SqlPiece) /\ Len(head) \in Nat
      /\ \A j \in 1 .. Len(head) : ~IsValue(head[j])
  BY HeadType
<1>4. tail \in Seq(SqlPiece) /\ \A j \in 1 .. Len(tail) : ~IsValue(tail[j])
  <2>1. /\ tail \in Seq(SqlPiece)
        /\ \A role, c : <<role, c>> \in Mentions(tail) =>
              role = "where" \/ role = "returning"
    BY TailMentions
  <2>2. \A j \in 1 .. Len(tail) : <<tail[j].role, tail[j].col>> \in Mentions(tail)
    BY DEF Mentions
  <2> HIDE DEF tail
  <2> QED
    BY <2>1, <2>2 DEF IsValue
<1>5. /\ L \in Nat /\ cols \in [1 .. L -> Range(cols)] /\ DOMAIN cols = 1 .. L
      /\ E[i - 1] \in Nat /\ E[i] = E[i - 1] + L /\ E[n] \in Nat /\ E[i] <= E[n]
  <2>1. i - 1 \in 0 .. n /\ i \in 0 .. n /\ n \in 0 .. n /\ i <= n
    OBVIOUS
  <2> QED
    BY <2>1, ColumnTypes, EndsFacts DEF Listing
<1>6. /\ r \in Query /\ Len(r.sql) = Len(head) + E[n]
      /\ \A h \in 1 .. Len(head) : r.sql[h] = head[h]
      /\ \A m \in 1 .. L : Cell(r.sql[base + m], i, m)
      /\ \A h \in Len(head) + 1 .. Len(r.sql) :
            IsValue(r.sql[h]) /\ (r.sql[h].record = i <=> base < h /\ h <= Len(head) + E[i])
  <2>1. n \in 1 .. n /\ i \in 1 .. n
    OBVIOUS
  <2> QED
    BY <1>1, <2>1 DEF Rowed
<1> HIDE DEF q, r, head, tail, L, E
<1>7. q \in Query /\ q.sql = r.sql \o tail
  BY <1>2, <1>4, <1>6, NoPieces, AppendType
<1>8. /\ r.sql \in Seq(SqlPiece) /\ Len(r.sql) \in Nat /\ Len(tail) \in Nat
      /\ Len(q.sql) = Len(r.sql) + Len(tail)
      /\ q.sql \in Seq(SqlPiece) /\ DOMAIN q.sql = 1 .. Len(q.sql)
      /\ \A h \in 1 .. Len(r.sql) : q.sql[h] = r.sql[h]
      /\ \A h \in 1 .. Len(tail) : q.sql[Len(r.sql) + h] = tail[h]
  <2>1. r.sql \in Seq(SqlPiece)
    BY <1>6 DEF Query
  <2> QED
    BY <1>4, <1>7, <2>1, JoinPieces
<1>9. base \in Nat /\ Len(head) <= base /\ base + L <= Len(r.sql) /\ base + L = Len(head) + E[i]
  <2>1. ASSUME NEW a \in Nat, NEW b \in Nat, NEW c \in Nat, NEW d \in Nat, b + c <= d
        PROVE  /\ a + b \in Nat /\ a <= a + b
               /\ a + b + c = a + (b + c) /\ a + b + c <= a + d
    BY ONLY a \in Nat, b \in Nat, c \in Nat, d \in Nat, b + c <= d
  <2>2. /\ Len(head) \in Nat /\ E[i - 1] \in Nat /\ L \in Nat /\ E[n] \in Nat
        /\ E[i - 1] + L <= E[n]
    BY <1>3, <1>5
  <2>3. /\ Len(head) + E[i - 1] \in Nat /\ Len(head) <= Len(head) + E[i - 1]
        /\ Len(head) + E[i - 1] + L = Len(head) + (E[i - 1] + L)
        /\ Len(head) + E[i - 1] + L <= Len(head) + E[n]
    BY ONLY <2>1, <2>2
  <2> QED
    BY <1>5, <1>6, <2>3
<1>10. ASSUME NEW h \in DOMAIN q.sql
       PROVE  q.sql[h].record = i /\ IsValue(q.sql[h]) <=> base < h /\ h <= base + L
  <2> HIDE DEF base
  <2>1. h \in Nat /\ h >= 1 /\ h <= Len(r.sql) + Len(tail)
    BY <1>8
  <2>2. CASE h <= Len(head)
    <3>1. h \in 1 .. Len(head) /\ h \in 1 .. Len(r.sql) /\ ~(base < h)
      <4>1. Len(head) <= Len(r.sql)
        BY ONLY <1>3, <1>5, <1>6
      <4>2. base \in Nat /\ Len(head) <= base
        BY <1>9
      <4> QED
        BY ONLY <1>3, <1>8, <2>1, <2>2, <4>1, <4>2
    <3> QED
      BY <1>3, <1>6, <1>8, <3>1
  <2>3. CASE h > Len(head) /\ h <= Len(r.sql)
    <3>1. h \in Len(head) + 1 .. Len(r.sql) /\ h \in 1 .. Len(r.sql)
      <4>1. Len(head) \in Nat /\ Len(r.sql) \in Nat
        BY <1>3, <1>8
      <4> QED
        BY ONLY <2>1, <2>3, <4>1
    <3> QED
      BY <1>6, <1>8, <1>9, <3>1
  <2>4. CASE h > Len(r.sql)
    <3>1. h - Len(r.sql) \in 1 .. Len(tail) /\ Len(r.sql) + (h - Len(r.sql)) = h
      BY <1>8, <2>1, <2>4
    <3>2. ~IsValue(q.sql[h])
      BY <1>4, <1>8, <3>1
    <3>3. ~(h <= base + L)
      BY <1>5, <1>8, <1>9, <2>1, <2>4
    <3> QED
      BY <3>2, <3>3
  <2> QED
    BY <1>3, <1>8, <2>1, <2>2, <2>3, <2>4
<1>11. Len(row) = L /\ DOMAIN row = 1 .. L /\ \A m \in 1 .. L : Cell(row[m], i, m)
  <2> HIDE DEF base
  <2>1. /\ base + 1 \in Nat /\ base + L \in Nat /\ base + L <= Len(q.sql)
        /\ (base + L) - (base + 1) + 1 = L
    BY <1>5, <1>8, <1>9
  <2>2. /\ Len(row) = L /\ DOMAIN row = 1 .. L
        /\ \A m \in 1 .. L : row[m] = q.sql[base + m]
    <3>0. base \in Nat /\ L \in Nat
      BY <1>5, <1>9
    <3>1. base + 1 \in Int /\ base + L \in Int
      BY ONLY <2>1
    <3>2. ASSUME NEW h \in base + 1 .. base + L PROVE q.sql[h] \in SqlPiece
      <4>1. h \in 1 .. Len(q.sql)
        BY ONLY <1>8, <2>1, <3>0, h \in base + 1 .. base + L
      <4> QED
        BY <1>8, <4>1
    <3>3. /\ row \in Seq(SqlPiece)
          /\ Len(row) = IF base + 1 <= base + L THEN (base + L) - (base + 1) + 1 ELSE 0
          /\ \A m \in 1 .. (base + L) - (base + 1) + 1 : row[m] = q.sql[(base + 1) + m - 1]
      BY ONLY <3>1, <3>2, SubSeqProperties
    <3>4. /\ (base + L) - (base + 1) + 1 = L
          /\ (IF base + 1 <= base + L THEN (base + L) - (base + 1) + 1 ELSE 0) = L
          /\ \A m \in 1 .. L : (base + 1) + m - 1 = base + m
      BY ONLY <3>0
    <3> HIDE DEF row
    <3> QED
      BY ONLY <3>3, <3>4
  <2>3. \A m \in 1 .. L : base + m \in 1 .. Len(r.sql)
    BY <1>5, <1>8, <1>9
  <2> QED
    BY <1>6, <1>8, <2>2, <2>3
<1> HIDE DEF row, base
<1>12. [m \in DOMAIN row |-> row[m].col] = cols
  BY <1>5, <1>11 DEF Cell
<1>13. \A role, c : c \in sent(role) <=> c \in Range(cols) /\ Kind(c) = role
  <2>1. \A role, c : c \in sent(role) <=>
                     \E m \in 1 .. L : row[m].role = role /\ row[m].col = c
    BY <1>11 DEF Range
  <2>2. \A m \in 1 .. L : row[m].role = Kind(cols[m]) /\ row[m].col = cols[m]
    BY <1>11 DEF Cell
  <2>3. \A c : c \in Range(cols) <=> \E m \in 1 .. L : cols[m] = c
    BY <1>5 DEF Range
  <2> HIDE DEF sent
  <2>4. ASSUME NEW role, NEW c
        PROVE  c \in sent(role) <=> c \in Range(cols) /\ Kind(c) = role
    <3>1. c \in sent(role) <=> \E m \in 1 .. L : row[m].role = role /\ row[m].col = c
      BY <2>1
    <3>2. ASSUME NEW m \in 1 .. L
          PROVE  row[m].role = role /\ row[m].col = c <=> Kind(c) = role /\ cols[m] = c
      BY <2>2
    <3> QED
      BY <2>3, <3>1, <3>2
  <2> QED
    BY <2>4
<1>14. \A c : /\ c \in Range(cols) /\ Kind(c) = "value"
                    <=> c \in table.primaryKey \cup Range(groups.updateValue)
              /\ c \in Range(cols) /\ Kind(c) = "mutator" <=> c \in Range(groups.mutators)
  <2>1. /\ \A c \in Range(groups.updateValue) : c \in Range(cols)
        /\ \A c \in Range(groups.mutators) : c \in Range(cols)
        /\ \A c \in table.primaryKey : c \in Range(cols)
    BY GroupTypes DEF Range
  <2> QED
    BY <2>1 DEF Kind, Listing
<1> HIDE DEF sent
<1>15. /\ sent("value") = ColumnsOf(q, "set") \cup ColumnsOf(q, "where")
       /\ sent("mutator") = ColumnsOf(q, "add")
  <2>1. /\ \A c : c \in ColumnsOf(q, "set") <=> c \in Range(groups.updateValue)
        /\ \A c : c \in ColumnsOf(q, "add") <=> c \in Range(groups.mutators)
        /\ \A c : c \in ColumnsOf(q, "where") <=> c \in table.primaryKey
    BY <1>1, <1>7, MultiMentions DEF tail
  <2> QED
    BY <1>13, <1>14, <2>1
<1>16. base \in 0 .. Len(q.sql)
  BY <1>5, <1>8, <1>9
<1> QED
  BY <1>10, <1>12, <1>15, <1>16 DEF row, sent, q, L

\* In the VALUES of an UpdateMulti each record of the slice has a row of its own, a
\* value for each column of the table in the table's order, however long the slice
\* and whatever the columns: what SET and WHERE read is not NULL in it, and nothing
\* else is sent.
THEOREM RowsFitCorrect == Spec => []UpdateMultiRowsFit
<1>1. ASSUME FillInv, GroupsAsDeclared PROVE UpdateMultiRowsFit
  <2> SUFFICES ASSUME phase = "done", NEW key \in Keys, NEW n \in BatchSize, NEW i \in 1 .. n
               PROVE  LET q == QueryUpdateMulti(key, n)
                      IN \E base \in 0 .. Len(q.sql) :
                          LET row == SubSeq(q.sql, base + 1, base + Len(cols))
                              sent(role) ==
                                  {p.col : p \in {r \in Range(row) : r.role = role}}
                          IN /\ \A j \in DOMAIN q.sql :
                                   q.sql[j].record = i /\ IsValue(q.sql[j])
                                       <=> base < j /\ j <= base + Len(cols)
                             /\ [j \in DOMAIN row |-> row[j].col] = cols
                             /\ sent("value") =
                                    ColumnsOf(q, "set") \cup ColumnsOf(q, "where")
                             /\ sent("mutator") = ColumnsOf(q, "add")
    BY DEF UpdateMultiRowsFit
  <2>1. Listing
    BY <1>1, DoneListing
  <2>2. /\ key \in Seq(Range(cols)) /\ Range(key) = table.primaryKey
    BY <2>1, KeyTypes DEF Listing
  <2>3. Range(groups.mutators) = table.mutators
    BY <1>1 DEF FillInv, GroupsAsDeclared, Generated, Sound, SameFlags, Mutators
  <2>4. n \in Nat
    BY BatchSizeAssumption
  <2> QED
    BY <2>1, <2>2, <2>3, <2>4, RowFits
<1> QED
  BY <1>1, FillCorrect, GroupsCorrect, PTL

----------------------------------------------------------------------------
(* Lists and their commas.                                                 *)

SetRoles == {"set", "add", "excluded"}
ValueRoles == {"value", "mutator", "null"}
Families == {SetRoles, {"returning"}, ValueRoles}

\* Does a comma precede every piece of a list but the first?
Separated(sql) ==
    \A j \in 1 .. Len(sql) :
        sql[j].comma <=> \E h \in 1 .. j - 1 : SameList(sql[h], sql[j])

\* No piece of the one is in a list of the other.
Apart(s, t) ==
    \A h \in 1 .. Len(s), j \in 1 .. Len(t) : ~SameList(s[h], t[j])

LEMMA SameFamily ==
    ASSUME NEW p \in SqlPiece, NEW r \in SqlPiece
    PROVE  SameList(p, r) <=> /\ p.record = r.record
                              /\ \E F \in Families : p.role \in F /\ r.role \in F
BY DEF SameList, Families, SetRoles, ValueRoles

LEMMA SeparatedJoin ==
    ASSUME NEW s \in Seq(SqlPiece), NEW t \in Seq(SqlPiece),
           Separated(s), Separated(t), Apart(s, t)
    PROVE  Separated(s \o t)
<1> DEFINE u == s \o t
           n == Len(s)
<1>1. /\ n \in Nat /\ Len(t) \in Nat /\ Len(u) = n + Len(t)
      /\ \A j \in 1 .. n : u[j] = s[j]
      /\ \A j \in 1 .. Len(t) : u[n + j] = t[j]
  BY JoinPieces
<1>2. \A h \in 1 .. n, j \in 1 .. Len(t) : ~SameList(s[h], t[j])
  BY DEF Apart
<1> HIDE DEF u
<1> SUFFICES ASSUME NEW j \in 1 .. Len(u)
             PROVE  u[j].comma <=> \E h \in 1 .. j - 1 : SameList(u[h], u[j])
  BY DEF Separated, u
<1>3. CASE j <= n
  <2>1. j \in 1 .. n /\ u[j] = s[j] /\ \A h \in 1 .. j - 1 : u[h] = s[h]
    BY <1>1, <1>3
  <2>2. s[j].comma <=> \E h \in 1 .. j - 1 : SameList(s[h], s[j])
    BY <2>1 DEF Separated
  <2> QED
    BY <2>1, <2>2
<1>4. CASE j > n
  <2> DEFINE k == j - n
  <2>1. k \in 1 .. Len(t) /\ n + k = j
    BY <1>1, <1>4
  <2>2. u[j] = t[k]
    BY <1>1, <2>1
  <2>3. t[k].comma <=> \E h \in 1 .. k - 1 : SameList(t[h], t[k])
    BY <2>1 DEF Separated
  <2>4. ASSUME NEW h \in 1 .. k - 1 PROVE n + h \in 1 .. j - 1 /\ u[n + h] = t[h]
    <3>1. h \in 1 .. Len(t) /\ n + h \in 1 .. j - 1
      BY <1>1, <2>1
    <3> QED
      BY <1>1, <3>1
  <2>5. ASSUME NEW h \in 1 .. j - 1, SameList(u[h], t[k])
        PROVE  h - n \in 1 .. k - 1 /\ u[h] = t[h - n]
    <3>1. CASE h <= n
      <4>1. h \in 1 .. n /\ u[h] = s[h]
        BY <1>1, <3>1
      <4> QED
        BY <1>2, <2>1, <2>5, <4>1
    <3>2. CASE h > n
      <4>1. h - n \in 1 .. k - 1 /\ h - n \in 1 .. Len(t) /\ n + (h - n) = h
        BY <1>1, <2>1, <3>2
      <4> QED
        BY <1>1, <4>1
    <3> QED
      BY <1>1, <3>1, <3>2
  <2> HIDE DEF k
  <2> QED
    BY <2>2, <2>3, <2>4, <2>5
<1> QED
  BY <1>1, <1>3, <1>4

\* Pieces of one list.
LEMMA OneList ==
    ASSUME NEW s \in Seq(SqlPiece), NEW F \in Families, NEW i,
           \A j \in 1 .. Len(s) : /\ s[j].role \in F /\ s[j].record = i
                                  /\ s[j].comma <=> j > 1
    PROVE  Separated(s)
<1> SUFFICES ASSUME NEW j \in 1 .. Len(s)
             PROVE  j > 1 <=> \E h \in 1 .. j - 1 : SameList(s[h], s[j])
  BY DEF Separated
<1>1. \A h \in 1 .. Len(s) : s[h] \in SqlPiece
  OBVIOUS
<1>2. \A h \in 1 .. Len(s) : SameList(s[h], s[j])
  BY <1>1, SameFamily
<1>3. CASE j > 1
  <2>1. 1 \in 1 .. j - 1 /\ 1 \in 1 .. Len(s)
    BY <1>3
  <2> QED
    BY <1>2, <1>3, <2>1
<1>4. CASE ~(j > 1)
  <2>1. 1 .. j - 1 = {}
    BY <1>4
  <2> QED
    BY <1>4, <2>1
<1> QED
  BY <1>3, <1>4

\* Pieces of no list.
LEMMA NoList ==
    ASSUME NEW s \in Seq(SqlPiece),
           \A j \in 1 .. Len(s) : s[j].role = "where" /\ ~s[j].comma
    PROVE  Separated(s)
<1>1. \A h \in 1 .. Len(s) : s[h] \in SqlPiece
  OBVIOUS
<1>2. ASSUME NEW j \in 1 .. Len(s), NEW h \in 1 .. j - 1 PROVE ~SameList(s[h], s[j])
  <2>1. h \in 1 .. Len(s)
    OBVIOUS
  <2>2. \A F \in Families : "where" \notin F
    BY DEF Families, SetRoles, ValueRoles
  <2> QED
    BY <1>1, <2>1, <2>2, SameFamily
<1> QED
  BY <1>2 DEF Separated

\* SQL whose pieces have the roles of R.
Neat(R) ==
    {s \in Seq(SqlPiece) : Separated(s) /\ \A j \in 1 .. Len(s) : s[j].role \in R}

LEMMA NeatJoin ==
    ASSUME NEW R, NEW Q, NEW s \in Neat(R), NEW t \in Neat(Q),
           \A F \in Families : F \cap R = {} \/ F \cap Q = {}
    PROVE  s \o t \in Neat(R \cup Q)
<1>1. /\ s \in Seq(SqlPiece) /\ t \in Seq(SqlPiece) /\ Separated(s) /\ Separated(t)
      /\ \A h \in 1 .. Len(s) : s[h].role \in R
      /\ \A j \in 1 .. Len(t) : t[j].role \in Q
  BY DEF Neat
<1>2. Apart(s, t)
  <2>1. /\ \A h \in 1 .. Len(s) : s[h] \in SqlPiece
        /\ \A j \in 1 .. Len(t) : t[j] \in SqlPiece
    BY <1>1
  <2> QED
    BY <1>1, <2>1, SameFamily DEF Apart
<1>3. Separated(s \o t)
  BY <1>1, <1>2, SeparatedJoin
<1>4. /\ s \o t \in Seq(SqlPiece) /\ Len(s) \in Nat /\ Len(t) \in Nat
      /\ Len(s \o t) = Len(s) + Len(t)
      /\ \A j \in 1 .. Len(s) : (s \o t)[j] = s[j]
      /\ \A j \in 1 .. Len(t) : (s \o t)[Len(s) + j] = t[j]
  BY <1>1, JoinPieces
<1>5. ASSUME NEW j \in 1 .. Len(s \o t) PROVE (s \o t)[j].role \in R \cup Q
  <2>1. CASE j <= Len(s)
    <3>1. j \in 1 .. Len(s)
      BY <1>4, <2>1
    <3> QED
      BY <1>1, <1>4, <3>1
  <2>2. CASE j > Len(s)
    <3>1. j - Len(s) \in 1 .. Len(t) /\ Len(s) + (j - Len(s)) = j
      BY <1>4, <2>2
    <3>2. (s \o t)[j] = t[j - Len(s)]
      BY <1>4, <3>1
    <3> QED
      BY <1>1, <3>1, <3>2
  <2> QED
    BY <1>4, <2>1, <2>2
<1> QED
  BY <1>3, <1>4, <1>5 DEF Neat

\* Clauses.
LEMMA ListNeat ==
    ASSUME FillTypes, NEW list \in Seq(Range(cols)), NEW base \in Nat,
           NEW F \in Families, NEW role \in F
    PROVE  Listed(role, list) \in Neat(F) /\ Numbered(role, list, base) \in Neat(F)
<1> DEFINE l == Listed(role, list)
           m == Numbered(role, list, base)
<1>1. role \in Role /\ DOMAIN list = 1 .. Len(list)
  BY DEF Families, SetRoles, ValueRoles, Role
<1>2. /\ l \in Seq(SqlPiece) /\ Len(l) = Len(list)
      /\ m \in Seq(SqlPiece) /\ Len(m) = Len(list)
  BY <1>1, ClauseTypes, 0 \in Nat, "data" \in {"data", "mut", "sum"}
<1>3. \A j \in 1 .. Len(list) : /\ l[j] = Piece(role, 1, list[j], 0, j > 1)
                                /\ m[j] = Piece(role, 1, list[j], base + j, j > 1)
  BY <1>1 DEF Listed, Numbered
<1> HIDE DEF l, m
<1>4. ASSUME NEW s \in {l, m}, NEW j \in 1 .. Len(s)
      PROVE  s[j].role = role /\ s[j].record = 1 /\ (s[j].comma <=> j > 1)
  <2>1. PICK num : s[j] = Piece(role, 1, list[j], num, j > 1)
    BY <1>2, <1>3
  <2> DEFINE p == s[j]
             comma == j > 1
  <2>2. p = Piece(role, 1, list[j], num, comma)
    BY <2>1
  <2> HIDE DEF p, comma
  <2>3. p.role = role /\ p.record = 1 /\ p.comma = comma
    BY ONLY <2>2 DEF Piece
  <2> QED
    BY <2>3 DEF p, comma
<1>5. ASSUME NEW s \in {l, m} PROVE s \in Neat(F)
  <2>1. s \in Seq(SqlPiece)
    BY <1>2
  <2>2. ASSUME NEW j \in 1 .. Len(s)
        PROVE  s[j].role \in F /\ s[j].record = 1 /\ (s[j].comma <=> j > 1)
    <3>1. s[j].role = role /\ s[j].record = 1 /\ (s[j].comma <=> j > 1)
      BY <1>4, Zenon
    <3>2. role \in F
      OBVIOUS
    <3> QED
      BY ONLY <3>1, <3>2
  <2>3. Separated(s)
    BY ONLY <2>1, <2>2, F \in Families, OneList
  <2> QED
    BY ONLY <2>1, <2>2, <2>3 DEF Neat
<1> QED
  BY <1>5 DEF l, m

LEMMA WhereNeat ==
    ASSUME FillTypes, NEW list \in Seq(Range(cols)), NEW base \in Nat
    PROVE  Where(list, base) \in Neat({"where"}) /\ KeyPieces(list) \in Neat({"where"})
<1> DEFINE w == Where(list, base)
           k == KeyPieces(list)
<1>1. DOMAIN list = 1 .. Len(list) /\ "where" \in Role
  BY DEF Role
<1>2. /\ w \in Seq(SqlPiece) /\ Len(w) = Len(list)
      /\ k \in Seq(SqlPiece) /\ Len(k) = Len(list)
  BY <1>1, ClauseTypes, TailType, 0 \in Nat, "data" \in {"data", "mut", "sum"}
<1>3. /\ \A j \in 1 .. Len(w) : w[j].role = "where" /\ ~w[j].comma
      /\ \A j \in 1 .. Len(k) : k[j].role = "where" /\ ~k[j].comma
  BY <1>1, <1>2 DEF Where, KeyPieces, Piece
<1> HIDE DEF w, k
<1>4. Separated(w) /\ Separated(k)
  BY <1>2, <1>3, NoList
<1> QED
  BY <1>2, <1>3, <1>4 DEF Neat, w, k

\* The mutators after the other columns of SET.
First(s) ==
    \A j \in 1 .. Len(s) :
        s[j].role \in SetRoles /\ s[j].record = 1 /\ (s[j].comma <=> j > 1)

Rest(s) ==
    \A j \in 1 .. Len(s) :
        s[j].role \in SetRoles /\ s[j].record = 1 /\ (s[j].comma <=> AddedComma(j))

LEMMA AddedNeat ==
    ASSUME FillTypes, NEW u \in Seq(SqlPiece), NEW d \in Seq(SqlPiece),
           Len(u) = Len(groups.updateValue), First(u), Rest(d)
    PROVE  u \o d \in Neat(SetRoles)
<1>1. /\ u \o d \in Seq(SqlPiece) /\ Len(u) \in Nat /\ Len(d) \in Nat
      /\ Len(u \o d) = Len(u) + Len(d)
      /\ \A j \in 1 .. Len(u) : (u \o d)[j] = u[j]
      /\ \A j \in 1 .. Len(d) : (u \o d)[Len(u) + j] = d[j]
  BY JoinPieces
<1>2. groups.updateValue # <<>> <=> Len(u) > 0
  <2>1. groups.updateValue \in Seq(Range(cols))
    BY ListTypes DEF Group
  <2> QED
    BY <2>1
<1>3. ASSUME NEW j \in 1 .. Len(u \o d)
      PROVE  /\ (u \o d)[j].role \in SetRoles /\ (u \o d)[j].record = 1
             /\ (u \o d)[j].comma <=> j > 1
  <2>1. CASE j <= Len(u)
    <3>1. j \in 1 .. Len(u)
      BY <1>1, <2>1
    <3> QED
      BY <1>1, <3>1 DEF First
  <2>2. CASE j > Len(u)
    <3>1. j - Len(u) \in 1 .. Len(d) /\ Len(u) + (j - Len(u)) = j
      BY <1>1, <2>2
    <3>2. (u \o d)[j] = d[j - Len(u)]
      BY <1>1, <3>1
    <3>3. AddedComma(j - Len(u)) <=> j > 1
      BY <1>1, <1>2, <3>1 DEF AddedComma
    <3> QED
      BY <3>1, <3>2, <3>3 DEF Rest
  <2> QED
    BY <1>1, <2>1, <2>2
<1>4. Separated(u \o d)
  <2>1. SetRoles \in Families
    BY DEF Families
  <2> QED
    BY <1>1, <1>3, <2>1, OneList
<1> QED
  BY <1>1, <1>3, <1>4 DEF Neat

LEMMA SetNeat ==
    ASSUME Listing, NEW base \in Nat
    PROVE  /\ Listed("excluded", groups.updateValue) \o Added(base) \in Neat(SetRoles)
           /\ Numbered("set", groups.updateValue, 0) \o Added(base) \in Neat(SetRoles)
           /\ UpdateMultiHead \in Neat(SetRoles)
<1> DEFINE v == groups.updateValue
           m == groups.mutators
           e == Listed("excluded", v)
           s == Listed("set", v)
           u == Numbered("set", v, 0)
           a == Added(base)
           d == [j \in DOMAIN m |-> Piece("add", 1, m[j], 0, AddedComma(j))]
<1>1. /\ FillTypes /\ v \in Seq(Range(cols)) /\ m \in Seq(Range(cols))
      /\ DOMAIN v = 1 .. Len(v) /\ DOMAIN m = 1 .. Len(m) /\ Len(m) \in Nat
  BY GroupTypes, ListTypes DEF Listing, Group
<1>2. /\ e \in Seq(SqlPiece) /\ Len(e) = Len(v)
      /\ s \in Seq(SqlPiece) /\ Len(s) = Len(v)
      /\ u \in Seq(SqlPiece) /\ Len(u) = Len(v)
      /\ a \in Seq(SqlPiece) /\ Len(a) = Len(m)
  BY <1>1, ClauseTypes, 0 \in Nat, 1 \in Nat, "data" \in {"data", "mut", "sum"} DEF Role
<1>3. d \in Seq(SqlPiece) /\ Len(d) = Len(m)
  <2>1. \A j \in DOMAIN m : m[j] \in Range(cols)
    BY <1>1
  <2>2. \A j \in DOMAIN m : Piece("add", 1, m[j], 0, AddedComma(j)) \in SqlPiece
    BY <2>1 DEF Piece, SqlPiece, Role, AddedComma
  <2>3. d \in [1 .. Len(m) -> SqlPiece]
    BY <1>1, <2>2
  <2> HIDE DEF d, m
  <2> QED
    BY <1>1, <2>3, IsSequence
<1>4. First(e) /\ First(s) /\ First(u)
  BY <1>1, <1>2 DEF Listed, Numbered, Piece, SetRoles, First
<1>5. Rest(a) /\ Rest(d)
  BY <1>1, <1>2, <1>3 DEF Added, Piece, SetRoles, Rest
<1>6. UpdateMultiHead = s \o d
  BY DEF UpdateMultiHead
<1> HIDE DEF e, s, u, a, d, m
<1>7. e \o a \in Neat(SetRoles)
  BY <1>1, <1>2, <1>4, <1>5, AddedNeat
<1>8. u \o a \in Neat(SetRoles)
  BY <1>1, <1>2, <1>4, <1>5, AddedNeat
<1>9. s \o d \in Neat(SetRoles)
  BY <1>1, <1>2, <1>3, <1>4, <1>5, AddedNeat
<1> QED
  BY <1>6, <1>7, <1>8, <1>9 DEF e, u, a

\* What a loop appends.
LEMMA ItemsJoin ==
    ASSUME NEW q \in Query, NEW items \in Seq(ItemType)
    PROVE  /\ AppendItems(q, items) \in Query
           /\ \E t \in Seq(SqlPiece) :
                 /\ Len(t) = Len(items) /\ AppendItems(q, items).sql = q.sql \o t
                 /\ \A m \in 1 .. Len(items) : Shows(t[m], items[m])
<1> DEFINE r == AppendItems(q, items)
           n == Len(q.sql)
           t == [m \in 1 .. Len(items) |-> r.sql[n + m]]
<1>1. r \in Longer(q, items, Len(items))
  BY ItemsSql
<1> HIDE DEF r
<1>2. /\ r \in Query /\ r.sql \in Seq(SqlPiece) /\ Len(r.sql) = n + Len(items)
      /\ \A h \in 1 .. n : r.sql[h] = q.sql[h]
      /\ \A m \in 1 .. Len(items) : Shows(r.sql[n + m], items[m])
      /\ q.sql \in Seq(SqlPiece) /\ n \in Nat /\ Len(items) \in Nat
  BY <1>1 DEF Longer, Query
<1>3. t \in Seq(SqlPiece) /\ Len(t) = Len(items)
  <2>1. \A m \in 1 .. Len(items) : n + m \in 1 .. Len(r.sql)
    BY <1>2
  <2>2. t \in [1 .. Len(items) -> SqlPiece]
    BY <1>2, <2>1
  <2> HIDE DEF t
  <2> QED
    BY <1>2, <2>2, IsSequence
<1>4. \A m \in 1 .. Len(items) : t[m] = r.sql[n + m]
  OBVIOUS
<1> HIDE DEF t
<1>5. r.sql = q.sql \o t
  <2> DEFINE u == q.sql \o t
  <2>1. /\ u \in Seq(SqlPiece) /\ Len(u) = n + Len(items)
        /\ \A h \in 1 .. n : u[h] = q.sql[h]
        /\ \A m \in 1 .. Len(items) : u[n + m] = t[m]
    <3>1. q.sql \in Seq(SqlPiece) /\ t \in Seq(SqlPiece)
      BY <1>2, <1>3
    <3>2. /\ u \in Seq(SqlPiece) /\ Len(u) = Len(q.sql) + Len(t)
          /\ \A h \in 1 .. Len(q.sql) : u[h] = q.sql[h]
          /\ \A m \in 1 .. Len(t) : u[Len(q.sql) + m] = t[m]
      BY ONLY <3>1, JoinPieces
    <3> QED
      BY <1>3, <3>2
  <2> HIDE DEF u
  <2>2. ASSUME NEW h \in 1 .. n + Len(items) PROVE r.sql[h] = u[h]
    <3>1. CASE h <= n
      <4>1. h \in 1 .. n
        BY <1>2, <3>1
      <4> QED
        BY <1>2, <2>1, <4>1
    <3>2. CASE h > n
      <4>1. h - n \in 1 .. Len(items) /\ n + (h - n) = h
        BY <1>2, <3>2
      <4>2. r.sql[h] = t[h - n] /\ u[h] = t[h - n]
        BY <1>4, <2>1, <4>1
      <4> QED
        BY <4>2
    <3> QED
      BY <1>2, <3>1, <3>2
  <2>3. r.sql = u
    BY <1>2, <2>1, <2>2, SeqEqual
  <2> QED
    BY <2>3 DEF u
<1> QED
  BY <1>2, <1>3, <1>4, <1>5 DEF r

\* The row of record i in VALUES.
ValueRow(items, i) ==
    \A m \in 1 .. Len(items) : /\ items[m].role \in ValueRoles
                               /\ items[m].arg.record = i
                               /\ items[m].comma <=> m > 1

\* The queries with rows of the first j records.
Valued(R, j) ==
    {r \in Query :
        /\ r.sql \in Neat(R \cup ValueRoles)
        /\ \A h \in 1 .. Len(r.sql) : r.sql[h].role \in ValueRoles => r.sql[h].record <= j}

LEMMA ValuesNext ==
    ASSUME NEW R, R \cap ValueRoles = {}, NEW j \in Nat, j >= 1,
           NEW q \in Valued(R, j - 1), NEW items \in Seq(ItemType), ValueRow(items, j)
    PROVE  AppendItems(q, items) \in Valued(R, j)
<1> DEFINE r == AppendItems(q, items)
<1>1. q \in Query /\ q.sql \in Neat(R \cup ValueRoles)
      /\ \A h \in 1 .. Len(q.sql) :
            q.sql[h].role \in ValueRoles => q.sql[h].record <= j - 1
  BY DEF Valued
<1>2. q.sql \in Seq(SqlPiece) /\ Separated(q.sql)
      /\ \A h \in 1 .. Len(q.sql) : q.sql[h].role \in R \cup ValueRoles
  BY <1>1 DEF Neat
<1>3. r \in Query
  BY <1>1, ItemsJoin
<1>4. PICK t \in Seq(SqlPiece) :
         /\ Len(t) = Len(items) /\ r.sql = q.sql \o t
         /\ \A m \in 1 .. Len(items) : Shows(t[m], items[m])
  BY <1>1, ItemsJoin
<1> HIDE DEF r
<1>5. \A m \in 1 .. Len(t) : /\ t[m].role \in ValueRoles /\ t[m].record = j
                             /\ t[m].comma <=> m > 1
  BY <1>4 DEF Shows, ValueRow
<1>6. Separated(t)
  <2>1. ValueRoles \in Families
    BY DEF Families
  <2> QED
    BY <1>5, <2>1, OneList
<1>7. Apart(q.sql, t)
  <2> SUFFICES ASSUME NEW h \in 1 .. Len(q.sql), NEW m \in 1 .. Len(t)
               PROVE  ~SameList(q.sql[h], t[m])
    BY DEF Apart
  <2>1. q.sql[h] \in SqlPiece /\ t[m] \in SqlPiece
    BY <1>2
  <2>2. q.sql[h].record \in Nat
    BY <2>1 DEF SqlPiece
  <2>3. q.sql[h].role \in ValueRoles => q.sql[h].record # t[m].record
    BY <1>1, <1>5, <2>2
  <2>4. \A F \in Families : t[m].role \in F => F = ValueRoles
    BY <1>5 DEF Families, SetRoles, ValueRoles
  <2> QED
    BY <2>1, <2>3, <2>4, SameFamily
<1>8. /\ q.sql \o t \in Seq(SqlPiece) /\ Len(q.sql) \in Nat /\ Len(t) \in Nat
      /\ Len(q.sql \o t) = Len(q.sql) + Len(t)
      /\ \A h \in 1 .. Len(q.sql) : (q.sql \o t)[h] = q.sql[h]
      /\ \A h \in 1 .. Len(t) : (q.sql \o t)[Len(q.sql) + h] = t[h]
  BY <1>2, JoinPieces
<1>9. Separated(q.sql \o t)
  BY <1>2, <1>6, <1>7, SeparatedJoin
<1>10. ASSUME NEW h \in 1 .. Len(r.sql)
       PROVE  /\ r.sql[h].role \in R \cup ValueRoles
              /\ r.sql[h].role \in ValueRoles => r.sql[h].record <= j
  <2>1. CASE h <= Len(q.sql)
    <3>1. h \in 1 .. Len(q.sql) /\ r.sql[h] = q.sql[h]
      BY <1>4, <1>8, <2>1
    <3>2. q.sql[h].record \in Nat
      <4>1. q.sql[h] \in SqlPiece
        BY <1>2, <3>1
      <4> QED
        BY <4>1 DEF SqlPiece
    <3>3. q.sql[h].role \in ValueRoles => q.sql[h].record <= j
      <4>1. q.sql[h].role \in ValueRoles => q.sql[h].record <= j - 1
        BY <1>1, <3>1
      <4> QED
        BY <3>2, <4>1
    <3> QED
      BY <1>2, <3>1, <3>3
  <2>2. CASE h > Len(q.sql)
    <3>1. h - Len(q.sql) \in 1 .. Len(t) /\ Len(q.sql) + (h - Len(q.sql)) = h
      BY <1>4, <1>8, <2>2
    <3>2. r.sql[h] = t[h - Len(q.sql)]
      BY <1>4, <1>8, <3>1
    <3>3. t[h - Len(q.sql)].role \in ValueRoles /\ t[h - Len(q.sql)].record = j
      BY <1>5, <3>1
    <3>4. j <= j
      OBVIOUS
    <3> QED
      BY ONLY <3>2, <3>3, <3>4
  <2> QED
    BY <1>4, <1>8, <2>1, <2>2
<1> QED
  BY <1>3, <1>4, <1>8, <1>9, <1>10 DEF Valued, Neat, r

\* Rows of VALUES after SQL that has none.
LEMMA ValueRowsNeat ==
    ASSUME NEW R, R \cap ValueRoles = {}, NEW q \in Query, q.sql \in Neat(R),
           NEW n \in Nat, NEW rows \in [1 .. n -> Seq(ItemType)],
           NEW results \in [1 .. n -> Seq(Argument)],
           \A i \in 1 .. n : ValueRow(rows[i], i)
    PROVE  /\ AppendRows(q, rows, results) \in Query
           /\ AppendRows(q, rows, results).sql \in Neat(R \cup ValueRoles)
<1>0. /\ q \in Query /\ n \in Nat /\ rows \in [1 .. n -> Seq(ItemType)]
      /\ results \in [1 .. n -> Seq(Argument)]
  OBVIOUS
<1>1. PICK after :
         /\ after[0] = q
         /\ \A j \in 1 .. n :
               after[j] = AppendResults(AppendItems(after[j - 1], rows[j]), results[j])
         /\ AppendRows(q, rows, results) = after[n]
  BY ONLY <1>0, AppendRowsLoop
<1> DEFINE stage == [j \in 0 .. n |-> Valued(R, j)]
<1>2. after[0] \in stage[0]
  <2>1. q \in Valued(R, 0)
    BY DEF Neat, Valued
  <2> QED
    BY <1>1, <2>1
<1>3. ASSUME NEW j \in 1 .. n, after[j - 1] \in stage[j - 1] PROVE after[j] \in stage[j]
  <2> DEFINE r == after[j - 1]
             s == AppendItems(r, rows[j])
             e == results[j]
  <2>1. /\ j - 1 \in 0 .. n /\ j \in 0 .. n /\ j \in Nat /\ j >= 1
        /\ rows[j] \in Seq(ItemType) /\ e \in Seq(Argument) /\ ValueRow(rows[j], j)
    OBVIOUS
  <2>2. r \in Valued(R, j - 1)
    BY <1>3, <2>1
  <2>3. after[j] = AppendResults(s, e)
    BY <1>1
  <2> HIDE DEF r, e
  <2>4. s \in Valued(R, j)
    BY <2>1, <2>2, ValuesNext
  <2> HIDE DEF s
  <2>5. AppendResults(s, e) \in Query /\ AppendResults(s, e).sql = s.sql
    BY <2>1, <2>4, NoPieces, AppendType DEF Valued
  <2>6. AppendResults(s, e) \in Valued(R, j)
    <3> DEFINE t == AppendResults(s, e)
    <3> HIDE DEF t
    <3>1. t \in Query /\ t.sql = s.sql => t \in Valued(R, j)
      BY <2>4 DEF Valued
    <3> QED
      BY <2>5, <3>1 DEF t
  <2> QED
    BY <2>1, <2>3, <2>6
<1>4. \A j \in 0 .. n : after[j] \in stage[j]
  <2> HIDE DEF stage
  <2> QED
    BY <1>2, <1>3, Rounds
<1>5. after[n] \in Valued(R, n)
  BY <1>4
<1> QED
  BY <1>1, <1>5 DEF Valued

\* The columns of a key.
LEMMA KeyItemsNeat ==
    ASSUME FillTypes, NEW R, NEW q \in Query, q.sql \in Neat(R),
           NEW i \in Nat, NEW key \in Seq(Range(cols))
    PROVE  /\ AppendItems(q, KeyItems(i, key)) \in Query
           /\ AppendItems(q, KeyItems(i, key)).sql \in Neat(R \cup {"where"})
<1> DEFINE items == KeyItems(i, key)
           r == AppendItems(q, items)
<1>1. /\ items \in Seq(ItemType)
      /\ \A m \in 1 .. Len(items) : items[m].role = "where" /\ ~items[m].comma
  <2>1. DOMAIN key = 1 .. Len(key) /\ Len(key) \in Nat
    OBVIOUS
  <2>2. \A j \in 1 .. Len(key) : Item("where", FALSE, Expr("data", i, key[j])) \in ItemType
    BY <2>1 DEF Item, ItemType, Expr, Argument
  <2>3. /\ items \in [1 .. Len(key) -> ItemType]
        /\ \A m \in 1 .. Len(key) : items[m].role = "where" /\ ~items[m].comma
    BY <2>1, <2>2 DEF KeyItems, Item
  <2> HIDE DEF items
  <2> QED
    BY <2>1, <2>3, IsSequence
<1> HIDE DEF items
<1>2. r \in Query
  BY <1>1, ItemsJoin
<1>3. PICK t \in Seq(SqlPiece) :
         /\ Len(t) = Len(items) /\ r.sql = q.sql \o t
         /\ \A m \in 1 .. Len(items) : Shows(t[m], items[m])
  BY <1>1, ItemsJoin
<1>4. \A m \in 1 .. Len(t) : t[m].role = "where" /\ ~t[m].comma
  BY <1>1, <1>3 DEF Shows
<1>5. t \in Neat({"where"})
  BY <1>4, NoList DEF Neat
<1>6. \A F \in Families : F \cap R = {} \/ F \cap {"where"} = {}
  BY DEF Families, SetRoles, ValueRoles
<1>7. q.sql \o t \in Neat(R \cup {"where"})
  BY <1>5, <1>6, NeatJoin
<1> QED
  BY <1>2, <1>3, <1>7 DEF items

LEMMA KeyRowsNeat ==
    ASSUME FillTypes, NEW key \in Seq(Range(cols)), NEW n \in Nat
    PROVE  /\ QueryDeleteMulti(key, n) \in Query
           /\ QueryDeleteMulti(key, n).sql \in Neat({"where"})
<1> DEFINE q == NewQueryBuilder(<<>>)
           rows == [i \in 1 .. n |-> KeyItems(i, key)]
           results == [i \in 1 .. n |-> <<>>]
           W == {r \in Query : r.sql \in Neat({"where"})}
           stage == [j \in 0 .. n |-> W]
<1>1. rows \in [1 .. n -> Seq(ItemType)] /\ results \in [1 .. n -> Seq(Argument)]
  <2>1. ASSUME NEW i \in Nat PROVE KeyItems(i, key) \in Seq(ItemType)
    <3>1. DOMAIN key = 1 .. Len(key) /\ Len(key) \in Nat
      OBVIOUS
    <3>2. \A j \in 1 .. Len(key) : Item("where", FALSE, Expr("data", i, key[j])) \in ItemType
      BY <3>1 DEF Item, ItemType, Expr, Argument
    <3>3. KeyItems(i, key) \in [1 .. Len(key) -> ItemType]
      BY <3>1, <3>2 DEF KeyItems
    <3> QED
      BY <3>1, <3>3, IsSequence
  <2> QED
    BY <2>1, NoPieces
<1>2. q \in W
  <2>1. q \in Query /\ q.sql = <<>>
    BY NoPieces DEF NewQueryBuilder, NewSimpleQuery, Query
  <2>2. <<>> \in Neat({"where"})
    BY NoPieces DEF Neat, Separated
  <2> QED
    BY <2>1, <2>2
<1>3. \A j \in 1 .. n : rows[j] = KeyItems(j, key) /\ results[j] = <<>>
  OBVIOUS
<1> HIDE DEF rows, results
<1>4. PICK after :
         /\ after[0] = q
         /\ \A j \in 1 .. n :
               after[j] = AppendResults(AppendItems(after[j - 1], rows[j]), results[j])
         /\ AppendRows(q, rows, results) = after[n]
  BY <1>1, <1>2, AppendRowsLoop
<1> HIDE DEF q
<1>5. after[0] \in stage[0]
  BY <1>2, <1>4
<1>6. ASSUME NEW r \in W, NEW j \in 1 .. n
      PROVE  AppendResults(AppendItems(r, KeyItems(j, key)), <<>>) \in W
  <2> DEFINE s == AppendItems(r, KeyItems(j, key))
  <2>1. s \in Query /\ s.sql \in Neat({"where"} \cup {"where"})
    BY KeyItemsNeat
  <2> HIDE DEF s
  <2>2. /\ AppendResults(s, <<>>) \in Query
        /\ AppendResults(s, <<>>).sql = s.sql
    BY <2>1, NoPieces, AppendType
  <2>3. {"where"} \cup {"where"} = {"where"}
    OBVIOUS
  <2> QED
    BY <2>1, <2>2, <2>3 DEF s
<1> HIDE DEF W
<1>7. \A j \in 1 .. n : after[j - 1] \in stage[j - 1] => after[j] \in stage[j]
  BY <1>3, <1>4, <1>6
<1>8. \A j \in 0 .. n : after[j] \in stage[j]
  <2> HIDE DEF stage
  <2> QED
    BY <1>5, <1>7, Rounds
<1>9. after[n] \in W
  BY <1>8
<1>10. QueryDeleteMulti(key, n) = after[n]
  BY <1>4 DEF QueryDeleteMulti, q, rows, results
<1> QED
  BY <1>9, <1>10 DEF W

LEMMA SelectNeat ==
    ASSUME Listing, NEW key \in Seq(Range(cols)), NEW n \in Nat
    PROVE  /\ QueryDelete(key).sql \in Neat({"where"})
           /\ QuerySelect(key).sql \in Neat(Role)
           /\ QuerySelectMulti(key, n).sql \in Neat(Role)
           /\ QuerySelectMutators(key).sql \in Neat(Role)
<1> DEFINE w == Where(key, 0)
           l == Listed("returning", cols)
           m == Listed("returning", groups.mutators)
           e == Exprs("data", 1, cols)
           d == QueryDeleteMulti(key, n)
<1>1. /\ FillTypes /\ cols \in Seq(Range(cols)) /\ groups.mutators \in Seq(Range(cols))
      /\ {"returning"} \in Families /\ "returning" \in {"returning"}
  BY GroupTypes DEF Listing, Families
<1>2. w \in Neat({"where"})
  BY <1>1, WhereNeat, 0 \in Nat
<1>3. l \in Neat({"returning"}) /\ m \in Neat({"returning"})
  BY <1>1, ListNeat, 0 \in Nat
<1>4. d \in Query /\ d.sql \in Neat({"where"})
  BY <1>1, KeyRowsNeat
<1>5. e \in Seq(Argument)
  BY <1>1, ClauseTypes, "where" \in Role, 0 \in Nat, 1 \in Nat DEF Role
<1>6. l \in Seq(SqlPiece)
  BY <1>3 DEF Neat
<1> HIDE DEF w, l, m, e, d
<1>7. \A s : (s \in Neat({"returning"} \cup {"where"}) \/ s \in Neat({"where"} \cup {"returning"}))
             => s \in Neat(Role)
  BY DEF Neat, Role
<1>8. \A F \in Families : F \cap {"where"} = {}
  BY DEF Families, SetRoles, ValueRoles
<1>9. l \o w \in Neat(Role)
  BY <1>2, <1>3, <1>7, <1>8, NeatJoin
<1>10. w \o m \in Neat(Role)
  BY <1>2, <1>3, <1>7, <1>8, NeatJoin
<1>11. d.sql \o l \in Neat(Role)
  BY <1>3, <1>4, <1>7, <1>8, NeatJoin
<1>12. QueryDelete(key).sql = w /\ QuerySelect(key).sql = l \o w
       /\ QuerySelectMutators(key).sql = w \o m
  BY DEF QueryDelete, QuerySelect, QuerySelectMutators, NewSimpleQuery, w, l, m
<1>13. QuerySelectMulti(key, n).sql = d.sql \o l
  <2>1. AppendSQL(d, l) \in Query /\ AppendSQL(d, l).sql = d.sql \o l
    BY <1>4, <1>6, NoPieces, AppendType
  <2>2. AppendResults(AppendSQL(d, l), e).sql = AppendSQL(d, l).sql
    BY <1>5, <2>1, NoPieces, AppendType
  <2> QED
    BY <2>1, <2>2 DEF QuerySelectMulti, d, l, e
<1> QED
  BY <1>2, <1>9, <1>10, <1>11, <1>12, <1>13

\* The end of an INSERT.
LEMMA TailNeat ==
    ASSUME Listing
    PROVE  InsertTail \in Neat(SetRoles \cup {"returning"})
<1> DEFINE l == Listed("returning", groups.insertResult)
<1>1. /\ FillTypes /\ groups.insertResult \in Seq(Range(cols))
      /\ Len(groups.insertValue) \in Nat
      /\ {"returning"} \in Families /\ "returning" \in {"returning"}
  BY GroupTypes DEF Listing, Families
<1>2. l \in Neat({"returning"})
  BY <1>1, ListNeat, 0 \in Nat
<1>3. OnConflict \in Neat(SetRoles)
  <2>1. <<>> \in Neat(SetRoles)
    BY NoPieces DEF Neat, Separated
  <2>2. Listed("excluded", groups.updateValue) \o Added(Len(groups.insertValue))
           \in Neat(SetRoles)
    BY <1>1, SetNeat
  <2> QED
    BY <2>1, <2>2 DEF OnConflict
<1>4. \A F \in Families : F \cap SetRoles = {} \/ F \cap {"returning"} = {}
  BY DEF Families, SetRoles, ValueRoles
<1> HIDE DEF l
<1>5. OnConflict \o l \in Neat(SetRoles \cup {"returning"})
  BY <1>2, <1>3, <1>4, NeatJoin
<1> QED
  BY <1>5 DEF InsertTail, l

LEMMA InsertNeat ==
    ASSUME Listing, NEW n \in Nat
    PROVE  QueryInsert.sql \in Neat(Role) /\ QueryInsertMulti(n).sql \in Neat(Role)
<1> DEFINE v == Numbered("value", groups.insertValue, 0)
           q == NewQueryBuilder(<<>>)
           rows == [i \in 1 .. n |-> InsertRow(i)]
           results == [i \in 1 .. n |-> Exprs("data", i, groups.insertResult)]
           r == AppendRows(q, rows, results)
           t == InsertTail
           T == SetRoles \cup {"returning"}
<1>1. /\ FillTypes /\ groups.insertValue \in Seq(Range(cols))
      /\ groups.insertResult \in Seq(Range(cols))
      /\ DOMAIN groups.insertValue = 1 .. Len(groups.insertValue)
      /\ ValueRoles \in Families /\ "value" \in ValueRoles
  BY GroupTypes DEF Listing, Families, ValueRoles
<1>2. t \in Neat(T) /\ t \in Seq(SqlPiece)
  BY TailNeat DEF Neat
<1>3. v \in Neat(ValueRoles)
  BY <1>1, ListNeat, 0 \in Nat
<1>4. q \in Query /\ q.sql \in Neat({})
  <2>1. q \in Query /\ q.sql = <<>>
    BY NoPieces DEF NewQueryBuilder, NewSimpleQuery, Query
  <2>2. <<>> \in Neat({})
    BY NoPieces DEF Neat, Separated
  <2> QED
    BY <2>1, <2>2
<1>5. /\ rows \in [1 .. n -> Seq(ItemType)]
      /\ \A i \in 1 .. n : ValueRow(rows[i], i)
  <2>1. ASSUME NEW i \in Nat PROVE InsertRow(i) \in Seq(ItemType)
    <3>1. InsertRow(i) \in Seq(Proper)
      BY <1>1, RowsProper
    <3>2. Proper \subseteq ItemType
      BY DEF Proper
    <3> QED
      BY <3>1, <3>2, SeqMonotonic
  <2>2. ASSUME NEW i \in 1 .. n PROVE ValueRow(InsertRow(i), i)
    <3>1. /\ DOMAIN InsertRow(i) = 1 .. Len(groups.insertValue)
          /\ Len(groups.insertValue) \in Nat
      BY <1>1 DEF InsertRow
    <3>2. Len(InsertRow(i)) = Len(groups.insertValue)
      BY <2>1, <3>1
    <3>3. \A m \in 1 .. Len(groups.insertValue) :
             InsertRow(i)[m] = Item("value", m > 1, InsertArg(i, groups.insertValue[m]))
      BY <1>1 DEF InsertRow
    <3>4. \A m \in 1 .. Len(groups.insertValue) :
             InsertArg(i, groups.insertValue[m]).record = i
      BY DEF InsertArg, Expr
    <3>5. ASSUME NEW m \in 1 .. Len(groups.insertValue)
          PROVE  /\ InsertRow(i)[m].role \in ValueRoles
                 /\ InsertRow(i)[m].arg.record = i
                 /\ InsertRow(i)[m].comma <=> m > 1
      <4> DEFINE x == InsertArg(i, groups.insertValue[m])
                 o == InsertRow(i)[m]
      <4>1. o = Item("value", m > 1, x) /\ x.record = i /\ (m > 1) \in BOOLEAN
        BY <3>3, <3>4
      <4> HIDE DEF x, o
      <4>2. o.role = "value" /\ o.arg = x /\ o.comma = (m > 1)
        BY <4>1 DEF Item
      <4> QED
        BY <4>1, <4>2 DEF ValueRoles, o
    <3> QED
      BY <3>2, <3>5 DEF ValueRow
  <2> QED
    BY <2>1, <2>2
<1>6. results \in [1 .. n -> Seq(Argument)]
  BY <1>1, ClauseTypes, "where" \in Role, 0 \in Nat DEF Role
<1> HIDE DEF v, q, rows, results, t
<1>7. r \in Query /\ r.sql \in Neat({} \cup ValueRoles)
  BY <1>4, <1>5, <1>6, ValueRowsNeat
<1> HIDE DEF r
<1>8. r.sql \in Neat(ValueRoles)
  <2>1. {} \cup ValueRoles = ValueRoles
    OBVIOUS
  <2> QED
    BY <1>7, <2>1
<1>9. /\ \A F \in Families : F \cap ValueRoles = {} \/ F \cap T = {}
      /\ \A s : s \in Neat(ValueRoles \cup T) => s \in Neat(Role)
  <2>1. ValueRoles \cup T \subseteq Role
    BY DEF ValueRoles, SetRoles, Role
  <2> QED
    BY <2>1 DEF Families, SetRoles, ValueRoles, Neat
<1> HIDE DEF T
<1>10. v \o t \in Neat(Role)
  BY <1>2, <1>3, <1>9, NeatJoin
<1>11. r.sql \o t \in Neat(Role)
  BY <1>2, <1>8, <1>9, NeatJoin
<1>12. QueryInsert.sql = v \o t
  BY DEF QueryInsert, NewSimpleQuery, v, t
<1>13. QueryInsertMulti(n).sql = r.sql \o t
  <2>1. AppendSQL(r, t).sql = r.sql \o t
    BY <1>2, <1>7, NoPieces, AppendType
  <2> QED
    BY <2>1 DEF QueryInsertMulti, r, q, rows, results, t
<1> QED
  BY <1>10, <1>11, <1>12, <1>13

LEMMA FullUpdateNeat ==
    ASSUME Listing, NEW key \in Seq(Range(cols))
    PROVE  QueryFullUpdate(key).sql \in Neat(Role)
<1> DEFINE s == Numbered("set", groups.updateValue, 0) \o Added(Len(groups.updateValue))
           w == FullUpdateWhere(key)
           l == Listed("returning", groups.updateResult)
<1>1. /\ FillTypes /\ groups.updateResult \in Seq(Range(cols))
      /\ Len(groups.updateValue) \in Nat /\ Len(groups.mutators) \in Nat
      /\ {"returning"} \in Families /\ "returning" \in {"returning"}
  BY GroupTypes DEF Listing, Families
<1>2. s \in Neat(SetRoles)
  BY <1>1, SetNeat
<1>3. w \in Neat({"where"})
  <2>1. \A a, b \in Nat : a + b \in Nat
    OBVIOUS
  <2>2. Len(groups.updateValue) + Len(groups.mutators) \in Nat
    BY ONLY <1>1, <2>1
  <2> QED
    BY <1>1, <2>2, WhereNeat DEF FullUpdateWhere
<1>4. l \in Neat({"returning"})
  BY <1>1, ListNeat, 0 \in Nat
<1>5. QueryFullUpdate(key).sql = s \o w \o l
  BY DEF QueryFullUpdate, NewSimpleQuery
<1> HIDE DEF s, w, l
<1>6. /\ \A F \in Families : F \cap {"where"} = {}
      /\ \A F \in Families : F \cap (SetRoles \cup {"where"}) = {} \/ F \cap {"returning"} = {}
      /\ SetRoles \cup {"where"} \cup {"returning"} \subseteq Role
  BY DEF Families, SetRoles, ValueRoles, Role
<1>7. s \o w \in Neat(SetRoles \cup {"where"})
  BY <1>2, <1>3, <1>6, NeatJoin
<1>8. s \o w \o l \in Neat(SetRoles \cup {"where"} \cup {"returning"})
  <2> DEFINE R == SetRoles \cup {"where"}
             u == s \o w
  <2>1. u \in Neat(R) /\ \A F \in Families : F \cap R = {} \/ F \cap {"returning"} = {}
    BY <1>6, <1>7
  <2> HIDE DEF R, u
  <2>2. u \o l \in Neat(R \cup {"returning"})
    BY <1>4, <2>1, NeatJoin
  <2> QED
    BY <2>2 DEF R, u
<1> QED
  BY <1>5, <1>6, <1>8 DEF Neat

LEMMA UpdateMultiNeat ==
    ASSUME Listing, NEW key \in Seq(Range(cols)), NEW n \in Nat
    PROVE  QueryUpdateMulti(key, n).sql \in Neat(Role)
<1> DEFINE q == NewQueryBuilder(UpdateMultiHead)
           rows == [i \in 1 .. n |-> UpdateRow(i)]
           results == [i \in 1 .. n |-> Exprs("data", i, groups.updateResult)]
           r == AppendRows(q, rows, results)
           k == KeyPieces(key)
           l == Listed("returning", groups.updateResult)
           t == UpdateMultiTail(key)
           R == SetRoles \cup ValueRoles
           T == {"where"} \cup {"returning"}
<1>1. /\ FillTypes /\ groups.updateResult \in Seq(Range(cols)) /\ Len(cols) \in Nat
      /\ DOMAIN cols = 1 .. Len(cols)
      /\ {"returning"} \in Families /\ "returning" \in {"returning"}
  BY GroupTypes DEF Listing, Families
<1>2. q \in Query /\ q.sql \in Neat(SetRoles)
  <2>1. UpdateMultiHead \in Neat(SetRoles) /\ UpdateMultiHead \in Seq(SqlPiece)
    BY SetNeat, HeadType, 0 \in Nat
  <2>2. q \in Query /\ q.sql = UpdateMultiHead
    BY <2>1, NoPieces DEF NewQueryBuilder, NewSimpleQuery, Query
  <2> QED
    BY <2>1, <2>2
<1>3. /\ rows \in [1 .. n -> Seq(ItemType)]
      /\ \A i \in 1 .. n : ValueRow(rows[i], i)
  <2>1. ASSUME NEW i \in Nat PROVE UpdateRow(i) \in Seq(ItemType)
    <3>1. UpdateRow(i) \in Seq(Proper)
      BY RowsProper
    <3>2. Proper \subseteq ItemType
      BY DEF Proper
    <3> QED
      BY <3>1, <3>2, SeqMonotonic
  <2>2. ASSUME NEW i \in 1 .. n PROVE ValueRow(UpdateRow(i), i)
    <3>1. DOMAIN UpdateRow(i) = 1 .. Len(cols)
      BY <1>1 DEF UpdateRow
    <3>2. Len(UpdateRow(i)) = Len(cols)
      BY <1>1, <2>1, <3>1
    <3>3. ASSUME NEW m \in 1 .. Len(cols)
          PROVE  /\ UpdateRow(i)[m].role \in ValueRoles
                 /\ UpdateRow(i)[m].arg.record = i
                 /\ UpdateRow(i)[m].comma <=> m > 1
      <4> DEFINE x == Expr(IF Kind(cols[m]) = "mutator" THEN "mut" ELSE "data", i, cols[m])
                 o == UpdateRow(i)[m]
      <4>1. o = Item(Kind(cols[m]), m > 1, x) /\ (m > 1) \in BOOLEAN
        BY <1>1 DEF UpdateRow
      <4>2. x.record = i
        BY DEF Expr
      <4>3. Kind(cols[m]) \in ValueRoles
        BY DEF Kind, ValueRoles
      <4> HIDE DEF x, o
      <4>4. o.role = Kind(cols[m]) /\ o.arg = x /\ o.comma = (m > 1)
        BY <4>1 DEF Item
      <4> QED
        BY <4>1, <4>2, <4>3, <4>4 DEF o
    <3> QED
      BY <3>2, <3>3 DEF ValueRow
  <2> QED
    BY <2>1, <2>2
<1>4. results \in [1 .. n -> Seq(Argument)]
  BY <1>1, ClauseTypes, "where" \in Role, 0 \in Nat DEF Role
<1>5. k \in Neat({"where"})
  BY <1>1, WhereNeat, 0 \in Nat
<1>6. l \in Neat({"returning"})
  BY <1>1, ListNeat, 0 \in Nat
<1>7. t = k \o l
  BY TailType
<1> HIDE DEF q, rows, results, k, l, t
<1>8. /\ SetRoles \cap ValueRoles = {}
      /\ \A F \in Families : F \cap {"where"} = {}
      /\ \A F \in Families : F \cap R = {} \/ F \cap T = {}
      /\ R \cup T \subseteq Role
  BY DEF Families, SetRoles, ValueRoles, Role
<1>9. r \in Query /\ r.sql \in Neat(R)
  BY <1>2, <1>3, <1>4, <1>8, ValueRowsNeat
<1> HIDE DEF r
<1>10. t \in Neat(T) /\ t \in Seq(SqlPiece)
  <2>1. k \o l \in Neat(T)
    BY <1>5, <1>6, <1>8, NeatJoin
  <2> QED
    BY <1>7, <2>1 DEF Neat
<1> HIDE DEF R, T
<1>11. r.sql \o t \in Neat(R \cup T)
  BY <1>8, <1>9, <1>10, NeatJoin
<1>12. QueryUpdateMulti(key, n).sql = r.sql \o t
  <2>1. AppendSQL(r, t).sql = r.sql \o t
    BY <1>9, <1>10, NoPieces, AppendType
  <2> QED
    BY <2>1 DEF QueryUpdateMulti, r, q, rows, results, t
<1> QED
  BY <1>8, <1>11, <1>12 DEF Neat

\* Queries whose SQL is a list of changed columns, each with an argument.
Changing ==
    {q \in Query :
        /\ Len(q.sql) = Len(q.args)
        /\ \A h \in 1 .. Len(q.sql) : /\ q.sql[h].role \in SetRoles /\ q.sql[h].record = 1
                                      /\ q.sql[h].comma <=> h > 1}

LEMMA ChangedNeat ==
    ASSUME NEW q \in Changing, NEW list \in Seq(Range(cols)), NEW changed,
           NEW role \in {"set", "add"}, NEW what \in {"data", "mut", "sum"}
    PROVE  AppendChanged(q, role, what, list, changed) \in Changing
<1> DEFINE n == Len(list)
           stage == [j \in 0 .. n |-> Changing]
<1>1. n \in Nat /\ q \in Query
  BY DEF Changing
<1>2. PICK after :
         /\ after[0] = q
         /\ \A j \in 1 .. Len(list) :
               after[j] = IF j \in changed
                          THEN Bind(after[j - 1], role,
                                    CommaBefore(after[j - 1], list, j),
                                    Expr(what, 1, list[j]))
                          ELSE after[j - 1]
         /\ AppendChanged(q, role, what, list, changed) = after[Len(list)]
  BY ONLY <1>1, list \in Seq(Range(cols)), role \in {"set", "add"},
          what \in {"data", "mut", "sum"}, AppendChangedLoop, SMTT(30)
<1>3. ASSUME NEW r \in Changing, NEW j \in 1 .. n
      PROVE  Bind(r, role, CommaBefore(r, list, j), Expr(what, 1, list[j])) \in Changing
  <2> DEFINE x == Expr(what, 1, list[j])
             comma == CommaBefore(r, list, j)
             p == Piece(role, x.record, x.col, Len(r.args) + 1, comma)
             s == Bind(r, role, comma, x)
             N == Len(r.sql)
  <2>1. /\ r \in Query /\ N = Len(r.args)
        /\ \A h \in 1 .. N : /\ r.sql[h].role \in SetRoles /\ r.sql[h].record = 1
                             /\ r.sql[h].comma <=> h > 1
    BY DEF Changing
  <2>2. r.sql \in Seq(SqlPiece) /\ r.args \in Seq(Argument) /\ N \in Nat
    BY <2>1 DEF Query
  <2>3. comma \in BOOLEAN /\ (comma <=> N > 0)
    BY <2>1, <2>2 DEF CommaBefore
  <2>4. x \in Argument /\ x.record = 1 /\ role \in Role
    BY DEF Expr, Argument, Role
  <2> HIDE DEF x, comma
  <2>5. p.role = role /\ p.record = 1 /\ p.comma = comma
    BY <2>4 DEF Piece
  <2>6. s \in Query /\ s.args = Append(r.args, x) /\ s.sql = Append(r.sql, p)
    BY <2>1, <2>3, <2>4, BindType
  <2> HIDE DEF p, s
  <2>7. /\ Len(s.sql) = N + 1 /\ Len(s.args) = N + 1 /\ s.sql[N + 1] = p
        /\ \A h \in 1 .. N : s.sql[h] = r.sql[h]
    BY <2>1, <2>2, <2>6
  <2>8. role \in SetRoles
    BY DEF SetRoles
  <2> HIDE DEF N
  <2>9. ASSUME NEW h \in 1 .. N + 1
        PROVE  /\ s.sql[h].role \in SetRoles /\ s.sql[h].record = 1
               /\ s.sql[h].comma <=> h > 1
    <3>1. CASE h = N + 1
      <4>1. h > 1 <=> N > 0
        BY <2>2, <3>1
      <4> QED
        BY <2>3, <2>5, <2>7, <2>8, <3>1, <4>1
    <3>2. CASE h # N + 1
      <4>1. h \in 1 .. N
        BY <2>2, <3>2
      <4> QED
        BY <2>1, <2>7, <4>1 DEF N
    <3> QED
      BY <3>1, <3>2
  <2> QED
    BY <2>6, <2>7, <2>9 DEF Changing, s, p, x, comma
<1>4. after[0] \in stage[0]
  BY <1>1, <1>2
<1> HIDE DEF n
<1>5. \A j \in 1 .. n : after[j - 1] \in stage[j - 1] => after[j] \in stage[j]
  BY <1>1, <1>2, <1>3 DEF n
<1>6. \A j \in 0 .. n : after[j] \in stage[j]
  <2> HIDE DEF stage
  <2> QED
    BY <1>1, <1>4, <1>5, Rounds
<1>7. after[n] \in Changing
  BY <1>1, <1>6
<1> QED
  BY <1>2, <1>7 DEF n

LEMMA UpdateNeat ==
    ASSUME Listing, NEW key \in Seq(Range(cols)), NEW called, NEW counted
    PROVE  QueryUpdate(key, called, counted).sql \in Neat(Role)
<1> DEFINE bits == {b + 1 : b \in MaskOf(called)}
           counts == {j \in DOMAIN groups.mutators : groups.mutators[j] \in counted}
           none == NewQueryBuilder(<<>>)
           set == AppendChanged(none, "set", "data", groups.updateValue, bits)
           added == AppendChanged(set, "add", "mut", groups.mutators, counts)
           found == AppendItems(added, KeyItems(1, key))
           l == Listed("returning", groups.updateResult)
           e == Exprs("data", 1, groups.updateResult)
<1>1. /\ FillTypes /\ groups.updateValue \in Seq(Range(cols))
      /\ groups.mutators \in Seq(Range(cols))
      /\ groups.updateResult \in Seq(Range(cols))
      /\ {"returning"} \in Families /\ SetRoles \in Families
      /\ "returning" \in {"returning"}
  BY GroupTypes DEF Listing, Families
<1>2. none \in Changing
  <2>1. none \in Query /\ none.sql = <<>> /\ none.args = <<>>
    BY NoPieces DEF NewQueryBuilder, NewSimpleQuery, Query
  <2> HIDE DEF none
  <2> QED
    BY <2>1 DEF Changing
<1> HIDE DEF none, bits
<1>3. set \in Changing
  BY <1>1, <1>2, ChangedNeat
<1> HIDE DEF set, counts
<1>4. added \in Changing
  BY <1>1, <1>3, ChangedNeat
<1> HIDE DEF added
<1>5. added \in Query /\ added.sql \in Neat(SetRoles)
  <2>1. /\ added \in Query /\ added.sql \in Seq(SqlPiece)
        /\ \A h \in 1 .. Len(added.sql) :
              /\ added.sql[h].role \in SetRoles /\ added.sql[h].record = 1
              /\ added.sql[h].comma <=> h > 1
    BY <1>4 DEF Changing, Query
  <2>2. Separated(added.sql)
    BY <1>1, <2>1, OneList
  <2> QED
    BY <2>1, <2>2 DEF Neat
<1>6. found \in Query /\ found.sql \in Neat(SetRoles \cup {"where"})
  BY <1>1, <1>5, KeyItemsNeat, 1 \in Nat
<1>7. l \in Neat({"returning"}) /\ l \in Seq(SqlPiece)
  <2>1. l \in Neat({"returning"})
    BY <1>1, ListNeat, 0 \in Nat
  <2> QED
    BY <2>1 DEF Neat
<1>8. e \in Seq(Argument)
  BY <1>1, ClauseTypes, "where" \in Role, 0 \in Nat, 1 \in Nat DEF Role
<1> HIDE DEF found, l, e
<1> DEFINE R == SetRoles \cup {"where"}
<1>9. /\ \A F \in Families : F \cap R = {} \/ F \cap {"returning"} = {}
      /\ R \cup {"returning"} \subseteq Role
  BY DEF Families, SetRoles, ValueRoles, Role
<1>10. found.sql \in Neat(R)
  BY <1>6
<1> HIDE DEF R
<1>11. found.sql \o l \in Neat(R \cup {"returning"})
  BY <1>7, <1>9, <1>10, NeatJoin
<1>12. QueryUpdate(key, called, counted).sql = found.sql \o l
  <2>1. AppendSQL(found, l) \in Query /\ AppendSQL(found, l).sql = found.sql \o l
    BY <1>6, <1>7, NoPieces, AppendType
  <2>2. AppendResults(AppendSQL(found, l), e).sql = AppendSQL(found, l).sql
    BY <1>8, <2>1, NoPieces, AppendType
  <2> QED
    BY <2>1, <2>2 DEF QueryUpdate, found, added, set, none, bits, counts, l, e
<1> QED
  BY <1>9, <1>11, <1>12 DEF Neat

LEMMA QueriesNeat ==
    ASSUME Listing, NEW q \in Queries
    PROVE  q.sql \in Seq(SqlPiece) /\ Separated(q.sql)
<1>1. BatchSize \subseteq Nat
  BY BatchSizeAssumption
<1>2. cols \in Seq(Range(cols)) /\ FillTypes /\ \A key \in Keys : key \in Seq(Range(cols))
  BY GroupTypes, KeyTypes DEF Listing
<1> DEFINE S == {p \in Queries : p.sql \in Seq(SqlPiece) /\ Separated(p.sql)}
<1>3. \A R, p : p.sql \in Neat(R) => p.sql \in Seq(SqlPiece) /\ Separated(p.sql)
  BY DEF Neat
<1>4. ASSUME NEW p \in InsertQueries PROVE \E R : p.sql \in Neat(R)
  BY <1>1, InsertNeat, 0 \in Nat DEF InsertQueries
<1>5. ASSUME NEW key \in Seq(Range(cols)), NEW p \in SelectQueries(key)
      PROVE  \E R : p.sql \in Neat(R)
  BY <1>1, SelectNeat, 0 \in Nat DEF SelectQueries
<1>6. ASSUME NEW key \in Seq(Range(cols)), NEW p \in KeyQueries(key)
      PROVE  \E R : p.sql \in Neat(R)
  <2>1. /\ QueryDelete(key).sql \in Neat({"where"})
        /\ QueryFullUpdate(key).sql \in Neat(Role)
        /\ QuerySelectMutators(key).sql \in Neat(Role)
    BY SelectNeat, FullUpdateNeat, 0 \in Nat
  <2>2. \A n \in BatchSize : /\ QueryDeleteMulti(key, n).sql \in Neat({"where"})
                             /\ QueryUpdateMulti(key, n).sql \in Neat(Role)
    BY <1>1, <1>2, KeyRowsNeat, UpdateMultiNeat
  <2>3. \A x \in Changes : QueryUpdate(key, x[1], x[2]).sql \in Neat(Role)
    BY UpdateNeat
  <2> QED
    BY <2>1, <2>2, <2>3 DEF KeyQueries
<1>7. \E R : q.sql \in Neat(R)
  BY <1>2, <1>4, <1>5, <1>6 DEF Queries
<1> QED
  BY <1>3, <1>7

\* In every statement generated for a table, fixed or put together, a comma
\* precedes every piece of a list but the first: also where the columns of an
\* UPDATE that did not change are left out of SET, whichever they are, and where
\* SET, RETURNING and the rows of VALUES follow each other.
THEOREM ListsCorrect == Spec => []ListsSeparated
<1>1. ASSUME FillInv, GroupsAsDeclared PROVE ListsSeparated
  <2> SUFFICES ASSUME phase = "done", NEW q \in Queries, NEW j \in DOMAIN q.sql
               PROVE  q.sql[j].comma <=>
                         \E h \in 1 .. j - 1 : SameList(q.sql[h], q.sql[j])
    BY DEF ListsSeparated
  <2>1. q.sql \in Seq(SqlPiece) /\ Separated(q.sql)
    BY <1>1, DoneListing, QueriesNeat
  <2>2. j \in 1 .. Len(q.sql)
    BY <2>1
  <2> QED
    BY <2>1, <2>2 DEF Separated
<1> QED
  BY <1>1, FillCorrect, GroupsCorrect, PTL

=============================================================================
