-------------------------- MODULE Generator_proofs --------------------------
(***************************************************************************)
(* Theorems about Generator, for tables of any number of columns and every *)
(* declaration of them.                                                    *)
(***************************************************************************)
EXTENDS Generator, FiniteSetTheorems, SequenceTheorems, TLAPS

\* A list without repetitions has as many elements as its length says.
LEMMA InjectiveLength ==
    ASSUME NEW S, NEW s \in Seq(S), IsInjective(s)
    PROVE  Cardinality(Range(s)) = Len(s)
<1>1. Len(s) \in Nat /\ s \in [1 .. Len(s) -> Range(s)] /\ DOMAIN s = 1 .. Len(s)
  BY DEF Range
<1>2. s \in Bijection(1 .. Len(s), Range(s))
  BY <1>1 DEF Bijection, Injection, Surjection, IsInjective, Range
<1> QED
  BY <1>1, <1>2, FS_CountingElements DEF ExistsBijection

----------------------------------------------------------------------------
(* The invariant of the pass.                                              *)

\* What each group must be.
Declared ==
    [insertValue  |-> InsertValue(decl),
     insertResult |-> InsertResult(decl),
     updateValue  |-> UpdateValue(decl),
     updateResult |-> UpdateResult(decl),
     mutators     |-> Mutators(decl),
     setters      |-> Setters(decl)]

\* The columns looked at so far; all of them, once code is generated.
Seen == IF phase = "fill" THEN {cols[i] : i \in 1 .. next - 1} ELSE Range(cols)

\* Where a column stands in the declaration.
Place(c) == CHOOSE p \in DOMAIN cols : cols[p] = c

\* The columns of a list stand in it in their order in the declaration.
InOrder(list) ==
    \A i, j \in DOMAIN list : i < j => Place(list[i]) < Place(list[j])

\* The types of the variables, but for those of the second walk.
FillTypes ==
    /\ cols \in Layout
    /\ decl \in Declaration[cols]
    /\ name \in Naming[cols]
    /\ table \in TableOver(Range(cols))
    /\ groups \in [Group -> Seq(Range(cols))]
    /\ next \in 1 .. Len(cols) + 1
    /\ phase \in {"fill", "setters", "done", "error"}

\* The pass changes none of the flags that decide the groups.
SameFlags ==
    /\ table.primaryKey = decl.primaryKey
    /\ table.initByStorage = decl.initByStorage
    /\ table.disableInsert = decl.disableInsert
    /\ table.disableUpdate = decl.disableUpdate
    /\ table.mutators = decl.mutators
    /\ table.sqlValue = decl.sqlValue
    /\ table.disableActiveRecord = decl.disableActiveRecord
    /\ ByStorage(table) = ByStorage(decl)

\* The error returns none of the columns seen has taken.
NoneRejected ==
    /\ \A c \in Seen \cap decl.mutators :
          /\ HasKey(decl) /\ ~decl.disableActiveRecord
          /\ c \notin decl.disableUpdate \cup decl.primaryKey
    /\ \A c \in Seen : decl.updateOnConflict /\ c \in decl.primaryKey =>
          c \notin decl.initByStorage \cup ByStorage(decl)
    /\ \A c \in Seen : c \in decl.sqlValue /\ c \in decl.initByStorage =>
          c \notin decl.disableUpdate \cup ByStorage(decl)
    /\ \A c, d \in Seen \ decl.sqlValue : c # d => name[c] # name[d]

\* What holds until a column is rejected.
Sound ==
    /\ SameFlags
    /\ \A g \in Group : Range(groups[g]) = Declared[g] \cap Seen /\ InOrder(groups[g])
    /\ NoneRejected

Filling ==
    /\ \A g \in Group : Len(groups[g]) < next
    /\ taken = {name[c] : c \in Seen \ decl.sqlValue}
    /\ table.updateOnConflict = decl.updateOnConflict
    /\ table.onConflictDoNothing = decl.onConflictDoNothing
    /\ ~(decl.updateOnConflict /\ decl.onConflictDoNothing)

\* What holds once code is generated.
Filled ==
    /\ Accepted(decl)
    /\ table.updateOnConflict = Upsert(decl)
    /\ table.onConflictDoNothing = DoNothing(decl)
    /\ \A g \in Group : Len(groups[g]) <= Len(cols)
    /\ Len(groups.setters) <= MaxSetters
    /\ next <= Len(groups.setters) + 1

FillInv ==
    /\ FillTypes
    /\ taken \subseteq Range(name)
    /\ phase # "error" => Sound
    /\ phase = "fill" => Filling
    /\ Generated => Filled
    /\ phase = "error" => ~Accepted(decl) \/ NamesClash
    /\ ~Generated => updIdx = 0 /\ bit = <<>>

LEMMA ColumnTypes ==
    ASSUME FillTypes
    PROVE  /\ Len(cols) \in Nat
           /\ cols \in [1 .. Len(cols) -> Range(cols)] /\ DOMAIN cols = 1 .. Len(cols)
           /\ decl \in TableOver(Range(cols))
           /\ DOMAIN name = Range(cols)
           /\ next \in Nat
           /\ \A p \in 1 .. Len(cols) : Place(cols[p]) = p
<1>1. cols \in Seq(Range(cols)) /\ IsInjective(cols)
  BY LayoutAssumption DEF FillTypes
<1>2. Len(cols) \in Nat /\ cols \in [1 .. Len(cols) -> Range(cols)] /\ DOMAIN cols = 1 .. Len(cols)
  BY <1>1
<1>3. decl \in TableOver(Range(cols)) /\ DOMAIN name = Range(cols)
  BY LayoutAssumption DEF FillTypes
<1>4. \A p \in 1 .. Len(cols) : Place(cols[p]) = p
  BY <1>1, <1>2 DEF Place, IsInjective
<1> QED
  BY <1>2, <1>3, <1>4 DEF FillTypes

\* The columns of a list in order are different.
LEMMA OrderedInjective ==
    ASSUME FillTypes, NEW list \in Seq(Range(cols)), InOrder(list)
    PROVE  IsInjective(list)
<1>1. DOMAIN list = 1 .. Len(list) /\ Len(list) \in Nat
  OBVIOUS
<1>2. \A i \in DOMAIN list : Place(list[i]) \in Nat
  <2> SUFFICES ASSUME NEW i \in DOMAIN list PROVE Place(list[i]) \in Nat
    OBVIOUS
  <2>1. list[i] \in Range(cols)
    BY <1>1
  <2>2. PICK p \in 1 .. Len(cols) : list[i] = cols[p]
    BY <2>1, ColumnTypes DEF Range
  <2> QED
    BY <2>2, ColumnTypes
<1>3. SUFFICES ASSUME NEW i \in DOMAIN list, NEW j \in DOMAIN list,
                      list[i] = list[j], i < j
               PROVE  FALSE
  BY <1>1 DEF IsInjective
<1>4. Place(list[i]) < Place(list[j])
  BY <1>3 DEF InOrder
<1> QED
  BY <1>2, <1>3, <1>4

\* The column groups are made of the table's columns.
LEMMA DeclaredColumns ==
    ASSUME FillTypes, NEW g \in Group
    PROVE  Declared[g] \subseteq Range(cols)
<1>1. decl \in TableOver(Range(cols))
  BY ColumnTypes
<1> QED
  BY <1>1
     DEF Declared, Group, TableOver, InsertValue, InsertResult, InsertColumns,
         UpdateValue, UpdateResult, Updatable, Mutators, Setters

\* A column joins the groups it is declared for.
LEMMA JoinsDeclared ==
    ASSUME FillTypes, SameFlags, table.updateOnConflict = decl.updateOnConflict,
           NEW c \in Range(cols), NEW g \in Group
    PROVE  Joins(c)[g] <=> c \in Declared[g]
<1>1. decl \in TableOver(Range(cols))
  BY ColumnTypes
<1>2. c \in decl.cols
  BY <1>1 DEF TableOver
<1> USE <1>1, <1>2 DEF Joins, Declared, SameFlags, IsInserted, IsInit, IsCounter,
        IsUpdatable, FromStorage, InsertColumns, Updatable, HasKey
<1>3. CASE g = "insertValue"
  BY <1>3 DEF InsertValue
<1>4. CASE g = "insertResult"
  BY <1>4 DEF InsertResult
<1>5. CASE g = "updateValue"
  BY <1>5 DEF UpdateValue
<1>6. CASE g = "updateResult"
  BY <1>6 DEF UpdateResult
<1>7. CASE g = "mutators"
  BY <1>7 DEF Mutators
<1>8. CASE g = "setters"
  BY <1>8 DEF Setters, NeedsSetter, InsertValue, UpdateValue
<1> QED
  BY <1>3, <1>4, <1>5, <1>6, <1>7, <1>8 DEF Group

LEMMA FillInit == Init => FillInv
<1> SUFFICES ASSUME Init PROVE FillInv
  OBVIOUS
<1>1. /\ cols \in Layout /\ decl \in Declaration[cols] /\ name \in Naming[cols]
      /\ table = decl /\ next = 1 /\ taken = {} /\ updIdx = 0 /\ bit = <<>>
      /\ groups = [g \in Group |-> <<>>]
      /\ phase \in {"fill", "error"}
  BY DEF Init
<1>2. cols \in Seq(Range(cols)) /\ decl \in TableOver(Range(cols))
  BY <1>1, LayoutAssumption
<1>3. FillTypes
  BY <1>1, <1>2 DEF FillTypes
<1>4. Seen = {} \/ phase = "error"
  BY <1>1 DEF Seen
<1>5. phase # "error" => Sound
  BY <1>1, <1>4 DEF Sound, SameFlags, NoneRejected, InOrder, Range
<1>6. phase = "fill" => Filling
  BY <1>1, <1>4 DEF Filling, Init
<1>7. phase = "error" => ~Accepted(decl)
  BY DEF Init, Accepted
<1> QED
  BY <1>1, <1>3, <1>5, <1>6, <1>7 DEF FillInv, Generated

\* A list to which the column looked at is added.
LEMMA JoinList ==
    ASSUME FillTypes, NEW list \in Seq(Range(cols)), InOrder(list),
           Len(list) < next, next <= Len(cols),
           Range(list) \subseteq {cols[i] : i \in 1 .. next - 1},
           NEW list2, list2 = Append(list, cols[next])
    PROVE  /\ list2 \in Seq(Range(cols))
           /\ Len(list2) < next + 1
           /\ Range(list2) = Range(list) \cup {cols[next]}
           /\ InOrder(list2)
<1> DEFINE c == cols[next]
<1>1. next \in 1 .. Len(cols) /\ c \in Range(cols) /\ Place(c) = next
  <2>1. next \in 1 .. Len(cols)
    BY ColumnTypes DEF FillTypes
  <2> QED
    BY <2>1, ColumnTypes DEF Range
<1> HIDE DEF c
<1>2. list2 = Append(list, c)
  BY DEF c
<1>3. list2 \in Seq(Range(cols)) /\ Len(list2) = Len(list) + 1
  BY <1>1, <1>2
<1>4. /\ \A i \in 1 .. Len(list) : list2[i] = list[i]
      /\ list2[Len(list) + 1] = c
      /\ DOMAIN list2 = 1 .. Len(list) + 1
      /\ DOMAIN list = 1 .. Len(list) /\ Len(list) \in Nat
  BY <1>1, <1>2
<1>5. Range(list2) = Range(list) \cup {c}
  <2>1. \A i \in DOMAIN list2 : list2[i] \in Range(list) \cup {c}
    BY <1>4 DEF Range
  <2>2. Range(list) \subseteq Range(list2) /\ c \in Range(list2)
    BY <1>4 DEF Range
  <2> QED
    BY <2>1, <2>2 DEF Range
<1>6. \A i \in DOMAIN list : Place(list[i]) \in 1 .. next - 1
  <2> SUFFICES ASSUME NEW i \in DOMAIN list PROVE Place(list[i]) \in 1 .. next - 1
    OBVIOUS
  <2>1. list[i] \in Range(list)
    BY DEF Range
  <2>2. PICK p \in 1 .. next - 1 : list[i] = cols[p]
    BY <2>1
  <2>3. p \in 1 .. Len(cols)
    BY <1>1, ColumnTypes
  <2> QED
    BY <2>2, <2>3, ColumnTypes
<1>7. InOrder(list2)
  <2> SUFFICES ASSUME NEW i \in DOMAIN list2, NEW j \in DOMAIN list2, i < j
               PROVE  Place(list2[i]) < Place(list2[j])
    BY DEF InOrder
  <2>1. CASE j \in DOMAIN list
    <3>1. i \in DOMAIN list
      BY <2>1, <1>4
    <3> QED
      BY <2>1, <3>1, <1>4 DEF InOrder
  <2>2. CASE j = Len(list) + 1
    <3>1. i \in DOMAIN list
      BY <2>2, <1>4
    <3>2. Place(list2[i]) \in 1 .. next - 1
      BY <3>1, <1>4, <1>6
    <3> QED
      BY <2>2, <3>2, <1>1, <1>4
  <2> QED
    BY <2>1, <2>2, <1>4
<1> QED
  BY <1>1, <1>3, <1>5, <1>7 DEF c

\* A column that is rejected is one the declaration may not have.
LEMMA RejectedColumn ==
    ASSUME FillInv, phase = "fill", next <= Len(cols), Rejected(cols[next])
    PROVE  ~Accepted(decl) \/ NamesClash
<1> DEFINE c == cols[next]
<1>1. FillTypes /\ Sound /\ Filling
  BY DEF FillInv
<1>2. next \in 1 .. Len(cols) /\ c \in Range(cols) /\ decl \in TableOver(Range(cols))
  BY <1>1, ColumnTypes DEF FillTypes, Range
<1> HIDE DEF c
<1>s. SameFlags
  BY <1>1 DEF Sound
<1>3. CASE /\ IsCounter(c)
           /\ \/ ~HasKey(table)
              \/ table.disableActiveRecord
              \/ c \in table.disableUpdate \cup table.primaryKey
  BY <1>3, <1>s DEF SameFlags, IsCounter, HasKey, Accepted
<1>4. CASE table.updateOnConflict /\ c \in table.primaryKey /\ (IsInit(c) \/ FromStorage(c))
  <2>1. decl.updateOnConflict /\ c \in decl.primaryKey
    BY <1>1, <1>4, <1>s DEF Filling, SameFlags
  <2>2. c \in decl.initByStorage \cup decl.updateByStorage \cup decl.mutators
    BY <1>4, <1>s DEF SameFlags, IsInit, FromStorage, ByStorage
  <2> QED
    BY <2>1, <2>2 DEF Accepted
<1>5. CASE c \notin table.sqlValue /\ name[c] \in taken
  <2>1. PICK d \in Seen \ decl.sqlValue : name[c] = name[d]
    BY <1>1, <1>5 DEF Filling
  <2>2. PICK i \in 1 .. next - 1 : d = cols[i]
    BY <2>1 DEF Seen
  <2>3. i \in 1 .. Len(cols) /\ i # next
    BY <1>2, <1>1, ColumnTypes
  <2>4. d # c /\ d \in Range(cols)
    <3>1. Place(d) = i /\ Place(c) = next
      BY <1>1, <1>2, <2>2, <2>3, ColumnTypes DEF c
    <3> QED
      BY <2>2, <2>3, <3>1, <1>1, ColumnTypes DEF Range
  <2>5. c \notin decl.sqlValue
    BY <1>5, <1>s DEF SameFlags
  <2> QED
    BY <1>2, <2>1, <2>4, <2>5 DEF NamesClash
<1>6. CASE /\ c \in table.sqlValue /\ IsInit(c)
           /\ c \in table.disableUpdate \/ FromStorage(c)
  BY <1>6, <1>s DEF SameFlags, IsInit, FromStorage, Accepted
<1> QED
  BY <1>3, <1>4, <1>5, <1>6 DEF Rejected, c

\* A column that is not joins what the invariant says.
LEMMA TakenColumn ==
    ASSUME FillInv, phase = "fill", next <= Len(cols), ~Rejected(cols[next]),
           NEW S, S = Seen \cup {cols[next]}
    PROVE  /\ \A c \in S \cap decl.mutators :
                 /\ HasKey(decl) /\ ~decl.disableActiveRecord
                 /\ c \notin decl.disableUpdate \cup decl.primaryKey
           /\ \A c \in S : decl.updateOnConflict /\ c \in decl.primaryKey =>
                 c \notin decl.initByStorage \cup ByStorage(decl)
           /\ \A c \in S : c \in decl.sqlValue /\ c \in decl.initByStorage =>
                 c \notin decl.disableUpdate \cup ByStorage(decl)
           /\ \A c, d \in S \ decl.sqlValue : c # d => name[c] # name[d]
<1> DEFINE new == cols[next]
<1>1. FillTypes /\ SameFlags /\ NoneRejected /\ Filling
  BY DEF FillInv, Sound
<1> HIDE DEF new
<1>2. ~Rejected(new) /\ S = Seen \cup {new}
  BY DEF new
<1>3. new \in decl.mutators =>
          /\ HasKey(decl) /\ ~decl.disableActiveRecord
          /\ new \notin decl.disableUpdate \cup decl.primaryKey
  BY <1>1, <1>2 DEF SameFlags, Rejected, IsCounter, HasKey
<1>4. decl.updateOnConflict /\ new \in decl.primaryKey =>
          new \notin decl.initByStorage \cup ByStorage(decl)
  BY <1>1, <1>2 DEF SameFlags, Filling, Rejected, IsInit, FromStorage
<1>5. new \in decl.sqlValue /\ new \in decl.initByStorage =>
          new \notin decl.disableUpdate \cup ByStorage(decl)
  BY <1>1, <1>2 DEF SameFlags, Rejected, IsInit, FromStorage
<1>6. new \notin decl.sqlValue => \A d \in Seen \ decl.sqlValue : name[d] # name[new]
  BY <1>1, <1>2 DEF SameFlags, Rejected, Filling
<1> QED
  BY <1>1, <1>2, <1>3, <1>4, <1>5, <1>6 DEF NoneRejected

LEMMA FillColumnStep ==
    ASSUME FillInv, FillColumn
    PROVE  FillInv'
<1> DEFINE c == cols[next]
<1>1. /\ FillTypes /\ Sound /\ Filling /\ taken \subseteq Range(name)
      /\ phase = "fill" /\ next <= Len(cols) /\ updIdx = 0 /\ bit = <<>>
  BY DEF FillColumn, FillInv, Generated
<1>2. cols' = cols /\ decl' = decl /\ name' = name /\ updIdx' = updIdx /\ bit' = bit
  BY DEF FillColumn
<1>3. next \in 1 .. Len(cols) /\ c \in Range(cols) /\ decl \in TableOver(Range(cols))
  <2>1. next \in 1 .. Len(cols)
    BY <1>1, ColumnTypes DEF FillTypes
  <2> QED
    BY <2>1, <1>1, ColumnTypes DEF Range
<1>4. CASE /\ Rejected(c) /\ phase' = "error"
           /\ UNCHANGED <<table, groups, taken, next>>
  <2>1. ~Accepted(decl) \/ NamesClash
    BY <1>1, <1>4, RejectedColumn
  <2>2. FillTypes'
    BY <1>1, <1>2, <1>4 DEF FillTypes
  <2>3. (~Accepted(decl) \/ NamesClash)'
    BY <2>1, <1>2 DEF NamesClash
  <2> QED
    BY <1>1, <1>2, <1>4, <2>2, <2>3 DEF FillInv, Generated
<1>5. CASE /\ ~Rejected(c) /\ phase' = "fill" /\ next' = next + 1
           /\ table' = [table EXCEPT !.updateByStorage = @ \cup ({c} \cap table.mutators)]
           /\ groups' = [g \in Group |->
                            IF Joins(c)[g] THEN Append(groups[g], c) ELSE groups[g]]
           /\ taken' = taken \cup (IF c \in table.sqlValue THEN {} ELSE {name[c]})
  <2>1. table \in TableOver(Range(cols)) /\ table' \in TableOver(Range(cols))
    BY <1>1, <1>3, <1>5 DEF FillTypes, TableOver
  <2>2. SameFlags'
    BY <1>1, <1>2, <1>5, <2>1 DEF Sound, SameFlags, TableOver, ByStorage
  <2>3. /\ table'.updateOnConflict = table.updateOnConflict
        /\ table'.onConflictDoNothing = table.onConflictDoNothing
    BY <1>5, <2>1 DEF TableOver
  <2>4. Seen' = Seen \cup {c}
    BY <1>1, <1>2, <1>3, <1>5, ColumnTypes DEF Seen
  <2>5. \A g \in Group : /\ groups'[g] \in Seq(Range(cols))
                         /\ Len(groups'[g]) < next + 1
                         /\ Range(groups'[g]) = Declared[g] \cap Seen'
                         /\ InOrder(groups'[g])
    <3> SUFFICES ASSUME NEW g \in Group
                 PROVE  /\ groups'[g] \in Seq(Range(cols))
                        /\ Len(groups'[g]) < next + 1
                        /\ Range(groups'[g]) = Declared[g] \cap Seen'
                        /\ InOrder(groups'[g])
      OBVIOUS
    <3>1. Joins(c)[g] <=> c \in Declared[g]
      BY <1>1, <1>3, JoinsDeclared DEF Sound, Filling
    <3>2. /\ groups[g] \in Seq(Range(cols)) /\ Len(groups[g]) < next
          /\ Range(groups[g]) = Declared[g] \cap Seen /\ InOrder(groups[g])
      BY <1>1 DEF FillTypes, Sound, Filling
    <3>3. CASE Joins(c)[g]
      <4>1. groups'[g] = Append(groups[g], cols[next])
        BY <1>5, <3>3
      <4>2. Range(groups[g]) \subseteq {cols[i] : i \in 1 .. next - 1}
        BY <1>1, <3>2 DEF Seen
      <4> HIDE DEF c
      <4>3. /\ groups'[g] \in Seq(Range(cols)) /\ Len(groups'[g]) < next + 1
            /\ Range(groups'[g]) = Range(groups[g]) \cup {cols[next]}
            /\ InOrder(groups'[g])
        BY <1>1, <3>2, <4>1, <4>2, JoinList
      <4> QED
        BY <2>4, <3>1, <3>2, <3>3, <4>3 DEF c
    <3>4. CASE ~Joins(c)[g]
      <4>1. groups'[g] = groups[g]
        BY <1>5, <3>4
      <4>2. Len(groups[g]) \in Nat /\ next \in Nat
        BY <1>1, <3>2, ColumnTypes
      <4> QED
        BY <2>4, <3>1, <3>2, <3>4, <4>1, <4>2
    <3> QED
      BY <3>3, <3>4
  <2>6. FillTypes'
    <3>1. groups' \in [Group -> Seq(Range(cols))]
      BY <1>5, <2>5
    <3>2. next' \in 1 .. Len(cols) + 1
      BY <1>3, <1>5
    <3> QED
      BY <1>1, <1>2, <1>5, <2>1, <3>1, <3>2 DEF FillTypes
  <2>7. NoneRejected'
    <3>1. Seen' = Seen \cup {cols[next]} /\ ~Rejected(cols[next])
      BY <1>5, <2>4
    <3> HIDE DEF c
    <3> QED
      BY <1>1, <1>2, <3>1, TakenColumn DEF NoneRejected
  <2>8. Sound'
    <3>1. \A g \in Group : Declared[g]' = Declared[g]
      BY <1>2 DEF Declared, Group
    <3>2. \A g \in Group : InOrder(groups[g])'
      BY <1>2, <2>5 DEF InOrder, Place
    <3>3. \A g \in Group : Range(groups'[g]) = Declared'[g] \cap Seen'
      BY <2>5, <1>2 DEF Declared
    <3> QED
      BY <2>2, <2>7, <3>2, <3>3 DEF Sound
  <2>9. taken' = {name[d] : d \in Seen' \ decl.sqlValue}
    BY <1>1, <1>5, <2>4 DEF Sound, SameFlags, Filling
  <2>10. Filling'
    BY <1>1, <1>2, <1>5, <2>3, <2>5, <2>9 DEF Filling
  <2>11. taken' \subseteq Range(name)
    <3>1. name[c] \in Range(name)
      BY <1>1, <1>3, ColumnTypes DEF Range
    <3> QED
      BY <1>1, <1>5, <3>1
  <2> QED
    BY <1>1, <1>2, <1>5, <2>6, <2>8, <2>10, <2>11 DEF FillInv, Generated
<1> QED
  BY <1>4, <1>5, <1>1 DEF FillColumn

LEMMA EmptyList ==
    ASSUME NEW S, NEW s \in Seq(S)
    PROVE  s = <<>> <=> Range(s) = {}
<1>1. s # <<>> => s[1] \in Range(s)
  BY DEF Range
<1> QED
  BY <1>1 DEF Range

\* After the pass every column has been looked at, and each group is the one
\* declared.
LEMMA AllSeen ==
    ASSUME FillInv, phase = "fill", next > Len(cols)
    PROVE  /\ Seen = Range(cols)
           /\ \A g \in Group : /\ Range(groups[g]) = Declared[g]
                               /\ groups[g] = <<>> <=> Declared[g] = {}
                               /\ Len(groups[g]) \in Nat
                               /\ Len(groups[g]) = Cardinality(Declared[g])
                               /\ Len(groups[g]) <= Len(cols)
<1>1. FillTypes /\ Sound /\ Filling
  BY DEF FillInv
<1>2. next = Len(cols) + 1 /\ Len(cols) \in Nat
  BY <1>1, ColumnTypes DEF FillTypes
<1>3. Seen = Range(cols)
  BY <1>1, <1>2, ColumnTypes DEF Seen, Range
<1>4. ASSUME NEW g \in Group
      PROVE  /\ Range(groups[g]) = Declared[g]
             /\ groups[g] = <<>> <=> Declared[g] = {}
             /\ Len(groups[g]) \in Nat
             /\ Len(groups[g]) = Cardinality(Declared[g])
             /\ Len(groups[g]) <= Len(cols)
  <2>1. groups[g] \in Seq(Range(cols)) /\ Len(groups[g]) < next
    BY <1>1 DEF FillTypes, Filling
  <2>2. Range(groups[g]) = Declared[g]
    BY <1>1, <1>3, DeclaredColumns DEF Sound
  <2>3. IsInjective(groups[g])
    BY <1>1, <2>1, OrderedInjective DEF Sound
  <2>4. Cardinality(Range(groups[g])) = Len(groups[g])
    BY <2>1, <2>3, InjectiveLength
  <2> QED
    BY <1>2, <2>1, <2>2, <2>4, EmptyList
<1> QED
  BY <1>3, <1>4

LEMMA FinishStep ==
    ASSUME FillInv, Finish
    PROVE  FillInv'
<1>1. /\ FillTypes /\ Sound /\ Filling /\ taken \subseteq Range(name)
      /\ phase = "fill" /\ next > Len(cols) /\ updIdx = 0 /\ bit = <<>>
  BY DEF Finish, FillInv, Generated
<1>2. cols' = cols /\ decl' = decl /\ name' = name /\ groups' = groups /\ taken' = taken
      /\ bit' = bit
  BY DEF Finish
<1>3. decl \in TableOver(Range(cols)) /\ table \in TableOver(Range(cols))
  BY <1>1, ColumnTypes DEF FillTypes
<1>4. Seen = Range(cols)
  BY <1>1, AllSeen
<1>5. /\ Len(groups.setters) \in Nat
      /\ Len(groups.setters) = Cardinality(Setters(decl))
  BY <1>1, AllSeen DEF Group, Declared
<1>6. (groups.updateValue = <<>> <=> UpdateValue(decl) = {})
      /\ (groups.mutators = <<>> <=> decl.mutators = {})
  BY <1>1, AllSeen DEF Group, Declared, Mutators
<1>7. HasKey(table) <=> HasKey(decl)
  BY <1>1 DEF Sound, SameFlags, HasKey
<1>8. CASE /\ \/ TooMany(groups)
              \/ (table.updateOnConflict \/ table.onConflictDoNothing) /\ ~HasKey(table)
           /\ phase' = "error" /\ UNCHANGED <<table, next, updIdx>>
  <2>1. ~Accepted(decl)
    <3>1. CASE TooMany(groups)
      <4>1. ~(Cardinality(Setters(decl)) <= MaxSetters)
        BY <3>1, <1>5 DEF TooMany, MaxSetters
      <4> QED
        BY <4>1 DEF Accepted
    <3>2. CASE (table.updateOnConflict \/ table.onConflictDoNothing) /\ ~HasKey(table)
      BY <3>2, <1>1, <1>7 DEF Filling, Accepted
    <3> QED
      BY <1>8, <3>1, <3>2
  <2>2. FillTypes'
    BY <1>1, <1>2, <1>8 DEF FillTypes
  <2> QED
    BY <1>1, <1>2, <1>8, <2>1, <2>2 DEF FillInv, Generated
<1>9. CASE /\ ~TooMany(groups)
           /\ table.updateOnConflict \/ table.onConflictDoNothing => HasKey(table)
           /\ table' = IF /\ table.updateOnConflict
                          /\ groups.updateValue = <<>>
                          /\ groups.mutators = <<>>
                       THEN [table EXCEPT !.updateOnConflict = FALSE,
                                          !.onConflictDoNothing = TRUE]
                       ELSE table
           /\ next' = 1
           /\ phase' = "setters"
  <2>1. table' \in TableOver(Range(cols))
    BY <1>3, <1>9 DEF TableOver
  <2>2. Accepted(decl)
    <3>1. decl.updateOnConflict \/ decl.onConflictDoNothing => HasKey(decl)
      BY <1>1, <1>7, <1>9 DEF Filling
    <3>2. Cardinality(Setters(decl)) <= MaxSetters
      BY <1>5, <1>9 DEF TooMany, MaxSetters
    <3>3. /\ \A c \in decl.mutators :
                /\ HasKey(decl) /\ ~decl.disableActiveRecord
                /\ c \notin decl.disableUpdate \cup decl.primaryKey
          /\ \A c \in decl.primaryKey : decl.updateOnConflict =>
                c \notin decl.initByStorage \cup ByStorage(decl)
          /\ \A c \in decl.sqlValue : c \in decl.initByStorage =>
                c \notin decl.disableUpdate \cup ByStorage(decl)
      BY <1>1, <1>3, <1>4 DEF Sound, NoneRejected, TableOver
    <3> QED
      BY <1>1, <3>1, <3>2, <3>3 DEF Filling, Accepted, ByStorage
  <2>3. table'.updateOnConflict = Upsert(decl) /\ table'.onConflictDoNothing = DoNothing(decl)
    <3>1. table.updateOnConflict = decl.updateOnConflict
          /\ table.onConflictDoNothing = decl.onConflictDoNothing
          /\ decl.updateOnConflict \in BOOLEAN /\ decl.onConflictDoNothing \in BOOLEAN
      BY <1>1, <1>3 DEF Filling, TableOver
    <3>2. CASE table.updateOnConflict /\ UpdateValue(decl) = {} /\ decl.mutators = {}
      <4>1. table'.updateOnConflict = FALSE /\ table'.onConflictDoNothing = TRUE
        BY <1>3, <1>6, <1>9, <3>2 DEF TableOver
      <4> QED
        BY <3>1, <3>2, <4>1 DEF Upsert, DoNothing
    <3>3. CASE ~(table.updateOnConflict /\ UpdateValue(decl) = {} /\ decl.mutators = {})
      <4>1. table' = table
        BY <1>6, <1>9, <3>3
      <4> QED
        BY <3>1, <3>3, <4>1 DEF Upsert, DoNothing
    <3> QED
      BY <3>2, <3>3
  <2>4. SameFlags'
    BY <1>1, <1>2, <1>3, <1>9 DEF Sound, SameFlags, ByStorage, TableOver
  <2>5. Seen' = Seen
    BY <1>2, <1>4, <1>9 DEF Seen
  <2>6. NoneRejected'
    BY <1>1, <1>2, <2>5 DEF Sound, NoneRejected, ByStorage, HasKey
  <2>7. Sound'
    <3>1. \A g \in Group : InOrder(groups[g])'
      BY <1>1, <1>2 DEF Sound, InOrder, Place
    <3>2. \A g \in Group : Range(groups'[g]) = Declared'[g] \cap Seen'
      BY <1>1, <1>2, <2>5 DEF Sound, Declared
    <3> QED
      BY <2>4, <2>6, <3>1, <3>2 DEF Sound
  <2>8. Filled'
    <3>1. \A g \in Group : Len(groups'[g]) <= Len(cols')
      BY <1>1, <1>2, AllSeen
    <3>2. Len(groups'.setters) <= MaxSetters /\ next' <= Len(groups'.setters) + 1
      BY <1>2, <1>5, <1>9 DEF TooMany, MaxSetters
    <3> QED
      BY <1>2, <2>2, <2>3, <3>1, <3>2 DEF Filled
  <2>9. FillTypes'
    BY <1>1, <1>2, <1>9, <2>1, ColumnTypes DEF FillTypes
  <2> QED
    BY <1>1, <1>2, <1>9, <2>7, <2>8, <2>9 DEF FillInv, Generated
<1> QED
  BY <1>8, <1>9 DEF Finish

\* The second walk touches nothing of it.
LEMMA WalkFill ==
    ASSUME FillInv, YieldSetter \/ Done
    PROVE  FillInv'
<1>1. /\ FillTypes /\ Sound /\ Filled /\ taken \subseteq Range(name)
      /\ phase = "setters" /\ phase' \in {"setters", "done"}
  BY DEF YieldSetter, Done, FillInv, Generated
<1>2. /\ cols' = cols /\ decl' = decl /\ name' = name /\ table' = table
      /\ groups' = groups /\ taken' = taken
  BY DEF YieldSetter, Done
<1>3. next' \in 1 .. Len(cols) + 1 /\ next' <= Len(groups.setters) + 1
  <2>1. /\ Len(groups.setters) \in Nat /\ Len(cols) \in Nat /\ next \in Nat /\ next >= 1
        /\ Len(groups.setters) <= Len(cols) /\ next <= Len(groups.setters) + 1
    BY <1>1, ColumnTypes DEF FillTypes, Filled, Group
  <2>2. next' = next \/ (next' = next + 1 /\ next <= Len(groups.setters))
    BY DEF YieldSetter, Done
  <2> QED
    BY <2>1, <2>2
<1>4. FillTypes'
  BY <1>1, <1>2, <1>3 DEF FillTypes
<1>5. Seen' = Seen
  BY <1>1, <1>2 DEF Seen
<1>6. Sound'
  <2>1. \A g \in Group : InOrder(groups[g])'
    BY <1>1, <1>2 DEF Sound, InOrder, Place
  <2>2. \A g \in Group : Range(groups'[g]) = Declared'[g] \cap Seen'
    BY <1>1, <1>2, <1>5 DEF Sound, Declared
  <2>3. SameFlags' /\ NoneRejected'
    BY <1>1, <1>2, <1>5 DEF Sound, SameFlags, NoneRejected, ByStorage, HasKey
  <2> QED
    BY <2>1, <2>2, <2>3 DEF Sound
<1>7. Filled'
  BY <1>1, <1>2, <1>3 DEF Filled
<1> QED
  BY <1>1, <1>2, <1>4, <1>6, <1>7 DEF FillInv, Generated

LEMMA FillNext ==
    ASSUME FillInv, [Next]_vars
    PROVE  FillInv'
<1>1. CASE UNCHANGED vars
  <2>1. FillTypes' /\ Seen' = Seen
    BY <1>1 DEF vars, FillInv, FillTypes, Seen
  <2>2. phase # "error" => Sound'
    <3> SUFFICES ASSUME phase # "error" PROVE Sound'
      OBVIOUS
    <3>1. \A g \in Group : InOrder(groups[g])'
      BY <1>1 DEF vars, FillInv, Sound, InOrder, Place
    <3>2. \A g \in Group : Range(groups'[g]) = Declared'[g] \cap Seen'
      BY <1>1, <2>1 DEF vars, FillInv, Sound, Declared
    <3>3. SameFlags' /\ NoneRejected'
      BY <1>1, <2>1 DEF vars, FillInv, Sound, SameFlags, NoneRejected, ByStorage, HasKey
    <3> QED
      BY <3>1, <3>2, <3>3 DEF Sound
  <2>3. (phase = "fill" => Filling') /\ (Generated => Filled')
    BY <1>1, <2>1 DEF vars, FillInv, Filling, Filled, Generated
  <2> QED
    BY <1>1, <2>1, <2>2, <2>3 DEF vars, FillInv, Generated, NamesClash
<1> QED
  BY <1>1, FillColumnStep, FinishStep, WalkFill DEF Next

\* At every iteration of fillColumns the groups hold the columns read so far that
\* belong to them, in their order, and none that does not; an error is returned
\* only for a declaration that is not accepted or whose column names clash.
THEOREM FillCorrect == Spec => []FillInv
<1>1. Init => FillInv
  BY FillInit
<1>2. FillInv /\ [Next]_vars => FillInv'
  BY FillNext
<1> QED
  BY <1>1, <1>2, PTL DEF Spec

\* Whatever the table, the columns' order and their flags: code is generated for
\* the declarations Columns accepts only, and fillColumns puts in each group the
\* columns Columns gives it, once each.
THEOREM GroupsCorrect == Spec => []GroupsAsDeclared
<1>1. ASSUME FillInv PROVE GroupsAsDeclared
  <2>1. SUFFICES ASSUME Generated PROVE
          /\ Accepted(decl) /\ ~NamesClash
          /\ table.updateOnConflict = Upsert(decl)
          /\ table.onConflictDoNothing = DoNothing(decl)
          /\ \A g \in Group : IsInjective(groups[g]) /\ Range(groups[g]) = Declared[g]
    BY <1>1 DEF GroupsAsDeclared, FillInv, Declared, Group
  <2>2. FillTypes /\ Sound /\ Filled /\ Seen = Range(cols)
    BY <1>1, <2>1 DEF FillInv, Generated, Seen
  <2>3. ~NamesClash
    BY <2>2 DEF Sound, NoneRejected, NamesClash
  <2>4. ASSUME NEW g \in Group
        PROVE  IsInjective(groups[g]) /\ Range(groups[g]) = Declared[g]
    <3>1. groups[g] \in Seq(Range(cols)) /\ InOrder(groups[g])
          /\ Range(groups[g]) = Declared[g] \cap Seen
      BY <2>2 DEF FillTypes, Sound
    <3> QED
      BY <2>2, <3>1, OrderedInjective, DeclaredColumns
  <2> QED
    BY <2>2, <2>3, <2>4 DEF Filled
<1> QED
  BY <1>1, FillCorrect, PTL

----------------------------------------------------------------------------
(* The invariant of the walk over the setters.                             *)

\* How many updatable columns the walk has left behind.
Passed == IF updIdx = -1 THEN Len(groups.updateValue) ELSE updIdx

\* The setters so far and the updatable columns left behind are matched, and
\* the setters of the others are still to come.
Matched ==
    /\ \A i \in 1 .. Passed :
          \E k \in DOMAIN bit : groups.setters[k] = groups.updateValue[i] /\ bit[k] = i - 1
    /\ \A k \in DOMAIN bit : bit[k] # -1 =>
          /\ bit[k] + 1 \in 1 .. Passed
          /\ groups.setters[k] = groups.updateValue[bit[k] + 1]
    /\ ~decl.disableActiveRecord =>
          \A i \in Passed + 1 .. Len(groups.updateValue) :
             \E k \in next .. Len(groups.setters) : groups.setters[k] = groups.updateValue[i]

WalkInv ==
    Generated =>
        /\ bit \in Seq(Int) /\ Len(bit) = next - 1
        /\ \A n \in DOMAIN bit : -1 <= bit[n] /\ bit[n] < n
        /\ updIdx \in -1 .. Len(groups.updateValue) - 1
        /\ updIdx < next
        /\ Matched
        /\ phase = "done" => next > Len(groups.setters)

\* What the pass gives the walk: two lists in the order of the columns, the
\* updatable columns being among the setters.
LEMMA WalkedLists ==
    ASSUME FillInv, Generated
    PROVE  /\ groups.updateValue \in Seq(Range(cols)) /\ groups.setters \in Seq(Range(cols))
           /\ Len(groups.updateValue) \in Nat /\ Len(groups.setters) \in Nat
           /\ Len(groups.setters) <= Len(cols) /\ Len(groups.setters) <= MaxSetters
           /\ next \in Nat /\ next >= 1 /\ next <= Len(groups.setters) + 1
           /\ IsInjective(groups.updateValue) /\ IsInjective(groups.setters)
           /\ InOrder(groups.updateValue) /\ InOrder(groups.setters)
           /\ Range(groups.updateValue) = UpdateValue(decl)
           /\ Range(groups.setters) = Setters(decl)
           /\ table.disableActiveRecord = decl.disableActiveRecord
           /\ \A c \in Range(cols) : Place(c) \in Nat
<1>1. FillTypes /\ Sound /\ Filled /\ Seen = Range(cols)
  BY DEF FillInv, Generated, Seen
<1>2. ASSUME NEW g \in Group
      PROVE  /\ groups[g] \in Seq(Range(cols)) /\ InOrder(groups[g])
             /\ IsInjective(groups[g]) /\ Range(groups[g]) = Declared[g]
  <2>1. groups[g] \in Seq(Range(cols)) /\ InOrder(groups[g])
        /\ Range(groups[g]) = Declared[g] \cap Seen
    BY <1>1 DEF FillTypes, Sound
  <2> QED
    BY <1>1, <2>1, OrderedInjective, DeclaredColumns
<1>3. ASSUME NEW c \in Range(cols) PROVE Place(c) \in Nat
  <2>1. PICK p \in 1 .. Len(cols) : c = cols[p]
    BY <1>1, ColumnTypes DEF Range
  <2> QED
    BY <2>1, <1>1, ColumnTypes
<1>4. "updateValue" \in Group /\ "setters" \in Group
  BY DEF Group
<1>5. /\ Declared["updateValue"] = UpdateValue(decl) /\ Declared["setters"] = Setters(decl)
  BY DEF Declared
<1>6. /\ groups.updateValue \in Seq(Range(cols)) /\ InOrder(groups.updateValue)
      /\ IsInjective(groups.updateValue) /\ Range(groups.updateValue) = UpdateValue(decl)
      /\ groups.setters \in Seq(Range(cols)) /\ InOrder(groups.setters)
      /\ IsInjective(groups.setters) /\ Range(groups.setters) = Setters(decl)
  BY <1>2, <1>4, <1>5
<1>7. /\ next \in Nat /\ next >= 1 /\ next <= Len(groups.setters) + 1
      /\ Len(groups.setters) <= Len(cols) /\ Len(groups.setters) <= MaxSetters
      /\ table.disableActiveRecord = decl.disableActiveRecord
  BY <1>1, <1>4, ColumnTypes DEF FillTypes, Sound, SameFlags, Filled
<1> QED
  BY <1>3, <1>6, <1>7

LEMMA WalkStarts ==
    ASSUME FillInv, Finish
    PROVE  WalkInv'
<1> SUFFICES ASSUME Generated' PROVE WalkInv'
  BY DEF WalkInv
<1>1. /\ phase = "fill" /\ phase' = "setters" /\ next' = 1 /\ groups' = groups
      /\ updIdx' = IF groups.updateValue = <<>> THEN -1 ELSE 0
      /\ bit' = bit /\ decl' = decl /\ next > Len(cols)
  BY DEF Finish, Generated
<1>2. bit = <<>> /\ FillTypes
  BY <1>1 DEF FillInv, Generated
<1>3. /\ Range(groups.updateValue) = UpdateValue(decl)
      /\ Range(groups.setters) = Setters(decl)
      /\ groups.updateValue \in Seq(Range(cols)) /\ groups.setters \in Seq(Range(cols))
  BY <1>1, <1>2, AllSeen DEF Declared, Group, FillTypes
<1>4. decl \in TableOver(Range(cols))
  BY <1>2, ColumnTypes
<1>5. ~decl.disableActiveRecord => UpdateValue(decl) \subseteq Setters(decl)
  BY <1>4 DEF TableOver, UpdateValue, Setters, ByStorage
<1>6. Passed' = 0
  <2>1. groups.updateValue = <<>> => Len(groups.updateValue) = 0
    OBVIOUS
  <2> QED
    BY <1>1, <2>1 DEF Passed
<1>7. ~decl.disableActiveRecord =>
         \A i \in 1 .. Len(groups.updateValue) :
            \E k \in 1 .. Len(groups.setters) : groups.setters[k] = groups.updateValue[i]
  <2> SUFFICES ASSUME ~decl.disableActiveRecord, NEW i \in 1 .. Len(groups.updateValue)
               PROVE  \E k \in 1 .. Len(groups.setters) : groups.setters[k] = groups.updateValue[i]
    OBVIOUS
  <2>1. groups.updateValue[i] \in Range(groups.updateValue)
    BY <1>3 DEF Range
  <2>2. groups.updateValue[i] \in Range(groups.setters)
    BY <1>3, <1>5, <2>1
  <2> QED
    BY <1>3, <2>2 DEF Range
<1>8. Matched'
  BY <1>1, <1>2, <1>6, <1>7 DEF Matched
<1>9. groups.updateValue # <<>> => Len(groups.updateValue) \in Nat \ {0}
  BY <1>3
<1>10. updIdx' \in -1 .. Len(groups.updateValue) - 1 /\ updIdx' < 1
  <2>1. CASE groups.updateValue = <<>>
    BY <1>1, <2>1
  <2>2. CASE groups.updateValue # <<>>
    BY <1>1, <1>9, <2>2
  <2> QED
    BY <2>1, <2>2
<1> QED
  BY <1>1, <1>2, <1>8, <1>10 DEF WalkInv

LEMMA WalkYields ==
    ASSUME FillInv, WalkInv, YieldSetter
    PROVE  WalkInv'
<1> DEFINE U == groups.updateValue
           S == groups.setters
           m == Passed
           matched == updIdx >= 0 /\ U[updIdx + 1] = S[next]
<1>1. /\ Generated /\ phase = "setters" /\ phase' = "setters" /\ next <= Len(S)
      /\ groups' = groups /\ decl' = decl /\ next' = next + 1
      /\ bit' = Append(bit, IF matched THEN updIdx ELSE -1)
      /\ updIdx' = Advance(matched)
  BY DEF YieldSetter, Generated
<1>2. /\ U \in Seq(Range(cols)) /\ S \in Seq(Range(cols))
      /\ Len(U) \in Nat /\ Len(S) \in Nat /\ next \in Nat /\ next >= 1
      /\ DOMAIN U = 1 .. Len(U) /\ DOMAIN S = 1 .. Len(S)
      /\ IsInjective(U) /\ IsInjective(S) /\ InOrder(U) /\ InOrder(S)
      /\ \A c \in Range(cols) : Place(c) \in Nat
  BY <1>1, WalkedLists, SMTT(20)
<1>3. /\ bit \in Seq(Int) /\ Len(bit) = next - 1 /\ DOMAIN bit = 1 .. next - 1
      /\ \A n \in DOMAIN bit : -1 <= bit[n] /\ bit[n] < n
      /\ updIdx \in -1 .. Len(U) - 1 /\ updIdx < next /\ updIdx \in Int
  BY <1>1, <1>2 DEF WalkInv
<1>4. /\ \A i \in 1 .. m : \E k \in 1 .. next - 1 : S[k] = U[i] /\ bit[k] = i - 1
      /\ \A k \in 1 .. next - 1 : bit[k] # -1 =>
            bit[k] + 1 \in 1 .. m /\ S[k] = U[bit[k] + 1]
      /\ ~decl.disableActiveRecord =>
            \A i \in m + 1 .. Len(U) : \E k \in next .. Len(S) : S[k] = U[i]
  BY <1>1, <1>3 DEF WalkInv, Matched
<1>5. m \in 0 .. Len(U) /\ m = IF updIdx = -1 THEN Len(U) ELSE updIdx
  BY <1>2, <1>3 DEF Passed
<1>6. next \in DOMAIN S
  BY <1>1, <1>2
<1> HIDE DEF m
<1>7. CASE matched
  <2>1. /\ updIdx >= 0 /\ m = updIdx /\ U[m + 1] = S[next] /\ m + 1 \in 1 .. Len(U)
    BY <1>3, <1>5, <1>7
  <2>2. bit' = Append(bit, updIdx)
    BY <1>1, <1>7
  <2>3. /\ bit' \in Seq(Int) /\ Len(bit') = next /\ DOMAIN bit' = 1 .. next
        /\ \A n \in 1 .. next - 1 : bit'[n] = bit[n]
        /\ bit'[next] = updIdx
    BY <1>2, <1>3, <2>2
  <2>4. updIdx' = IF m + 1 >= Len(U) THEN -1 ELSE m + 1
    BY <1>1, <1>7, <2>1 DEF Advance
  <2>5. Passed' = m + 1
    BY <1>1, <1>2, <2>1, <2>4, <1>3 DEF Passed
  <2>6. updIdx' \in -1 .. Len(U) - 1 /\ updIdx' < next + 1
    BY <1>2, <1>3, <2>1, <2>4
  <2>7. \A n \in 1 .. next : -1 <= bit'[n] /\ bit'[n] < n
    <3> SUFFICES ASSUME NEW n \in 1 .. next PROVE -1 <= bit'[n] /\ bit'[n] < n
      OBVIOUS
    <3>1. CASE n = next
      BY <1>3, <2>1, <2>3, <3>1
    <3>2. CASE n \in 1 .. next - 1
      BY <1>3, <2>3, <3>2
    <3> QED
      BY <1>2, <3>1, <3>2
  <2>8. \A i \in 1 .. m + 1 : \E k \in 1 .. next : S[k] = U[i] /\ bit'[k] = i - 1
    <3> SUFFICES ASSUME NEW i \in 1 .. m + 1
                 PROVE  \E k \in 1 .. next : S[k] = U[i] /\ bit'[k] = i - 1
      OBVIOUS
    <3>1. CASE i = m + 1
      <4>1. S[next] = U[i] /\ bit'[next] = i - 1
        BY <2>1, <2>3, <3>1, <1>3
      <4> QED
        BY <4>1, <1>2
    <3>2. CASE i \in 1 .. m
      <4>1. PICK k \in 1 .. next - 1 : S[k] = U[i] /\ bit[k] = i - 1
        BY <1>4, <3>2
      <4>2. k \in 1 .. next /\ bit'[k] = i - 1
        BY <1>2, <2>3, <4>1
      <4> QED
        BY <4>1, <4>2
    <3> QED
      BY <1>5, <3>1, <3>2
  <2>9. \A k \in 1 .. next : bit'[k] # -1 =>
            bit'[k] + 1 \in 1 .. m + 1 /\ S[k] = U[bit'[k] + 1]
    <3> SUFFICES ASSUME NEW k \in 1 .. next, bit'[k] # -1
                 PROVE  bit'[k] + 1 \in 1 .. m + 1 /\ S[k] = U[bit'[k] + 1]
      OBVIOUS
    <3>1. CASE k = next
      BY <2>1, <2>3, <3>1
    <3>2. CASE k \in 1 .. next - 1
      <4>1. bit[k] + 1 \in 1 .. m /\ S[k] = U[bit[k] + 1] /\ bit'[k] = bit[k]
        BY <1>4, <2>3, <3>2
      <4>2. bit[k] \in Int
        BY <1>3, <3>2
      <4> QED
        BY <4>1, <4>2, <1>5
    <3> QED
      BY <1>2, <3>1, <3>2
  <2>10. ~decl.disableActiveRecord =>
            \A i \in m + 2 .. Len(U) : \E k \in next + 1 .. Len(S) : S[k] = U[i]
    <3> SUFFICES ASSUME ~decl.disableActiveRecord, NEW i \in m + 2 .. Len(U)
                 PROVE  \E k \in next + 1 .. Len(S) : S[k] = U[i]
      OBVIOUS
    <3>1. i \in m + 1 .. Len(U) /\ i \in 1 .. Len(U) /\ i # m + 1
      BY <1>2, <1>5
    <3>2. PICK k \in next .. Len(S) : S[k] = U[i]
      BY <1>4, <3>1
    <3>3. U[i] # U[m + 1]
      BY <1>2, <2>1, <3>1 DEF IsInjective
    <3>4. k # next
      BY <2>1, <3>2, <3>3
    <3> QED
      BY <1>2, <3>2, <3>4
  <2>11. (m + 1) + 1 = m + 2
    BY <1>5
  <2>12. Matched'
    <3>1. \A i \in 1 .. m + 1 :
             \E k \in DOMAIN bit' : groups'.setters[k] = groups'.updateValue[i] /\ bit'[k] = i - 1
      BY <1>1, <2>3, <2>8
    <3>2. \A k \in DOMAIN bit' : bit'[k] # -1 =>
             /\ bit'[k] + 1 \in 1 .. m + 1
             /\ groups'.setters[k] = groups'.updateValue[bit'[k] + 1]
      BY <1>1, <2>3, <2>9
    <3>3. ~decl'.disableActiveRecord =>
             \A i \in (m + 1) + 1 .. Len(groups'.updateValue) :
                \E k \in next' .. Len(groups'.setters) :
                   groups'.setters[k] = groups'.updateValue[i]
      BY <1>1, <2>10, <2>11
    <3> QED
      BY <2>5, <3>1, <3>2, <3>3 DEF Matched
  <2>13. next' - 1 = next
    BY <1>1, <1>2
  <2> QED
    BY <1>1, <2>3, <2>6, <2>7, <2>12, <2>13 DEF WalkInv
<1>8. CASE ~matched
  <2>1. bit' = Append(bit, -1) /\ updIdx' = updIdx
    BY <1>1, <1>8 DEF Advance
  <2>2. /\ bit' \in Seq(Int) /\ Len(bit') = next /\ DOMAIN bit' = 1 .. next
        /\ \A n \in 1 .. next - 1 : bit'[n] = bit[n]
        /\ bit'[next] = -1
    BY <1>2, <1>3, <2>1
  <2>3. Passed' = m
    BY <1>1, <2>1, <1>5 DEF Passed
  <2>4. \A n \in 1 .. next : -1 <= bit'[n] /\ bit'[n] < n
    <3> SUFFICES ASSUME NEW n \in 1 .. next PROVE -1 <= bit'[n] /\ bit'[n] < n
      OBVIOUS
    <3>1. CASE n = next
      BY <1>2, <2>2, <3>1
    <3>2. CASE n \in 1 .. next - 1
      BY <1>3, <2>2, <3>2
    <3> QED
      BY <1>2, <3>1, <3>2
  <2>5. \A i \in 1 .. m : \E k \in 1 .. next : S[k] = U[i] /\ bit'[k] = i - 1
    <3> SUFFICES ASSUME NEW i \in 1 .. m
                 PROVE  \E k \in 1 .. next : S[k] = U[i] /\ bit'[k] = i - 1
      OBVIOUS
    <3>1. PICK k \in 1 .. next - 1 : S[k] = U[i] /\ bit[k] = i - 1
      BY <1>4
    <3>2. k \in 1 .. next /\ bit'[k] = i - 1
      BY <1>2, <2>2, <3>1
    <3> QED
      BY <3>1, <3>2
  <2>6. \A k \in 1 .. next : bit'[k] # -1 =>
            bit'[k] + 1 \in 1 .. m /\ S[k] = U[bit'[k] + 1]
    <3> SUFFICES ASSUME NEW k \in 1 .. next, bit'[k] # -1
                 PROVE  bit'[k] + 1 \in 1 .. m /\ S[k] = U[bit'[k] + 1]
      OBVIOUS
    <3>1. k \in 1 .. next - 1
      BY <1>2, <2>2
    <3> QED
      BY <1>4, <2>2, <3>1
  <2>7. ~decl.disableActiveRecord =>
            \A i \in m + 1 .. Len(U) : \E k \in next + 1 .. Len(S) : S[k] = U[i]
    <3> SUFFICES ASSUME ~decl.disableActiveRecord, NEW i \in m + 1 .. Len(U)
                 PROVE  \E k \in next + 1 .. Len(S) : S[k] = U[i]
      OBVIOUS
    <3>1. updIdx >= 0 /\ m = updIdx /\ m + 1 \in 1 .. Len(U) /\ i \in 1 .. Len(U)
      BY <1>2, <1>3, <1>5
    <3>2. U[m + 1] # S[next]
      BY <1>8, <3>1
    <3>3. PICK k \in next .. Len(S) : S[k] = U[i]
      BY <1>4
    <3>4. PICK j \in next .. Len(S) : S[j] = U[m + 1]
      <4>1. m + 1 \in m + 1 .. Len(U)
        BY <3>1, <1>5
      <4> QED
        BY <1>4, <4>1
    <3>5. j \in next + 1 .. Len(S) /\ j \in DOMAIN S
      BY <1>2, <3>2, <3>4, SMTT(20)
    <3>6. CASE k = next
      <4>0. next < j
        BY <1>2, <3>5
      <4>1. Place(S[next]) < Place(S[j])
        BY <1>2, <1>6, <3>5, <4>0 DEF InOrder
      <4>2. i > m + 1
        BY <3>1, <3>2, <3>3, <3>6, <1>5
      <4>3. Place(U[m + 1]) < Place(U[i])
        BY <1>2, <3>1, <4>2 DEF InOrder
      <4>4. Place(U[m + 1]) \in Nat /\ Place(U[i]) \in Nat
        <5>1. U[m + 1] \in Range(cols) /\ U[i] \in Range(cols)
          BY <1>2, <3>1, SMTT(20)
        <5> QED
          BY <1>2, <5>1
      <4> QED
        BY <3>3, <3>4, <3>6, <4>1, <4>3, <4>4
    <3>7. CASE k # next
      <4>1. k \in next + 1 .. Len(S)
        BY <1>2, <3>7
      <4> QED
        BY <3>3, <4>1
    <3> QED
      BY <3>6, <3>7
  <2>8. Matched'
    <3>1. \A i \in 1 .. m :
             \E k \in DOMAIN bit' : groups'.setters[k] = groups'.updateValue[i] /\ bit'[k] = i - 1
      BY <1>1, <2>2, <2>5
    <3>2. \A k \in DOMAIN bit' : bit'[k] # -1 =>
             /\ bit'[k] + 1 \in 1 .. m
             /\ groups'.setters[k] = groups'.updateValue[bit'[k] + 1]
      BY <1>1, <2>2, <2>6
    <3>3. ~decl'.disableActiveRecord =>
             \A i \in m + 1 .. Len(groups'.updateValue) :
                \E k \in next' .. Len(groups'.setters) :
                   groups'.setters[k] = groups'.updateValue[i]
      BY <1>1, <2>7
    <3> QED
      BY <2>3, <3>1, <3>2, <3>3 DEF Matched
  <2>9. next' - 1 = next /\ updIdx' < next'
    BY <1>1, <1>2, <1>3, <2>1
  <2> QED
    BY <1>1, <1>3, <2>1, <2>2, <2>4, <2>8, <2>9 DEF WalkInv
<1> QED
  BY <1>7, <1>8

LEMMA WalkEnds ==
    ASSUME FillInv, WalkInv, Done
    PROVE  WalkInv'
<1>1. /\ Generated /\ phase = "setters" /\ phase' = "done"
      /\ next > Len(groups.setters)
      /\ UNCHANGED <<decl, groups, next, updIdx, bit>>
  BY DEF Done, Generated
<1>2. Passed' = Passed
  BY <1>1 DEF Passed
<1>3. Matched'
  BY <1>1, <1>2 DEF WalkInv, Matched
<1> QED
  BY <1>1, <1>3 DEF WalkInv

LEMMA WalkNext ==
    ASSUME FillInv, WalkInv, [Next]_vars
    PROVE  WalkInv'
<1>1. CASE FillColumn
  <2>1. ~Generated'
    BY <1>1 DEF FillColumn, Generated
  <2> QED
    BY <2>1 DEF WalkInv
<1>2. CASE UNCHANGED vars
  <2>1. Passed' = Passed
    BY <1>2 DEF vars, Passed
  <2>2. Matched => Matched'
    BY <1>2, <2>1 DEF vars, Matched
  <2> QED
    BY <1>2, <2>2 DEF vars, WalkInv, Generated
<1> QED
  BY <1>1, <1>2, WalkStarts, WalkYields, WalkEnds DEF Next

\* While IterateSetterColumns walks over the setters, those it has passed have
\* been given the bits of their columns, and the index stands behind the last
\* updatable column it has met.
THEOREM WalkCorrect == Spec => [](FillInv /\ WalkInv)
<1>1. Init => FillInv /\ WalkInv
  <2>1. Init => ~Generated
    BY DEF Init, Generated
  <2> QED
    BY <2>1, FillInit DEF WalkInv
<1>2. FillInv /\ WalkInv /\ [Next]_vars => (FillInv /\ WalkInv)'
  BY FillNext, WalkNext
<1> QED
  BY <1>1, <1>2, PTL DEF Spec

\* Every variable keeps its type, and the index into the updatable columns never
\* passes their end.
THEOREM TypeCorrect == Spec => []TypeOK
<1>1. ASSUME FillInv, WalkInv PROVE TypeOK
  <2>1. FillTypes /\ taken \subseteq Range(name)
    BY <1>1 DEF FillInv
  <2>2. CASE Generated
    <3>1. /\ bit \in Seq(Int) /\ Len(bit) = next - 1
          /\ \A n \in DOMAIN bit : -1 <= bit[n] /\ bit[n] < n
          /\ updIdx \in -1 .. Len(groups.updateValue) - 1
      BY <1>1, <2>2 DEF WalkInv
    <3>2. /\ Len(groups.updateValue) \in Nat /\ Len(cols) \in Nat /\ next \in Nat
          /\ next <= Len(cols) + 1
      BY <1>1, <2>1, <2>2, WalkedLists, ColumnTypes DEF FillTypes
    <3>3. \A n \in 1 .. Len(bit) : bit[n] \in -1 .. Len(cols)
      BY <3>1, <3>2
    <3>4. bit \in Seq(-1 .. Len(cols))
      BY <3>1, <3>3
    <3> QED
      BY <2>1, <3>1, <3>2, <3>4 DEF TypeOK, FillTypes
  <2>3. CASE ~Generated
    <3>1. updIdx = 0 /\ bit = <<>> /\ phase # "setters"
      BY <1>1, <2>3 DEF FillInv, Generated
    <3> QED
      BY <2>1, <3>1 DEF TypeOK, FillTypes
  <2> QED
    BY <2>2, <2>3
<1> QED
  BY <1>1, WalkCorrect, PTL

\* However many columns there are and whichever of them have no bit,
\* IterateSetterColumns hands every setter the bit the smart UPDATE tests for its
\* column, and to no other setter.
THEOREM SettersCorrect == Spec => []SettersFindTheirBit
<1>1. ASSUME FillInv, WalkInv PROVE SettersFindTheirBit
  <2> SUFFICES ASSUME phase = "done", ~table.disableActiveRecord,
                      NEW i \in DOMAIN groups.updateValue
               PROVE  \E n \in DOMAIN groups.setters :
                         /\ groups.setters[n] = groups.updateValue[i]
                         /\ \A k \in DOMAIN bit : bit[k] = i - 1 <=> k = n
    BY DEF SettersFindTheirBit
  <2>1. Generated
    BY DEF Generated
  <2>2. /\ DOMAIN groups.updateValue = 1 .. Len(groups.updateValue)
        /\ DOMAIN groups.setters = 1 .. Len(groups.setters)
        /\ Len(groups.updateValue) \in Nat /\ Len(groups.setters) \in Nat
        /\ next \in Nat /\ next <= Len(groups.setters) + 1
        /\ IsInjective(groups.setters) /\ ~decl.disableActiveRecord
    BY <1>1, <2>1, WalkedLists
  <2>3. /\ bit \in Seq(Int) /\ Len(bit) = next - 1 /\ next > Len(groups.setters) /\ Matched
        /\ updIdx \in -1 .. Len(groups.updateValue) - 1
    BY <1>1, <2>1 DEF WalkInv
  <2>4. DOMAIN bit = DOMAIN groups.setters
    BY <2>2, <2>3
  <2>5. Passed \in Nat
    BY <2>2, <2>3 DEF Passed
  <2>6. i \in 1 .. Passed
    <3>1. i \notin Passed + 1 .. Len(groups.updateValue)
      <4>1. next .. Len(groups.setters) = {}
        BY <2>2, <2>3
      <4> QED
        BY <2>2, <2>3, <4>1 DEF Matched
    <3> QED
      BY <2>2, <2>5, <3>1
  <2>7. PICK n \in DOMAIN bit :
           groups.setters[n] = groups.updateValue[i] /\ bit[n] = i - 1
    BY <2>3, <2>6 DEF Matched
  <2>8. ASSUME NEW k \in DOMAIN bit, bit[k] = i - 1 PROVE k = n
    <3>1. bit[k] # -1 /\ bit[k] + 1 = i
      BY <2>2, <2>8
    <3>2. groups.setters[k] = groups.updateValue[i]
      BY <2>3, <3>1 DEF Matched
    <3> QED
      BY <2>2, <2>4, <2>7, <3>2 DEF IsInjective
  <2> QED
    BY <2>4, <2>7, <2>8
<1> QED
  BY <1>1, WalkCorrect, PTL

\* No setter is given a bit that updateMask, a uint64, does not have.
THEOREM BitsCorrect == Spec => []BitsFit
<1>1. ASSUME FillInv, WalkInv PROVE BitsFit
  <2>1. CASE Generated
    <3>1. /\ Len(groups.setters) \in Nat /\ Len(groups.setters) <= 64
          /\ next \in Nat /\ next <= Len(groups.setters) + 1
      BY <1>1, <2>1, WalkedLists DEF MaxSetters
    <3>2. /\ bit \in Seq(Int) /\ Len(bit) = next - 1
          /\ \A n \in DOMAIN bit : -1 <= bit[n] /\ bit[n] < n
      BY <1>1, <2>1 DEF WalkInv
    <3>3. \A n \in DOMAIN bit : n \in Nat /\ n <= 64 /\ bit[n] \in Int
      BY <3>1, <3>2
    <3> QED
      BY <3>2, <3>3 DEF BitsFit, MaxSetters
  <2>2. CASE ~Generated
    BY <1>1, <2>2 DEF FillInv, BitsFit
  <2> QED
    BY <2>1, <2>2
<1> QED
  BY <1>1, WalkCorrect, PTL
=============================================================================
