--------------------------- MODULE Package_proofs ---------------------------
(***************************************************************************)
(* Theorems about Package, for any number of source files, models, indices *)
(* and names, any edits and any crashes.                                   *)
(***************************************************************************)
EXTENDS Package, TLAPS

\* The code generated for a set of models is made of declarations.
LEMMA ContentTypes ==
    ASSUME NEW ms \in SUBSET Model, NEW need
    PROVE  Content(ms, need) \subseteq Declaration
<1> SUFFICES ASSUME NEW x \in Content(ms, need) PROVE x \in Declaration
  OBVIOUS
<1>1. PICK m \in ms : x \in [id : Identifiers(m, m \in need), of : {m}]
  BY DEF Content
<1>2. Identifiers(m, m \in need) \subseteq Identifiers(m, TRUE)
  BY DEF Identifiers
<1>3. x \in [id : Identifiers(m, TRUE), of : {m}]
  BY <1>1, <1>2
<1> QED
  BY <1>3 DEF Declaration

LEMMA TypeInit == Init => TypeOK
<1> SUFFICES ASSUME Init PROVE TypeOK
  OBVIOUS
<1>1. /\ home \in [Model -> File \cup {0}]
      /\ hand \in [Name -> Kind]
      /\ gen \in [File -> SUBSET Declaration]
  BY DEF Init, Kind
<1>2. /\ at \in 0 .. N + 1 /\ clean \in 0 .. 2
      /\ edits \in 0 .. MaxEdits /\ crashes \in 0 .. MaxCrashes
  BY PackageAssumption DEF Init
<1>3. /\ step = "visit" /\ parsed = {} /\ needed = {} /\ torn = {}
      /\ disturbed \in BOOLEAN
  BY DEF Init
<1>4. torn \in SUBSET File /\ parsed \in SUBSET Model /\ needed \in SUBSET parsed
  BY <1>3
<1> QED
  BY <1>1, <1>2, <1>3, <1>4 DEF TypeOK

LEMMA TypeNext == TypeOK /\ [Next]_vars => TypeOK'
<1> SUFFICES ASSUME TypeOK, [Next]_vars PROVE TypeOK'
  OBVIOUS
<1> USE PackageAssumption DEF TypeOK, File
<1>1. CASE GoGenerate
  <2>1. at' \in 0 .. N + 1
    BY <1>1 DEF GoGenerate
  <2>2. /\ step' = "visit" /\ parsed' = parsed /\ needed' = needed
        /\ home' = home /\ hand' = hand /\ gen' = gen /\ torn' = torn
        /\ edits' = edits /\ crashes' = crashes /\ clean' = clean
        /\ disturbed' = FALSE /\ step = "visit"
    BY <1>1 DEF GoGenerate, package
  <2> QED
    BY <2>1, <2>2
<1>2. CASE Visit
  BY <1>2 DEF Visit, package
<1>3. CASE Parse
  BY <1>3 DEF Parse, package, Models
<1>4. CASE ParsePackage
  BY <1>4 DEF ParsePackage, package
<1>5. CASE Truncate
  <2>1. at \in File
    BY <1>5 DEF Truncate
  <2>2. gen' \in [File -> SUBSET Declaration] /\ torn' \in SUBSET File
    BY <1>5, <2>1 DEF Truncate
  <2> QED
    BY <1>5, <2>2 DEF Truncate
<1>6. CASE WriteFile
  <2>1. at \in File
    BY <1>6 DEF WriteFile
  <2>2. Content(parsed, needed) \in SUBSET Declaration
    BY ContentTypes
  <2>3. gen' \in [File -> SUBSET Declaration] /\ torn' \in SUBSET File
    BY <1>6, <2>1, <2>2 DEF WriteFile
  <2>4. at' \in 0 .. N + 1
    BY <1>6, <2>1 DEF WriteFile
  <2> QED
    BY <1>6, <2>3, <2>4 DEF WriteFile
<1>7. CASE EndPass
  BY <1>7 DEF EndPass, package
<1>8. CASE Fail
  BY <1>8 DEF Fail, Stop
<1>9. CASE Crash
  <2>1. gen' \in [File -> SUBSET Declaration] /\ torn' \in SUBSET File
    <3>1. CASE UNCHANGED <<gen, torn>>
      BY <3>1
    <3>2. ASSUME NEW ms \in SUBSET parsed, torn' = torn \ {at},
                 gen' = [gen EXCEPT ![at] = Content(ms, needed)]
          PROVE  gen' \in [File -> SUBSET Declaration] /\ torn' \in SUBSET File
      <4>1. Content(ms, needed) \in SUBSET Declaration
        BY ContentTypes
      <4> QED
        BY <3>2, <4>1
    <3> QED
      BY <1>9, <3>1, <3>2 DEF Crash
  <2>2. crashes' \in 0 .. MaxCrashes
    BY <1>9 DEF Crash
  <2> QED
    BY <1>9, <2>1, <2>2 DEF Crash, Stop
<1>10. ASSUME NEW m \in Model, NEW f \in File \cup {0}, Move(m, f) PROVE TypeOK'
  <2>1. home' \in [Model -> File \cup {0}]
    BY <1>10 DEF Move
  <2> QED
    BY <1>10, <2>1 DEF Move, Edit, work
<1>11. ASSUME NEW d \in Name, NEW kind \in Kind, Declare(d, kind)
       PROVE  TypeOK'
  <2>1. hand' \in [Name -> Kind]
    BY <1>11 DEF Declare
  <2> QED
    BY <1>11, <2>1 DEF Declare, Edit, work
<1>12. ASSUME NEW f \in File, Delete(f) PROVE TypeOK'
  <2>1. gen' \in [File -> SUBSET Declaration] /\ torn' \in SUBSET File
    BY <1>12 DEF Delete
  <2> QED
    BY <1>12, <2>1 DEF Delete, Edit, work
<1>13. CASE UNCHANGED vars
  BY <1>13 DEF vars, package, work
<1> QED
  BY <1>1, <1>2, <1>3, <1>4, <1>5, <1>6, <1>7, <1>8, <1>9, <1>10, <1>11, <1>12,
     <1>13, ZenonT(30) DEF Next, Work

\* Every variable keeps its type, for every package: a file is only worked on
\* while it is one of the package's, and holds only declarations of its models.
THEOREM TypeCorrect == Spec => []TypeOK
BY TypeInit, TypeNext, PTL DEF Spec

----------------------------------------------------------------------------
(* Names. *)

\* No identifier is generated for two models.
LEMMA IdentifierOfOne ==
    ASSUME Compatible, NEW m \in Model, NEW n \in Model, NEW i, NEW p, NEW q,
           i \in Identifiers(m, p), i \in Identifiers(n, q)
    PROVE  m = n
<1>1. CASE i[1] = "model"
  BY <1>1 DEF Identifiers, DaoType
<1>2. CASE i[1] \in {"method", "type"}
  <2>1. i[2] = DaoOf(m) /\ i[2] = DaoOf(n)
    BY <1>2 DEF Identifiers, DaoType
  <2> QED
    BY <2>1 DEF Compatible
<1>3. CASE i[1] = "key"
  <2>1. /\ \E a \in KeyStructs[m] : i[2] = MethodName(m, a)
        /\ \E b \in KeyStructs[n] : i[2] = MethodName(n, b)
    BY <1>3 DEF Identifiers, DaoType
  <2> QED
    BY <2>1 DEF Compatible
<1> QED
  BY <1>1, <1>2, <1>3 DEF Identifiers, DaoType

\* A DAO type is generated for a model that needs it, under its DAO's name.
LEMMA TypeOfDao ==
    ASSUME NEW m \in Model, NEW d, NEW p, DaoType(d) \in Identifiers(m, p)
    PROVE  p /\ d = DaoOf(m)
BY DEF Identifiers, DaoType

----------------------------------------------------------------------------
(* The inductive invariant. *)

\* A pass over sources nobody has changed since it began.
InPass == at # 0 /\ ~disturbed

\* Is f not in the middle of being written?
Whole(f) == ~(f = at /\ step = "writing")

\* f has been generated once, or twice, since the sources changed or a run failed.
Fresh(f) == (clean > 0 /\ Whole(f)) \/ (InPass /\ f < at)
Settled(f) == (clean = 2 /\ Whole(f)) \/ (clean = 1 /\ InPass /\ f < at)

\* The models of ms that have no hand-written DAO.
Lacking(ms) == {m \in ms : hand[DaoOf(m)] # "struct"}

\* No model of ms has a type under its DAO's name that is no struct.
Suitable(ms) == \A m \in ms : hand[DaoOf(m)] # "other"

\* After one pass a file declares its models and perhaps their DAOs.
Holds(f) ==
    /\ f \notin torn
    /\ \E need \in SUBSET Models(f) : gen[f] = Content(Models(f), need)

\* After two it declares just the DAOs that are not written by hand.
Final(f) ==
    /\ gen[f] = Content(Models(f), Lacking(Models(f)))
    /\ Suitable(Models(f))

PassInv ==
    /\ clean > 0 /\ at # 0 => ~disturbed
    /\ ~disturbed /\ step \in {"package", "write", "writing"} =>
          parsed = Models(at) /\ parsed # {}

FreshInv == NoOrphan => \A f \in File : Fresh(f) => Holds(f)

SettledInv ==
    NoOrphan =>
        /\ \A f \in File : Settled(f) => Final(f)
        /\ clean > 0 /\ step \in {"write", "writing"} =>
              needed = Lacking(parsed) /\ Suitable(parsed)

PackageInv == TypeOK /\ PassInv /\ FreshInv /\ SettledInv

LEMMA InvInit == Init => PackageInv
<1> SUFFICES ASSUME Init PROVE PackageInv
  OBVIOUS
<1>1. TypeOK
  BY TypeInit
<1>2. \A f \in File : ~Fresh(f) /\ ~Settled(f)
  BY DEF Init, Fresh, Settled, InPass
<1>3. PassInv /\ FreshInv /\ SettledInv
  BY <1>2 DEF Init, PassInv, FreshInv, SettledInv
<1> QED
  BY <1>1, <1>3 DEF PackageInv

\* A source without models whose generated file is no orphan has none at all.
LEMMA EmptyHolds ==
    ASSUME TypeOK, NoOrphan, NEW f \in File, Models(f) = {}
    PROVE  Holds(f) /\ Final(f)
<1>1. gen[f] = {} /\ f \notin torn
  BY DEF NoOrphan, Orphan
<1>2. \A need : Content({}, need) = {}
  BY DEF Content
<1>3. Lacking({}) = {} /\ Suitable({}) /\ {} \in SUBSET {}
  BY DEF Lacking, Suitable
<1> QED
  BY <1>1, <1>2, <1>3 DEF Holds, Final

\* When the other files have been generated from the sources as they are, only
\* the developer can have declared a model's DAO elsewhere.
LEMMA NotedByHand ==
    ASSUME TypeOK, Compatible, NEW m \in Model, home[m] = at,
           \A f \in File \ {at} : Holds(f)
    PROVE  Noted(DaoOf(m)) = {hand[DaoOf(m)]} \cap {"struct", "other"}
<1> SUFFICES ASSUME NEW f \in File \ {at}, NEW x \in gen[f],
                    DaoType(DaoOf(m)) = x.id
             PROVE  FALSE
  BY DEF Noted
<1>1. PICK need \in SUBSET Models(f) : gen[f] = Content(Models(f), need)
  BY DEF Holds
<1>2. PICK n \in Models(f) : x \in [id : Identifiers(n, n \in need), of : {n}]
  BY <1>1 DEF Content
<1>3. DaoType(DaoOf(m)) \in Identifiers(n, n \in need)
  BY <1>2
<1>4. n \in Model /\ home[n] = f
  BY DEF Models
<1>5. DaoOf(m) = DaoOf(n)
  BY <1>3, <1>4, TypeOfDao
<1>6. m # n
  BY <1>4
<1> QED
  BY <1>4, <1>5, <1>6 DEF Compatible

\* After an edit or a failure nothing is known to be fresh.
LEMMA NothingFresh ==
    ASSUME clean' = 0, disturbed' = TRUE \/ at' = 0,
           disturbed' = TRUE \/ step' = "visit"
    PROVE  PassInv' /\ FreshInv' /\ SettledInv'
<1>1. \A f \in File : ~Fresh(f)' /\ ~Settled(f)'
  BY DEF Fresh, Settled, InPass
<1> QED
  BY <1>1 DEF PassInv, FreshInv, SettledInv

\* A step that changes neither the package nor how far the pass has come.
LEMMA SameFiles ==
    ASSUME UNCHANGED package
    PROVE  /\ NoOrphan' = NoOrphan
           /\ \A f \in File : Models(f)' = Models(f) /\ Holds(f)' = Holds(f)
                              /\ Final(f)' = Final(f)
           /\ \A ms : Lacking(ms)' = Lacking(ms) /\ Suitable(ms)' = Suitable(ms)
BY DEF package, NoOrphan, Orphan, Models, Holds, Final, Content, Lacking, Suitable

LEMMA InvNext == Compatible /\ PackageInv /\ [Next]_vars => PackageInv'
<1> SUFFICES ASSUME Compatible, PackageInv, [Next]_vars PROVE PackageInv'
  OBVIOUS
<1>t. TypeOK /\ TypeOK'
  BY TypeNext DEF PackageInv
<1>i. PassInv /\ FreshInv /\ SettledInv
  BY DEF PackageInv
<1> SUFFICES PassInv' /\ FreshInv' /\ SettledInv'
  BY <1>t DEF PackageInv
<1>1. CASE GoGenerate
  <2>1. UNCHANGED package /\ at = 0 /\ at' = 1 /\ step' = "visit" /\ clean' = clean
        /\ step = "visit" /\ parsed' = parsed /\ needed' = needed
    BY <1>1, <1>t DEF GoGenerate, TypeOK, File, package
  <2>2. \A f \in File : (Fresh(f)' => Fresh(f)) /\ (Settled(f)' => Settled(f))
    <3> SUFFICES ASSUME NEW f \in File
                 PROVE  (Fresh(f)' => Fresh(f)) /\ (Settled(f)' => Settled(f))
      OBVIOUS
    <3>1. f # 0 /\ ~(f < 1)
      BY PackageAssumption DEF File
    <3> QED
      BY <2>1, <3>1 DEF Fresh, Settled, InPass, Whole
  <2>3. PassInv'
    BY <1>1, <2>1 DEF GoGenerate, PassInv
  <2> QED
    BY <1>i, <2>1, <2>2, <2>3, SameFiles DEF FreshInv, SettledInv
<1>2. CASE Visit
  <2>1. /\ UNCHANGED package /\ at \in File /\ step = "visit"
        /\ clean' = clean /\ disturbed' = disturbed
        /\ parsed' = parsed /\ needed' = needed
    BY <1>2 DEF Visit, package
  <2>2. PassInv'
    BY <1>2, <1>i, <2>1, PackageAssumption DEF Visit, PassInv, File
  <2>3. CASE at' = at /\ step' = "parse"
    <3>1. \A f \in File : Fresh(f)' = Fresh(f) /\ Settled(f)' = Settled(f)
      BY <2>1, <2>3 DEF Fresh, Settled, InPass, Whole
    <3> QED
      BY <1>i, <2>1, <2>2, <2>3, <3>1, SameFiles DEF FreshInv, SettledInv
  <2>4. CASE Models(at) = {} /\ at' = at + 1 /\ step' = step
    <3>1. \A f \in File : f # at =>
             (Fresh(f)' => Fresh(f)) /\ (Settled(f)' => Settled(f))
      <4> SUFFICES ASSUME NEW f \in File, f # at
                   PROVE  (Fresh(f)' => Fresh(f)) /\ (Settled(f)' => Settled(f))
        OBVIOUS
      <4>1. f < at + 1 => f < at
        BY <2>1, PackageAssumption DEF File
      <4>2. at # 0
        BY <2>1, PackageAssumption DEF File
      <4> QED
        BY <2>1, <2>4, <4>1, <4>2 DEF Fresh, Settled, InPass, Whole
    <3>2. NoOrphan => Holds(at) /\ Final(at)
      BY <1>t, <2>1, <2>4, EmptyHolds
    <3>3. NoOrphan' = NoOrphan
          /\ \A f \in File : Holds(f)' = Holds(f) /\ Final(f)' = Final(f)
      BY <2>1, SameFiles
    <3>4. FreshInv'
      BY <1>i, <3>1, <3>2, <3>3 DEF FreshInv
    <3>5. SettledInv'
      BY <1>i, <2>1, <2>4, <3>1, <3>2, <3>3 DEF SettledInv
    <3> QED
      BY <2>2, <3>4, <3>5
  <2> QED
    BY <1>2, <2>1, <2>3, <2>4 DEF Visit
<1>3. CASE Parse
  <2>1. /\ UNCHANGED package /\ at' = at /\ step = "parse" /\ step' = "package"
        /\ clean' = clean /\ disturbed' = disturbed
        /\ parsed' = Models(at) /\ Models(at) # {} /\ Models(at)' = Models(at)
    BY <1>3 DEF Parse, package, Models
  <2>2. \A f \in File : Fresh(f)' = Fresh(f) /\ Settled(f)' = Settled(f)
    BY <2>1 DEF Fresh, Settled, InPass, Whole
  <2>3. PassInv'
    BY <1>i, <2>1 DEF PassInv, Models
  <2> QED
    BY <1>i, <2>1, <2>2, <2>3, SameFiles DEF FreshInv, SettledInv
<1>4. CASE ParsePackage
  <2>1. /\ UNCHANGED package /\ at' = at /\ step = "package" /\ step' = "write"
        /\ clean' = clean /\ disturbed' = disturbed /\ parsed' = parsed
    BY <1>4 DEF ParsePackage, package
  <2>2. \A f \in File : Fresh(f)' = Fresh(f) /\ Settled(f)' = Settled(f)
    BY <2>1 DEF Fresh, Settled, InPass, Whole
  <2>3. PassInv'
    BY <1>i, <2>1 DEF PassInv, Models, package
  <2>4. ASSUME NoOrphan, clean > 0
        PROVE  needed' = Lacking(parsed) /\ Suitable(parsed)
    <3>1. \A f \in File \ {at} : Holds(f)
      BY <1>i, <2>1, <2>4 DEF FreshInv, Fresh, Whole
    <3>2. at # 0
      BY <1>t, <2>1, PackageAssumption DEF TypeOK, File
    <3>3. \A m \in parsed : m \in Model /\ home[m] = at
      BY <1>i, <2>1, <2>4, <3>2 DEF PassInv, Models
    <3>4. \A m \in parsed :
             Noted(DaoOf(m)) = {hand[DaoOf(m)]} \cap {"struct", "other"}
      BY <1>t, <3>1, <3>3, NotedByHand
    <3>5. Suitable(parsed)
      BY <1>4, <3>4 DEF ParsePackage, Suitable
    <3>6. \A m \in parsed : Noted(DaoOf(m)) = {} <=> hand[DaoOf(m)] # "struct"
      BY <3>4, <3>5 DEF Suitable
    <3> QED
      BY <1>4, <3>5, <3>6 DEF ParsePackage, Lacking
  <2>5. SettledInv'
    BY <1>i, <2>1, <2>2, <2>4, SameFiles DEF SettledInv
  <2> QED
    BY <1>i, <2>1, <2>2, <2>3, <2>5, SameFiles DEF FreshInv
<1>5. CASE Truncate
  <2>1. /\ step = "write" /\ step' = "writing" /\ at' = at /\ at \in File
        /\ home' = home /\ hand' = hand /\ clean' = clean /\ disturbed' = disturbed
        /\ parsed' = parsed /\ needed' = needed
        /\ torn' = torn \cup {at} /\ gen' = [gen EXCEPT ![at] = {}]
    BY <1>5, <1>t DEF Truncate, TypeOK
  <2>2. \A f \in File \ {at} : gen'[f] = gen[f] /\ (f \in torn' <=> f \in torn)
    BY <1>t, <2>1 DEF TypeOK
  <2>3. \A f : Models(f)' = Models(f)
    BY <2>1 DEF Models
  <2>4. NoOrphan' => NoOrphan
    BY <2>1, <2>2, <2>3 DEF NoOrphan, Orphan
  <2>5. \A f \in File \ {at} : Holds(f)' = Holds(f) /\ Final(f)' = Final(f)
    BY <2>1, <2>2, <2>3 DEF Holds, Final, Content, Lacking, Suitable
  <2>6. \A f \in File : (Fresh(f)' => Fresh(f) /\ f # at)
                        /\ (Settled(f)' => Settled(f) /\ f # at)
    <3>1. ~(at < at)
      BY <2>1, PackageAssumption DEF File
    <3> QED
      BY <2>1, <3>1 DEF Fresh, Settled, InPass, Whole
  <2>7. PassInv'
    BY <1>i, <2>1, <2>3 DEF PassInv
  <2>8. FreshInv'
    BY <1>i, <2>4, <2>5, <2>6 DEF FreshInv
  <2>9. SettledInv'
    BY <1>i, <2>1, <2>4, <2>5, <2>6 DEF SettledInv, Lacking, Suitable
  <2> QED
    BY <2>7, <2>8, <2>9
<1>6. CASE WriteFile
  <2>1. /\ step = "writing" /\ step' = "visit" /\ at' = at + 1 /\ at \in File
        /\ home' = home /\ hand' = hand /\ clean' = clean /\ disturbed' = disturbed
        /\ torn' = torn \ {at}
        /\ gen' = [gen EXCEPT ![at] = Content(parsed, needed)]
    BY <1>6, <1>t DEF WriteFile, TypeOK
  <2>2. at # 0 /\ at + 1 # 0 /\ \A f \in File : f < at + 1 => f < at \/ f = at
    BY <2>1, PackageAssumption DEF File
  <2>3. PassInv'
    BY <1>i, <2>1, <2>2 DEF PassInv
  <2>4. CASE disturbed
    <3>1. clean' = 0 /\ disturbed'
      BY <1>i, <1>t, <2>1, <2>2, <2>4 DEF PassInv, TypeOK
    <3>2. \A f \in File : ~Fresh(f)' /\ ~Settled(f)'
      BY <3>1 DEF Fresh, Settled, InPass
    <3> QED
      BY <2>1, <2>3, <3>1, <3>2 DEF FreshInv, SettledInv
  <2>5. CASE ~disturbed
    <3> PICK g \in File : g = at
      BY <2>1
    <3>1. parsed = Models(g) /\ Models(g) # {} /\ needed \in SUBSET parsed
      BY <1>i, <1>t, <2>1, <2>5 DEF PassInv, TypeOK
    <3>2. /\ \A f \in File \ {g} : gen'[f] = gen[f] /\ (f \in torn' <=> f \in torn)
          /\ gen'[g] = Content(parsed, needed) /\ g \notin torn'
      BY <1>t, <2>1 DEF TypeOK
    <3>3. home' = home /\ hand' = hand /\ \A f : Models(f)' = Models(f)
      BY <2>1 DEF Models
    <3>4. NoOrphan' => NoOrphan
      BY <3>1, <3>2, <3>3 DEF NoOrphan, Orphan
    <3>5. \A f \in File \ {g} : Holds(f)' = Holds(f) /\ Final(f)' = Final(f)
      BY <3>2, <3>3 DEF Holds, Final, Content, Lacking, Suitable
    <3>6. \A f \in File \ {g} : (Fresh(f)' => Fresh(f)) /\ (Settled(f)' => Settled(f))
      BY <2>1, <2>2, <2>5 DEF Fresh, Settled, InPass, Whole
    <3>7. gen'[g] = Content(Models(g), needed)
      BY <3>1, <3>2
    <3>8. Holds(g)'
      BY <3>1, <3>2, <3>3 DEF Holds, Content
    <3>9. FreshInv'
      BY <1>i, <3>4, <3>5, <3>6, <3>8 DEF FreshInv
    <3>10. ASSUME NoOrphan, Settled(g)' PROVE Final(g)'
      <4>1. clean > 0
        BY <1>t, <2>1, <3>10 DEF Settled, TypeOK
      <4>2. needed = Lacking(Models(g)) /\ Suitable(Models(g))
        BY <1>i, <2>1, <3>1, <3>10, <4>1 DEF SettledInv
      <4> QED
        BY <3>3, <3>7, <4>2 DEF Final, Content, Lacking, Suitable
    <3>11. SettledInv'
      BY <1>i, <2>1, <3>4, <3>5, <3>6, <3>10 DEF SettledInv
    <3> QED
      BY <2>3, <3>9, <3>11
  <2> QED
    BY <1>t, <2>4, <2>5 DEF TypeOK
<1>7. CASE EndPass
  <2>1. /\ UNCHANGED package /\ at = N + 1 /\ at' = 0 /\ step' = step
        /\ disturbed' = disturbed
        /\ clean' = IF disturbed \/ clean = 2 THEN clean ELSE clean + 1
    BY <1>7 DEF EndPass, package
  <2>2. step = "visit" /\ N + 1 # 0 /\ \A f \in File : f < N + 1 /\ f # 0
    BY <1>t, <2>1, PackageAssumption DEF TypeOK, File
  <2>3. PassInv'
    BY <2>1, <2>2 DEF PassInv
  <2>4. \A f \in File : (Fresh(f)' => Fresh(f)) /\ (Settled(f)' => Settled(f))
    <3>1. CASE disturbed
      <4>1. clean' = 0
        BY <1>i, <1>t, <2>1, <2>2, <3>1 DEF PassInv, TypeOK
      <4> QED
        BY <2>1, <4>1 DEF Fresh, Settled, InPass
    <3>2. CASE ~disturbed
      <4>1. \A f \in File : Fresh(f)
        BY <2>1, <2>2, <3>2 DEF Fresh, InPass
      <4>2. ASSUME clean' = 2 PROVE \A f \in File : Settled(f)
        <5>1. clean \in {1, 2}
          BY <1>t, <2>1, <4>2 DEF TypeOK
        <5> QED
          BY <2>1, <2>2, <3>2, <5>1 DEF Settled, InPass, Whole
      <4> QED
        BY <2>1, <4>1, <4>2 DEF Settled, InPass
    <3> QED
      BY <1>t, <3>1, <3>2 DEF TypeOK
  <2> QED
    BY <1>i, <2>1, <2>2, <2>3, <2>4, SameFiles DEF FreshInv, SettledInv
<1>8. CASE Fail \/ Crash
  BY <1>8, NothingFresh DEF Fail, Crash, Stop
<1>9. CASE Edit
  BY <1>9, NothingFresh DEF Edit
<1>10. CASE UNCHANGED vars
  <2>1. UNCHANGED package
    BY <1>10 DEF vars
  <2>2. /\ \A f \in File : Fresh(f)' = Fresh(f) /\ Settled(f)' = Settled(f)
        /\ clean' = clean /\ step' = step /\ parsed' = parsed /\ needed' = needed
    BY <1>10 DEF vars, work, Fresh, Settled, InPass, Whole
  <2>3. PassInv'
    BY <1>10, <1>i DEF vars, package, work, PassInv, Models
  <2> QED
    BY <1>i, <2>1, <2>2, <2>3, SameFiles DEF FreshInv, SettledInv
<1> QED
  BY <1>1, <1>2, <1>3, <1>4, <1>5, <1>6, <1>7, <1>8, <1>9, <1>10
     DEF Next, Work, Move, Declare, Delete

\* What the sources ask for is declared once.
LEMMA FinalBuilds ==
    ASSUME TypeOK, Compatible, NoOrphan, ~Aliased,
           \A f \in File : Holds(f) /\ Final(f)
    PROVE  Builds
<1>1. torn = {}
  BY DEF TypeOK, Holds
<1>2. ASSUME NEW f \in File, NEW x \in gen[f]
      PROVE  \E m \in Models(f) :
                /\ x = [id |-> x.id, of |-> m]
                /\ x.id \in Identifiers(m, m \in Lacking(Models(f)))
  BY <1>2 DEF Final, Content
<1>3. \A f \in File : \A m \in Models(f) : m \in Model /\ home[m] = f
  BY DEF Models
<1>4. NoClash
  <2>1. ASSUME NEW f \in File, NEW g \in File, NEW x \in gen[f], NEW y \in gen[g],
               x.id = y.id
        PROVE  f = g /\ x = y
    <3>1. PICK m \in Models(f) : /\ x = [id |-> x.id, of |-> m]
                                 /\ x.id \in Identifiers(m, m \in Lacking(Models(f)))
      BY <1>2
    <3>2. PICK n \in Models(g) : /\ y = [id |-> y.id, of |-> n]
                                 /\ y.id \in Identifiers(n, n \in Lacking(Models(g)))
      BY <1>2
    <3>3. m = n
      BY <1>3, <2>1, <3>1, <3>2, IdentifierOfOne
    <3> QED
      BY <1>3, <2>1, <3>1, <3>2, <3>3
  <2>2. ASSUME NEW f \in File, NEW d \in Name, hand[d] # "none",
               NEW x \in gen[f], x.id = DaoType(d)
        PROVE  FALSE
    <3>1. PICK m \in Models(f) : x.id \in Identifiers(m, m \in Lacking(Models(f)))
      BY <1>2
    <3>2. m \in Lacking(Models(f)) /\ d = DaoOf(m)
      BY <1>3, <2>2, <3>1, TypeOfDao, ZenonT(30)
    <3>3. hand[d] # "struct" /\ hand[d] # "other"
      BY <3>2 DEF Lacking, Final, Suitable
    <3>4. m \in Model /\ home[m] # 0
      BY <1>3, PackageAssumption DEF File
    <3>5. hand[d] # "alias"
      BY <3>2, <3>4 DEF Aliased
    <3> QED
      BY <2>2, <3>3, <3>5 DEF TypeOK, Kind
  <2> QED
    BY <2>1, <2>2 DEF NoClash
<1>5. ASSUME NEW m \in Model, home[m] # 0
      PROVE  /\ \E f \in File : <<"model", m>> \in {x.id : x \in gen[f]}
             /\ \/ hand[DaoOf(m)] \in {"struct", "alias"}
                \/ \E f \in File : DaoType(DaoOf(m)) \in {x.id : x \in gen[f]}
  <2>1. PICK f \in File : m \in Models(f)
    BY <1>5 DEF TypeOK, Models
  <2> \A i \in Identifiers(m, m \in Lacking(Models(f))) :
           [id |-> i, of |-> m] \in gen[f]
    BY <2>1 DEF Final, Content
  <2>2. <<"model", m>> \in Identifiers(m, m \in Lacking(Models(f)))
    BY DEF Identifiers
  <2>3. hand[DaoOf(m)] # "struct" =>
           DaoType(DaoOf(m)) \in Identifiers(m, m \in Lacking(Models(f)))
    BY <2>1 DEF Lacking, Identifiers
  <2>4. \A i \in Identifiers(m, m \in Lacking(Models(f))) : i \in {x.id : x \in gen[f]}
    <3> SUFFICES ASSUME NEW i \in Identifiers(m, m \in Lacking(Models(f)))
                 PROVE  \E x \in gen[f] : x.id = i
      OBVIOUS
    <3> WITNESS [id |-> i, of |-> m] \in gen[f]
    <3> QED
      OBVIOUS
  <2> QED
    BY <2>2, <2>3, <2>4
<1> QED
  BY <1>1, <1>4, <1>5 DEF Builds

\* Two passes over unchanged sources repair whatever edits, failed and killed
\* runs have left of the package, for any number of files and models, while no
\* two models share a DAO and none has an alias for one.
THEOREM TwoPassesCorrect == Compatible => (Spec => []TwoPassesBuild)
<1> SUFFICES ASSUME Compatible PROVE Spec => []TwoPassesBuild
  OBVIOUS
<1>1. Init => PackageInv
  BY InvInit
<1>2. PackageInv /\ [Next]_vars => PackageInv'
  BY InvNext
<1>3. PackageInv => TwoPassesBuild
  <2> SUFFICES ASSUME PackageInv, at = 0, clean = 2, NoOrphan, ~Aliased
               PROVE  Builds
    BY DEF TwoPassesBuild
  <2>1. \A f \in File : Fresh(f) /\ Settled(f)
    BY PackageAssumption DEF Fresh, Settled, Whole, File
  <2> QED
    BY <2>1, FinalBuilds DEF PackageInv, FreshInv, SettledInv
<1> QED
  BY <1>1, <1>2, <1>3, PTL DEF Spec

\* The third pass, and every later one, rewrites the files as they are, those
\* that declare a DAO beside its alias too.
THEOREM GenerationIdempotent == Compatible => (Spec => []ThirdPassChangesNothing)
<1> SUFFICES ASSUME Compatible PROVE Spec => []ThirdPassChangesNothing
  OBVIOUS
<1>1. Init => PackageInv
  BY InvInit
<1>2. PackageInv /\ [Next]_vars => PackageInv'
  BY InvNext
<1>3. PackageInv => ThirdPassChangesNothing
  <2> SUFFICES ASSUME PackageInv, clean = 2, step = "write", at \in File, NoOrphan
               PROVE  Content(parsed, needed) = gen[at]
    BY DEF ThirdPassChangesNothing
  <2>1. Final(at)
    BY DEF PackageInv, SettledInv, Settled, Whole
  <2>2. at # 0
    BY PackageAssumption DEF File
  <2>3. parsed = Models(at) /\ needed = Lacking(parsed)
    BY <2>2 DEF PackageInv, PassInv, SettledInv
  <2> QED
    BY <2>1, <2>3 DEF Final
<1> QED
  BY <1>1, <1>2, <1>3, PTL DEF Spec
=============================================================================
