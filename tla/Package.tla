------------------------------ MODULE Package ------------------------------
(***************************************************************************)
(* `go generate` over a package (cmd/adv-pg/main.go, internal/gen).  It    *)
(* runs the generator once for each source file that declares models, in   *)
(* the order of the files.  A run parses its source, looks through every   *)
(* other file of the package, generated ones included, for the DAO types   *)
(* that exist already, and overwrites its own generated file.              *)
(*                                                                         *)
(* The developer edits the sources at any moment; a run may stop at any    *)
(* step, between the truncation of its file and the writing of it too.     *)
(*                                                                         *)
(* An identifier is abstract: a tuple that has what the code forms its     *)
(* name from.                                                              *)
(***************************************************************************)
EXTENDS Naturals, FiniteSets

CONSTANTS
    N,              \* source files; go generate visits 1, 2, ... N
    Model,          \* table models
    Name,           \* names of DAO types
    NoName,         \* the empty string
    Asked,          \* Table.DAO of each model
    OwnName,        \* the model's name with "DAO" appended
    PackageDAO,     \* the constant of that name, NoName if there is none
    Indices,        \* the names of each model's indices
    KeyStructs,     \* those of them that have a KeyStructName
    MaxEdits,       \* bound: edits of the package
    MaxCrashes      \* bound: runs that are stopped

File == 1 .. N

\* What the developer may have written under a DAO's name: nothing, a struct
\* type, an alias of one, another type.
Kind == {"none", "struct", "alias", "other"}

ASSUME PackageAssumption ==
    /\ N \in Nat
    /\ NoName \notin Name
    /\ Asked \in [Model -> Name \cup {NoName}]
    /\ OwnName \in [Model -> Name]
    /\ PackageDAO \in Name \cup {NoName}
    /\ \A m \in Model : KeyStructs[m] \subseteq Indices[m]
    /\ MaxEdits \in Nat
    /\ MaxCrashes \in Nat

VARIABLES
    home,       \* the source file that declares each model, 0 for none
    hand,       \* the types the developer has written under the DAO names
    gen,        \* the declarations in each generated file
    torn,       \* generated files that do not parse
    at,         \* the source file being worked on, 0 between passes
    step,       \* what is done with it
    parsed,     \* the models found in it
    needed,     \* those of them a DAO type is to be generated for
    edits, crashes,
    \* history variables, read by the properties only
    clean,      \* complete passes since the last edit or failure, up to 2
    disturbed   \* has the package been edited during this pass?

package == <<home, hand, gen, torn>>
work == <<at, step, parsed, needed>>
vars == <<package, work, edits, crashes, clean, disturbed>>

Models(f) == {m \in Model : home[m] = f}

----------------------------------------------------------------------------
(* Names. *)

HasPackageDAO(m) == Asked[m] = NoName /\ PackageDAO # NoName

\* Package.DAO
DaoOf(m) ==
    IF Asked[m] # NoName THEN Asked[m]
    ELSE IF PackageDAO # NoName THEN PackageDAO
    ELSE OwnName[m]

\* indexMethodName: with a PackageDAO the model's name is part of it.
MethodName(m, i) == IF HasPackageDAO(m) THEN <<m, i>> ELSE <<i>>

DaoType(d) == <<"type", d>>

\* The identifiers the code generated for m declares: those with the model's
\* name in theirs, the methods every DAO gets, a method for each index, the
\* struct of a key with several columns, and the DAO type if need.
Identifiers(m, need) ==
    {<<"model", m>>, <<"method", DaoOf(m), <<"Insert">>>>}
        \cup {<<"method", DaoOf(m), MethodName(m, i)>> : i \in Indices[m]}
        \cup {<<"key", MethodName(m, i)>> : i \in KeyStructs[m]}
        \cup IF need THEN {DaoType(DaoOf(m))} ELSE {}

\* A declaration: an identifier and the model it is generated for.
Content(ms, need) ==
    UNION {[id : Identifiers(m, m \in need), of : {m}] : m \in ms}

----------------------------------------------------------------------------
(* A pass of go generate. *)

GoGenerate ==
    /\ at = 0
    /\ at' = 1
    /\ step' = "visit"
    /\ disturbed' = FALSE
    /\ UNCHANGED <<package, parsed, needed, edits, crashes, clean>>

\* A source without models has no //go:generate line.
Visit ==
    /\ at \in File
    /\ step = "visit"
    /\ \/ /\ Models(at) = {}
          /\ at' = at + 1
          /\ UNCHANGED step
       \/ /\ Models(at) # {}
          /\ step' = "parse"
          /\ UNCHANGED at
    /\ UNCHANGED <<package, parsed, needed, edits, crashes, clean, disturbed>>

Parse ==
    /\ step = "parse"
    /\ Models(at) # {}
    /\ parsed' = Models(at)
    /\ step' = "package"
    /\ UNCHANGED <<package, at, needed, edits, crashes, clean, disturbed>>

\* Mutation: the file's own declarations are taken for those of others.
NotedAnywhere(d) ==
    ({hand[d]} \cap {"struct", "other"})
        \cup {"struct" : f \in {g \in File : DaoType(d) \in {x.id : x \in gen[g]}}}

\* What the declarations of d that parseFile takes note of make of it.  It
\* passes over an alias, and never reads the file to be generated.
Noted(d) ==
    ({hand[d]} \cap {"struct", "other"})
        \cup {"struct" : f \in {g \in File \ {at} :
                                  DaoType(d) \in {x.id : x \in gen[g]}}}

\* Mutation: the file to be generated must parse.
ReadableAll == torn = {}

\* NewExcludeFS: the file to be generated need not parse.
Readable == torn \subseteq {at}

\* Of several declarations of a DAO the one in the file that is read last
\* counts, which may be any of them: a stale struct may hide another type.
ParsePackage ==
    /\ step = "package"
    /\ Readable
    /\ \A m \in parsed : Noted(DaoOf(m)) # {"other"}
    /\ needed' = {m \in parsed : Noted(DaoOf(m)) = {}}
    /\ step' = "write"
    /\ UNCHANGED <<package, at, parsed, edits, crashes, clean, disturbed>>

\* os.WriteFile opens the file with O_TRUNC and then writes it.
Truncate ==
    /\ step = "write"
    /\ torn' = torn \cup {at}
    /\ gen' = [gen EXCEPT ![at] = {}]
    /\ step' = "writing"
    /\ UNCHANGED <<home, hand, at, parsed, needed, edits, crashes, clean,
                   disturbed>>

WriteFile ==
    /\ step = "writing"
    /\ torn' = torn \ {at}
    /\ gen' = [gen EXCEPT ![at] = Content(parsed, needed)]
    /\ at' = at + 1
    /\ step' = "visit"
    /\ parsed' = {}
    /\ needed' = {}
    /\ UNCHANGED <<home, hand, edits, crashes, clean, disturbed>>

EndPass ==
    /\ at = N + 1
    /\ at' = 0
    /\ clean' = IF disturbed \/ clean = 2 THEN clean ELSE clean + 1
    /\ UNCHANGED <<package, step, parsed, needed, edits, crashes, disturbed>>

\* Mutation: the run that failed is taken for a step of the next pass.
StopInPlace ==
    /\ at' = 0
    /\ clean' = 0
    /\ UNCHANGED <<home, hand, step, parsed, needed, edits, disturbed>>

\* go generate skips the rest of the package when a run fails.
Stop ==
    /\ at' = 0
    /\ step' = "visit"
    /\ parsed' = {}
    /\ needed' = {}
    /\ clean' = 0
    /\ UNCHANGED <<home, hand, edits, disturbed>>

\* No Table in the file, a file that does not parse, a DAO that is no struct.
Fail ==
    /\ at \in File
    /\ \/ step = "parse" /\ Models(at) = {}
       \/ step = "package" /\ ~Readable
       \/ /\ step = "package"
          /\ Readable
          /\ \E m \in parsed : "other" \in Noted(DaoOf(m))
    /\ Stop
    /\ UNCHANGED <<gen, torn, crashes>>

\* The run is killed, or the disk is full.  What has been written by then may
\* end in the middle of a declaration, or between those of two models.
Crash ==
    /\ at \in File
    /\ crashes < MaxCrashes
    /\ crashes' = crashes + 1
    /\ Stop
    /\ \/ UNCHANGED <<gen, torn>>
       \/ /\ step = "writing"
          /\ torn' = torn \ {at}
          /\ \E ms \in SUBSET parsed :
                gen' = [gen EXCEPT ![at] = Content(ms, needed)]

----------------------------------------------------------------------------
(* The developer. *)

Edit ==
    /\ edits < MaxEdits
    /\ edits' = edits + 1
    /\ clean' = 0
    /\ disturbed' = TRUE
    /\ UNCHANGED <<work, crashes>>

\* The model's declaration goes to another file, or away.
Move(m, f) ==
    /\ home[m] # f
    /\ home' = [home EXCEPT ![m] = f]
    /\ Edit
    /\ UNCHANGED <<hand, gen, torn>>

\* A type of that name is written by hand, or removed.
Declare(d, kind) ==
    /\ hand[d] # kind
    /\ hand' = [hand EXCEPT ![d] = kind]
    /\ Edit
    /\ UNCHANGED <<home, gen, torn>>

\* A generated file is deleted.
Delete(f) ==
    /\ gen[f] # {} \/ f \in torn
    /\ gen' = [gen EXCEPT ![f] = {}]
    /\ torn' = torn \ {f}
    /\ Edit
    /\ UNCHANGED <<home, hand>>

----------------------------------------------------------------------------
Init ==
    /\ home \in [Model -> File]
    /\ hand = [d \in Name |-> "none"]
    /\ gen = [f \in File |-> {}]
    /\ torn = {}
    /\ at = 0
    /\ step = "visit"
    /\ parsed = {}
    /\ needed = {}
    /\ edits = 0
    /\ crashes = 0
    /\ clean = 0
    /\ disturbed = FALSE

Work == Visit \/ Parse \/ ParsePackage \/ Truncate \/ WriteFile \/ EndPass \/ Fail

Next ==
    \/ GoGenerate
    \/ Work
    \/ Crash
    \/ \E m \in Model, f \in File \cup {0} : Move(m, f)
    \/ \E d \in Name, kind \in Kind : Declare(d, kind)
    \/ \E f \in File : Delete(f)

\* A pass that has begun goes on, and go generate is run again.
Fairness == WF_vars(Work) /\ WF_vars(GoGenerate)

Spec == Init /\ [][Next]_vars
FairSpec == Spec /\ Fairness
----------------------------------------------------------------------------
(* Properties. *)

Declaration == UNION {[id : Identifiers(m, TRUE), of : {m}] : m \in Model}

\* Every variable holds a value of its type.
TypeOK ==
    /\ home \in [Model -> File \cup {0}]
    /\ hand \in [Name -> Kind]
    /\ gen \in [File -> SUBSET Declaration]
    /\ torn \in SUBSET File
    /\ at \in 0 .. N + 1
    /\ step \in {"visit", "parse", "package", "write", "writing"}
    /\ step # "visit" => at \in File
    /\ step \in {"visit", "parse"} => parsed = {}
    /\ parsed \in SUBSET Model
    /\ needed \in SUBSET parsed
    /\ edits \in 0 .. MaxEdits
    /\ crashes \in 0 .. MaxCrashes
    /\ clean \in 0 .. 2
    /\ disturbed \in BOOLEAN

\* No two models of the package share a DAO or the name of a key struct.
Compatible ==
    \A m, n \in Model : m # n =>
        /\ DaoOf(m) # DaoOf(n)
        /\ \A i \in KeyStructs[m], j \in KeyStructs[n] :
                MethodName(m, i) # MethodName(n, j)

\* A generated file that go generate no longer touches.
Orphan(f) == Models(f) = {} /\ (gen[f] # {} \/ f \in torn)
NoOrphan == \A f \in File : ~Orphan(f)

\* Every identifier is declared once in the package.
NoClash ==
    /\ \A f, g \in File : \A x \in gen[f], y \in gen[g] :
          x.id = y.id => f = g /\ x = y
    /\ \A f \in File, d \in Name :
          hand[d] # "none" => DaoType(d) \notin {x.id : x \in gen[f]}

\* The package builds: the generated files parse, nothing is declared twice,
\* and each model has the code generated for it and a DAO type to hang it on.
Builds ==
    /\ torn = {}
    /\ NoClash
    /\ \A m \in Model : home[m] # 0 =>
          /\ \E f \in File : <<"model", m>> \in {x.id : x \in gen[f]}
          /\ \/ hand[DaoOf(m)] \in {"struct", "alias"}
             \/ \E f \in File : DaoType(DaoOf(m)) \in {x.id : x \in gen[f]}

\* A model's DAO is an alias: the generator, which does not see it, declares the
\* type again.
Aliased == \E m \in Model : home[m] # 0 /\ hand[DaoOf(m)] = "alias"

\* What the developer must do about the package, and go generate cannot: remove
\* the file of a source that is gone, or a broken one that other sources read,
\* or a DAO of theirs that is no struct type or goes unseen.
Unrepaired ==
    \/ ~NoOrphan
    \/ \E f \in torn : \E g \in 1 .. f - 1 : Models(g) # {}
    \/ \E m \in Model : home[m] # 0 /\ hand[DaoOf(m)] = "other"
    \/ Aliased

\* Two passes are enough: whatever the generated files held before, and however
\* the models and the hand-written DAOs were rearranged, after two complete
\* passes over unchanged sources every identifier is declared once and no DAO
\* is missing, unless a hand-written DAO is an alias.  (One is not: a DAO that
\* has moved to an earlier file is still found in the stale file of its former
\* source.)
TwoPassesBuild ==
    Compatible /\ at = 0 /\ clean = 2 /\ NoOrphan /\ ~Aliased => Builds

\* Generation is idempotent: a third pass rewrites each file with what it holds.
ThirdPassChangesNothing ==
    /\ Compatible
    /\ clean = 2
    /\ step = "write"
    /\ at \in File
    /\ NoOrphan
    => Content(parsed, needed) = gen[at]

\* However its runs were killed and its sources edited, once both have ended the
\* package comes to build, unless it waits for the developer: a broken file is
\* no obstacle to its own regeneration.
ComesToBuild == <>[](at = 0 /\ Compatible => Builds \/ Unrepaired)

----------------------------------------------------------------------------
(* What the documentation says and the code does not keep. *)

\* adv-pg.go, Table.DAO: a single DAO can be shared between multiple table
\* models, or be used by all the models of a package with PackageDAO.
SharedDaoBuilds == at = 0 /\ clean = 2 /\ ~Unrepaired => Builds
=============================================================================
