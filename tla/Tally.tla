------------------------------- MODULE Tally -------------------------------
(***************************************************************************)
(* What Inc, Dec and Add promise, without records, statements or columns.  *)
(* A client asks for increments.  They are added to the counters of a row  *)
(* together and once, on top of what other clients have added; only if the *)
(* call that added them is never acknowledged may they be added again.     *)
(***************************************************************************)
EXTENDS Integers

CONSTANTS
    Client,
    Key,
    Counter,
    NoRow           \* no row is stored under a key

Change == [Counter -> Int]
NoChange == [m \in Counter |-> 0]
Sum(x, y) == [m \in Counter |-> x[m] + y[m]]
Minus(x, y) == [m \in Counter |-> x[m] - y[m]]

VARIABLES
    count,      \* the counters of the row under each key
    asked,      \* increments asked for and not acknowledged
    pending,    \* those of them that the next call will add
    taken,      \* those that a call has added and not acknowledged yet
    adrift      \* additions given up by their callers

vars == <<count, asked, pending, taken, adrift>>
ledger == <<asked, pending, taken>>

----------------------------------------------------------------------------
(* The client. *)

Ask(c) ==
    /\ taken[c] = NoChange
    /\ asked'[c] \in Change
    /\ asked' = [asked EXCEPT ![c] = asked'[c]]
    /\ pending' = [pending EXCEPT ![c] = Sum(@, Minus(asked'[c], asked[c]))]
    /\ UNCHANGED <<count, taken, adrift>>

\* The client begins with another record.
Forget(c) ==
    /\ taken[c] = NoChange
    /\ asked' = [asked EXCEPT ![c] = NoChange]
    /\ pending' = [pending EXCEPT ![c] = NoChange]
    /\ UNCHANGED <<count, taken, adrift>>

\* The call returns nil.
Confirm(c) ==
    /\ asked' = [asked EXCEPT ![c] = Minus(@, taken[c])]
    /\ taken' = [taken EXCEPT ![c] = NoChange]
    /\ UNCHANGED <<count, pending, adrift>>

\* The call fails after its increments were added: they will be added again.
Doubt(c) ==
    /\ pending' = [pending EXCEPT ![c] = Sum(@, taken[c])]
    /\ taken' = [taken EXCEPT ![c] = NoChange]
    /\ UNCHANGED <<count, asked, adrift>>

\* The call fails, and what it would have added may still be added.
Abandon(c) ==
    /\ \E e \in adrift' :
          /\ e.add = pending[c]
          /\ adrift' = adrift \cup {e}
    /\ UNCHANGED <<count, ledger>>

----------------------------------------------------------------------------
(* The table. *)

\* x is added to the counters of one row, or a row appears: the storage, or
\* the client that inserts it, says where its counters start.
Added(x) ==
    \E k \in Key :
        IF count[k] = NoRow
        THEN /\ count'[k] \in Change
             /\ count' = [count EXCEPT ![k] = count'[k]]
        ELSE count' = [count EXCEPT ![k] = Sum(@, x)]

Take(c) ==
    /\ Added(pending[c])
    /\ taken' = [taken EXCEPT ![c] = pending[c]]
    /\ pending' = [pending EXCEPT ![c] = NoChange]
    /\ UNCHANGED <<asked, adrift>>

\* An addition without a caller is made once, or turns out to find no row.
Late ==
    \E e \in adrift :
        /\ adrift' = adrift \ {e}
        /\ Added(e.add) \/ UNCHANGED count
        /\ UNCHANGED ledger

Remove ==
    \E k \in Key :
        /\ count' = [count EXCEPT ![k] = NoRow]
        /\ UNCHANGED <<ledger, adrift>>

----------------------------------------------------------------------------
Init ==
    /\ count \in [Key -> Change \cup {NoRow}]
    /\ asked = [c \in Client |-> NoChange]
    /\ pending = [c \in Client |-> NoChange]
    /\ taken = [c \in Client |-> NoChange]
    /\ adrift = {}

Next ==
    \/ \E c \in Client :
         Ask(c) \/ Forget(c) \/ Take(c) \/ Confirm(c) \/ Doubt(c) \/ Abandon(c)
    \/ Late
    \/ Remove

Spec == Init /\ [][Next]_vars
=============================================================================
