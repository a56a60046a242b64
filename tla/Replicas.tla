------------------------------ MODULE Replicas ------------------------------
(***************************************************************************)
(* Records whose SELECTs may be answered by a replica.  A client changes a *)
(* record that was stale when it was read, and writes it to the master.    *)
(*                                                                         *)
(* Connect has the choice between master and replica: SELECTs make it, by  *)
(* their options and their table's configuration, and nothing else does.   *)
(***************************************************************************)
EXTENDS Counting

VARIABLES
    replica,    \* the row the replica has under each key
    \* history variable, read by the properties only
    during      \* the counters the master has had since each client's call

replicaVars == <<vars, replica, during>>

----------------------------------------------------------------------------
\* Mutation: Update, too, reads the counters of an unchanged record where
\* SELECTs are read.
RoutedRefresh(s) == s.op \in {"Select", "Refresh"}

\* The statements that go through ReplicaByOpt.
Routed(s) == s.op = "Select"

\* The replica answers in place of the master.
ReadReplica(c) ==
    /\ call[c].phase = "sent"
    /\ Routed(call[c].stmt)
    /\ LET k == call[c].stmt.key
           status == IF replica[k] = NoRow THEN "norow" ELSE "row"
       IN call' = [call EXCEPT ![c] =
                     [phase |-> "answered", stmt |-> call[c].stmt,
                      reply |-> Answer(status, k, replica[k], NoChange)]]
    /\ UNCHANGED <<storage, rec, calls, history, replica>>

\* The replica replays what the master has done to a row.
Replicate(k) ==
    /\ replica' = [replica EXCEPT ![k] = db[k]]
    /\ UNCHANGED vars

\* The moments of a call: from when it is made until it returns.
Remember ==
    during' = [c \in Client |-> IF call'[c] = Idle THEN {}
                                ELSE during[c] \cup {Count'}]

ReplicaInit ==
    /\ Init
    /\ replica = db
    /\ during = [c \in Client |-> {}]

ReplicaNext ==
    /\ \/ Next /\ UNCHANGED replica
       \/ \E c \in Client : ReadReplica(c)
       \/ \E k \in Key : Replicate(k)
    /\ Remember

ReplicaSpec == ReplicaInit /\ [][ReplicaNext]_replicaVars

----------------------------------------------------------------------------
(* Properties. *)

\* When Update, FullUpdate or an upserting Insert returns nil, the record's
\* counters are those its row had in the master at one moment of the call: a
\* program may act on them, however stale its record was before.
CountersWereCurrent ==
    [][\A c \in Client :
          LET s == call[c].stmt
          IN (/\ Return(c)
              /\ Outcome(s, call[c].reply) = "nil"
              /\ s.op \in Stored \cup {"Refresh"}
              /\ s.op = "Insert" => Upsert(Table))
             => \E count \in during[c] :
                   count[rec'[c].key] = [m \in Counter |-> rec'[c].data[m]]
      ]_replicaVars
=============================================================================
