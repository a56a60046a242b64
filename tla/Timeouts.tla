------------------------------ MODULE Timeouts ------------------------------
(***************************************************************************)
(* How long a query may run (conn/conn.go, conn/config.go).  The tracer    *)
(* reads the timeout from a configuration that is edited while the program *)
(* runs and may be unreadable for a while: then it falls back on the last  *)
(* timeout it could read.  All connections, those of the replica too,      *)
(* share one tracer; a connection is used by one goroutine at a time.      *)
(***************************************************************************)
EXTENDS Integers

CONSTANTS
    Conn,           \* connections to the database
    Table,          \* tables that may have a timeout of their own
    Duration,       \* the timeouts one may configure
    DefaultTimeout, \* what a missing /timeout means
    Missing,        \* no such setting
    Malformed,      \* a setting that is no duration
    NoTable,        \* a query made without QueryInfo
    NoDeadline,     \* a context that never expires
    HasReplica,     \* is /replica configured?
    MaxEdits        \* bound: edits of the configuration

ASSUME TimeoutAssumption ==
    /\ Duration \subseteq Nat
    /\ DefaultTimeout \in Nat
    /\ {Missing, Malformed, NoDeadline} \cap Nat = {}
    /\ Missing # Malformed
    /\ NoTable \notin Table
    /\ HasReplica \in BOOLEAN
    /\ MaxEdits \in Nat

VARIABLES
    timeout,        \* the setting /timeout
    tableTimeout,   \* the settings /table/<table>/timeout
    setStatement,   \* the setting /set_statement_timeout
    prevTimeout,    \* timeoutTracer.prevTimeout
    conn,           \* what each connection is doing
    edits,          \* how many edits the configuration has seen
    \* history variables, read by the properties only
    configured,     \* the timeouts /timeout has stood for so far
    offered         \* the timeouts the settings of each connection's query have
                    \* held since it began

vars == <<timeout, tableTimeout, setStatement, prevTimeout, conn, edits,
          configured, offered>>
settings == <<timeout, tableTimeout, setStatement>>
history == <<configured, offered>>

Setting == Duration \cup {Missing, Malformed}

\* A connection sets itself up or runs a query.
Task == {"setup", "query"}

\* It looks for a timeout ("table", "load", "store", "fallback") and then waits
\* for the server ("running").
Busy == {"table", "load", "store", "fallback", "running"}

----------------------------------------------------------------------------
(* The configuration. *)

\* getDur(config, "/timeout", DefaultTimeout), where it returns no error.
GetTimeout(setting) == IF setting = Missing THEN DefaultTimeout ELSE setting

\* The timeouts of a setting: none when it is unreadable.
Readable(setting) == IF setting = Malformed THEN {} ELSE {GetTimeout(setting)}

\* The timeouts these settings hold for a query of table t.
Offered(general, special, t) ==
    Readable(general) \cup (IF t \in Table THEN {special[t]} \cap Duration ELSE {})

\* Somebody edits the configuration.
Edit ==
    /\ edits < MaxEdits
    /\ edits' = edits + 1
    /\ \/ timeout' \in Setting /\ UNCHANGED <<tableTimeout, setStatement>>
       \/ \E t \in Table, s \in Setting :
             /\ tableTimeout' = [tableTimeout EXCEPT ![t] = s]
             /\ UNCHANGED <<timeout, setStatement>>
       \/ setStatement' = ~setStatement /\ UNCHANGED <<timeout, tableTimeout>>
    /\ configured' = configured \cup Readable(timeout')
    /\ offered' = [k \in Conn |->
                     offered[k] \cup Offered(timeout', tableTimeout', conn[k].table)]
    /\ UNCHANGED <<prevTimeout, conn>>

----------------------------------------------------------------------------
(* Looking for a timeout. *)

Begin(k, task, phase, t) ==
    /\ conn' = [conn EXCEPT ![k] = [@ EXCEPT !.phase = phase, !.task = task,
                                             !.table = t, !.source = "none"]]
    /\ offered' = [offered EXCEPT ![k] = Offered(timeout, tableTimeout, t)]
    /\ UNCHANGED <<settings, prevTimeout, edits, configured>>

\* A new connection; AfterConnect sets its statement_timeout if told to.
Connect(k) ==
    /\ conn[k].phase = "closed"
    /\ Begin(k, "setup", IF setStatement THEN "load" ELSE "ready", NoTable)

\* TraceQueryStart of a query that touches table t, or none in particular.
StartQuery(k, t) ==
    /\ conn[k].phase = "ready"
    /\ Begin(k, "query", "table", t)

\* Mutation: a timeout of zero is taken for none.
WithPositive(value) == IF value = 0 THEN NoDeadline ELSE value

\* context.WithTimeout
WithTimeout(value) == value

Run(k, value, source) ==
    conn' = [conn EXCEPT ![k] = [@ EXCEPT !.phase = "running", !.source = source,
                                          !.value = value,
                                          !.deadline = WithTimeout(value)]]

\* loadTableTimeout: the table's own timeout, if there is a readable one.
LoadTableTimeout(k) ==
    /\ conn[k].phase = "table"
    /\ LET t == conn[k].table
       IN IF t \in Table /\ tableTimeout[t] \in Duration
          THEN Run(k, tableTimeout[t], "table")
          ELSE conn' = [conn EXCEPT ![k].phase = "load"]
    /\ UNCHANGED <<settings, prevTimeout, edits, history>>

\* Mutation: the timeout read first is the timeout for good.
LoadTimeoutOnce(k) ==
    /\ conn[k].phase = "load"
    /\ conn' = [conn EXCEPT ![k] =
                  IF prevTimeout # 0 \/ timeout = Malformed
                  THEN [@ EXCEPT !.phase = "store", !.value = prevTimeout]
                  ELSE [@ EXCEPT !.phase = "store", !.value = GetTimeout(timeout)]]
    /\ UNCHANGED <<settings, prevTimeout, edits, history>>

\* loadTimeout reads /timeout,
LoadTimeout(k) ==
    /\ conn[k].phase = "load"
    /\ conn' = [conn EXCEPT ![k] =
                  IF timeout = Malformed
                  THEN [@ EXCEPT !.phase = "fallback"]
                  ELSE [@ EXCEPT !.phase = "store", !.value = GetTimeout(timeout)]]
    /\ UNCHANGED <<settings, prevTimeout, edits, history>>

\* remembers what it has read,
StoreTimeout(k) ==
    /\ conn[k].phase = "store"
    /\ prevTimeout' = conn[k].value
    /\ Run(k, conn[k].value, "timeout")
    /\ UNCHANGED <<settings, edits, history>>

\* and falls back on what it remembers.
Fallback(k) ==
    /\ conn[k].phase = "fallback"
    /\ Run(k, prevTimeout, "fallback")
    /\ UNCHANGED <<settings, prevTimeout, edits, history>>

----------------------------------------------------------------------------
(* Waiting for the server. *)

Stop(k, phase) ==
    /\ conn' = [conn EXCEPT ![k].phase = phase,
                            ![k].statement = IF phase = "closed" THEN 0
                                             ELSE IF conn[k].task = "setup"
                                             THEN conn[k].value
                                             ELSE @]
    /\ UNCHANGED <<settings, prevTimeout, edits, history>>

\* The server answers: SET statement_timeout is in effect, or the query is
\* over, with an error perhaps.  (A SET that fails closes the connection, as a
\* deadline does.)
Respond(k) ==
    /\ conn[k].phase = "running"
    /\ conn[k].deadline # 0         \* WithTimeout(0) has expired already
    /\ Stop(k, "ready")

\* The deadline passes, and pgx closes the connection.
Expire(k) ==
    /\ conn[k].phase = "running"
    /\ conn[k].deadline # NoDeadline
    /\ Stop(k, "closed")

----------------------------------------------------------------------------
\* Mutation: the default is not applied.
OrigTimeoutRaw == timeout

\* Mutation: the tracer starts from nothing.
OrigTimeoutNone == 0

\* The timeout loadConnStrings hands to the tracer.
OrigTimeout == IF HasReplica THEN GetTimeout(timeout) ELSE 0

\* loadConnStrings fails when it cannot read /timeout.
Init ==
    /\ timeout \in Setting \ {Malformed}
    /\ tableTimeout \in [Table -> Setting]
    /\ setStatement \in BOOLEAN
    /\ prevTimeout = OrigTimeout
    /\ conn = [k \in Conn |-> [phase |-> "closed", task |-> "setup",
                               table |-> NoTable, value |-> 0, source |-> "none",
                               deadline |-> 0, statement |-> 0]]
    /\ edits = 0
    /\ configured = Readable(timeout)
    /\ offered = [k \in Conn |-> {}]

Look(k) == LoadTableTimeout(k) \/ LoadTimeout(k) \/ StoreTimeout(k) \/ Fallback(k)

Next ==
    \/ Edit
    \/ \E k \in Conn :
         \/ Connect(k)
         \/ \E t \in Table \cup {NoTable} : StartQuery(k, t)
         \/ Look(k)
         \/ Respond(k)
         \/ Expire(k)

Spec == Init /\ [][Next]_vars

\* The goroutines go on running and the timers fire; the server need not answer.
Fairness == \A k \in Conn : WF_vars(Look(k)) /\ WF_vars(Expire(k))

FairSpec == Spec /\ Fairness
----------------------------------------------------------------------------
(* Properties. *)

\* Every variable holds a value of its type.
TypeOK ==
    /\ timeout \in Setting
    /\ tableTimeout \in [Table -> Setting]
    /\ setStatement \in BOOLEAN
    /\ prevTimeout \in Nat
    /\ conn \in [Conn -> [phase : {"closed", "ready"} \cup Busy, task : Task,
                          table : Table \cup {NoTable}, value : Nat,
                          source : {"none", "table", "timeout", "fallback"},
                          deadline : Nat, statement : Nat]]
    /\ edits \in 0 .. MaxEdits
    /\ configured \subseteq Nat
    /\ offered \in [Conn -> SUBSET Nat]

\* A timeout read from the configuration was there at some moment between the
\* start of the query and the moment it was put to use, however the
\* configuration is edited and whatever the other connections read meanwhile.
\* (The table's setting and /timeout are read one after the other: a table's
\* timeout set in between may have overridden the one that is used.)
TimeoutWasOffered ==
    \A k \in Conn :
        conn[k].phase = "running" /\ conn[k].source \in {"table", "timeout"} =>
            conn[k].value \in offered[k]

\* A timeout the tracer falls back on is one /timeout has stood for, though
\* connections overwrite it for one another.
FallbackWasConfigured ==
    \A k \in Conn :
        conn[k].phase = "running" /\ conn[k].source = "fallback" =>
            conn[k].value \in configured

\* No connection stays busy forever, even if the server never answers and the
\* configuration is unreadable.
EveryQueryEnds ==
    \A k \in Conn : conn[k].phase \in Busy ~> conn[k].phase \in {"ready", "closed"}
=============================================================================
