-------------------------- MODULE Timeouts_proofs --------------------------
(***************************************************************************)
(* Theorems about Timeouts, for any number of connections and tables and   *)
(* any edits of the configuration.                                         *)
(***************************************************************************)
EXTENDS Timeouts, TLAPS

\* What a setting stands for is a duration in seconds.
LEMMA SettingTypes ==
    /\ \A s \in Setting \ {Malformed} : GetTimeout(s) \in Nat
    /\ \A s \in Setting : Readable(s) \subseteq Nat
    /\ \A s \in Setting : s # Malformed => Readable(s) = {GetTimeout(s)}
    /\ \A s \in Setting, u \in [Table -> Setting] :
          \A t : Offered(s, u, t) \subseteq Nat
BY TimeoutAssumption DEF Setting, GetTimeout, Readable, Offered

Connection ==
    [phase : {"closed", "ready"} \cup Busy, task : Task,
     table : Table \cup {NoTable}, value : Nat,
     source : {"none", "table", "timeout", "fallback"},
     deadline : Nat, statement : Nat]

LEMMA TypeInit == Init => TypeOK
<1> SUFFICES ASSUME Init PROVE TypeOK
  OBVIOUS
<1>1. timeout \in Setting /\ GetTimeout(timeout) \in Nat
  BY SettingTypes DEF Init
<1>2. prevTimeout \in Nat
  BY <1>1 DEF Init, OrigTimeout
<1>3. configured \subseteq Nat
  BY <1>1, SettingTypes DEF Init
<1>4. conn \in [Conn -> Connection]
  BY DEF Init, Connection, Task
<1> QED
  BY <1>1, <1>2, <1>3, <1>4, TimeoutAssumption DEF Init, TypeOK, Connection

LEMMA TypeNext == TypeOK /\ [Next]_vars => TypeOK'
<1> SUFFICES ASSUME TypeOK, [Next]_vars PROVE TypeOK'
  OBVIOUS
<1>c. conn \in [Conn -> Connection]
  BY DEF TypeOK, Connection
<1>1. CASE Edit
  <2>1. /\ timeout' \in Setting
        /\ tableTimeout' \in [Table -> Setting]
        /\ setStatement' \in BOOLEAN
    BY <1>1 DEF Edit, TypeOK
  <2>2. configured' \subseteq Nat
    BY <1>1, <2>1, SettingTypes DEF Edit, TypeOK
  <2>3. offered' \in [Conn -> SUBSET Nat]
    BY <1>1, <2>1, SettingTypes DEF Edit, TypeOK
  <2>4. edits' \in 0 .. MaxEdits
    BY <1>1, TimeoutAssumption DEF Edit, TypeOK
  <2> QED
    BY <1>1, <2>1, <2>2, <2>3, <2>4 DEF Edit, TypeOK
<1>2. ASSUME NEW k \in Conn, NEW task \in Task, NEW phase \in {"ready", "load", "table"},
             NEW t \in Table \cup {NoTable}, Begin(k, task, phase, t)
      PROVE  TypeOK'
  <2>1. conn' \in [Conn -> Connection]
    BY <1>2, <1>c, ZenonT(30) DEF Begin, Connection, Busy
  <2>2. offered' \in [Conn -> SUBSET Nat]
    BY <1>2, SettingTypes DEF Begin, TypeOK
  <2> QED
    BY <1>2, <2>1, <2>2 DEF Begin, TypeOK, Connection, settings
<1>3. ASSUME NEW k \in Conn, Connect(k) PROVE TypeOK'
  <2>1. (IF setStatement THEN "load" ELSE "ready") \in {"ready", "load", "table"}
    OBVIOUS
  <2>2. "setup" \in Task /\ NoTable \in Table \cup {NoTable}
    BY DEF Task
  <2> QED
    BY <1>3, <2>1, <2>2, <1>2 DEF Connect
<1>4. ASSUME NEW k \in Conn, NEW t \in Table \cup {NoTable}, StartQuery(k, t)
      PROVE  TypeOK'
  <2>1. "query" \in Task
    BY DEF Task
  <2> QED
    BY <1>4, <2>1, <1>2 DEF StartQuery
<1>5. ASSUME NEW k \in Conn, NEW v \in Nat,
             NEW source \in {"table", "timeout", "fallback"}, Run(k, v, source)
      PROVE  conn' \in [Conn -> Connection]
  BY <1>5, <1>c, ZenonT(30) DEF Run, WithTimeout, Connection, Busy
<1>6. ASSUME NEW k \in Conn, Look(k) PROVE TypeOK'
  <2>1. conn[k] \in Connection
    BY <1>c
  <2>2. CASE LoadTableTimeout(k)
    <3>1. CASE conn[k].table \in Table /\ tableTimeout[conn[k].table] \in Duration
      BY <2>2, <3>1, <1>5, TimeoutAssumption
         DEF LoadTableTimeout, TypeOK, Connection, settings, history
    <3>2. CASE ~(conn[k].table \in Table /\ tableTimeout[conn[k].table] \in Duration)
      <4>1. conn' = [conn EXCEPT ![k].phase = "load"]
        BY <2>2, <3>2 DEF LoadTableTimeout
      <4>2. conn' \in [Conn -> Connection]
        BY <4>1, <1>c DEF Connection, Busy
      <4> QED
        BY <2>2, <4>2 DEF LoadTableTimeout, TypeOK, Connection, settings, history
    <3> QED
      BY <3>1, <3>2
  <2>3. CASE LoadTimeout(k)
    <3>1. timeout # Malformed => GetTimeout(timeout) \in Nat
      BY SettingTypes DEF TypeOK
    <3>2. conn' \in [Conn -> Connection]
      <4>1. CASE timeout = Malformed
        BY <2>3, <4>1, <1>c DEF LoadTimeout, Connection, Busy
      <4>2. CASE timeout # Malformed
        <5>1. [conn[k] EXCEPT !.phase = "store", !.value = GetTimeout(timeout)]
                  \in Connection
          BY <2>1, <3>1, <4>2 DEF Connection, Busy
        <5> QED
          BY <2>3, <4>2, <5>1, <1>c DEF LoadTimeout
      <4> QED
        BY <4>1, <4>2
    <3> QED
      BY <2>3, <3>2 DEF LoadTimeout, TypeOK, Connection, settings, history
  <2>4. CASE StoreTimeout(k)
    <3>1. conn[k].value \in Nat
      BY <2>1 DEF Connection
    <3>2. conn' \in [Conn -> Connection]
      BY <2>4, <3>1, <1>5 DEF StoreTimeout
    <3> QED
      BY <2>4, <3>1, <3>2 DEF StoreTimeout, TypeOK, Connection, settings, history
  <2>5. CASE Fallback(k)
    <3>1. conn' \in [Conn -> Connection]
      BY <2>5, <1>5 DEF Fallback, TypeOK
    <3> QED
      BY <2>5, <3>1 DEF Fallback, TypeOK, Connection, settings, history
  <2> QED
    BY <1>6, <2>2, <2>3, <2>4, <2>5 DEF Look
<1>7. ASSUME NEW k \in Conn, Respond(k) \/ Expire(k) PROVE TypeOK'
  <2>1. PICK phase \in {"ready", "closed"} : Stop(k, phase)
    BY <1>7 DEF Respond, Expire
  <2>2. conn' \in [Conn -> Connection]
    <3>1. conn[k] \in Connection
      BY <1>c
    <3> DEFINE n == IF phase = "closed" THEN 0
                    ELSE IF conn[k].task = "setup" THEN conn[k].value
                    ELSE conn[k].statement
    <3>3. n \in Nat
      BY <3>1 DEF Connection
    <3>4. conn' = [conn EXCEPT ![k].phase = phase, ![k].statement = n]
      BY <2>1 DEF Stop
    <3> HIDE DEF n
    <3> QED
      BY <2>1, <3>1, <3>3, <3>4, <1>c DEF Connection
  <2> QED
    BY <2>1, <2>2 DEF Stop, TypeOK, Connection, settings, history
<1>8. CASE UNCHANGED vars
  BY <1>8 DEF vars, TypeOK
<1> QED
  BY <1>1, <1>3, <1>4, <1>6, <1>7, <1>8 DEF Next

\* Every variable of the timeout model keeps its type.
THEOREM TypeCorrect == Spec => []TypeOK
BY TypeInit, TypeNext, PTL DEF Spec

----------------------------------------------------------------------------
(* The fallback.  What the tracer remembers, and what a connection is      *)
(* about to make it remember, is something /timeout has stood for.         *)

FallbackInv ==
    /\ TypeOK
    /\ Readable(timeout) \subseteq configured
    /\ prevTimeout \in configured
    /\ \A k \in Conn : conn[k].phase = "store" => conn[k].value \in configured
    /\ FallbackWasConfigured

\* The tracer starts from the timeout the program was started with.
LEMMA FallbackInit ==
    ASSUME HasReplica
    PROVE  Init => FallbackInv
<1> SUFFICES ASSUME Init PROVE FallbackInv
  OBVIOUS
<1>1. TypeOK
  BY TypeInit
<1>2. prevTimeout \in configured /\ Readable(timeout) \subseteq configured
  BY <1>1, SettingTypes DEF Init, OrigTimeout
<1>3. \A k \in Conn : conn[k].phase = "closed"
  BY DEF Init
<1> QED
  BY <1>1, <1>2, <1>3 DEF FallbackInv, FallbackWasConfigured

LEMMA FallbackNext == FallbackInv /\ [Next]_vars => FallbackInv'
<1> SUFFICES ASSUME FallbackInv, [Next]_vars PROVE FallbackInv'
  OBVIOUS
<1>t. TypeOK /\ TypeOK'
  BY TypeNext DEF FallbackInv
<1>c. conn \in [Conn -> Connection]
  BY <1>t DEF TypeOK, Connection
<1>1. CASE Edit
  BY <1>1, <1>t DEF Edit, FallbackInv, FallbackWasConfigured
<1>2. ASSUME NEW k \in Conn, NEW t, Connect(k) \/ StartQuery(k, t)
      PROVE  FallbackInv'
  <2>1. conn'[k].phase \in {"ready", "load", "table"}
    <3>1. \A task, phase, u :
             Begin(k, task, phase, u) => conn'[k].phase = phase
      BY <1>c DEF Begin, Connection
    <3>2. CASE Connect(k)
      BY <3>1, <3>2 DEF Connect
    <3>3. CASE StartQuery(k, t)
      BY <3>1, <3>3 DEF StartQuery
    <3> QED
      BY <1>2, <3>2, <3>3
  <2>2. \A j \in Conn : j # k => conn'[j] = conn[j]
    BY <1>2, <1>c DEF Connect, StartQuery, Begin
  <2>3. UNCHANGED <<timeout, prevTimeout, configured>>
    BY <1>2 DEF Connect, StartQuery, Begin, settings
  <2> QED
    BY <1>t, <2>1, <2>2, <2>3 DEF FallbackInv, FallbackWasConfigured, Readable
<1>3. ASSUME NEW k \in Conn, LoadTableTimeout(k) PROVE FallbackInv'
  <2>1. \/ conn'[k].phase = "running" /\ conn'[k].source = "table"
        \/ conn'[k].phase = "load"
    BY <1>3, <1>c DEF LoadTableTimeout, Run, Connection
  <2>2. \A j \in Conn : j # k => conn'[j] = conn[j]
    BY <1>3, <1>c DEF LoadTableTimeout, Run
  <2>3. UNCHANGED <<timeout, prevTimeout, configured>>
    BY <1>3 DEF LoadTableTimeout, settings, history
  <2> QED
    BY <1>t, <2>1, <2>2, <2>3 DEF FallbackInv, FallbackWasConfigured, Readable
<1>4. ASSUME NEW k \in Conn, LoadTimeout(k) PROVE FallbackInv'
  <2>1. \/ conn'[k].phase = "fallback"
        \/ /\ conn'[k].phase = "store"
           /\ timeout # Malformed
           /\ conn'[k].value = GetTimeout(timeout)
    BY <1>4, <1>c DEF LoadTimeout, Connection
  <2>2. \A j \in Conn : j # k => conn'[j] = conn[j]
    BY <1>4, <1>c DEF LoadTimeout
  <2>3. UNCHANGED <<timeout, prevTimeout, configured>>
    BY <1>4 DEF LoadTimeout, settings, history
  <2>4. timeout # Malformed => GetTimeout(timeout) \in configured
    BY <1>t, SettingTypes DEF FallbackInv, TypeOK
  <2> QED
    BY <1>t, <2>1, <2>2, <2>3, <2>4 DEF FallbackInv, FallbackWasConfigured, Readable
<1>5. ASSUME NEW k \in Conn, StoreTimeout(k) PROVE FallbackInv'
  <2>1. conn'[k].phase = "running" /\ conn'[k].source = "timeout"
    BY <1>5, <1>c DEF StoreTimeout, Run, Connection
  <2>2. \A j \in Conn : j # k => conn'[j] = conn[j]
    BY <1>5, <1>c DEF StoreTimeout, Run
  <2>3. UNCHANGED <<timeout, configured>> /\ prevTimeout' \in configured
    BY <1>5 DEF StoreTimeout, FallbackInv, settings, history
  <2> QED
    BY <1>t, <2>1, <2>2, <2>3 DEF FallbackInv, FallbackWasConfigured, Readable
<1>6. ASSUME NEW k \in Conn, Fallback(k) PROVE FallbackInv'
  <2>1. conn'[k].phase = "running" /\ conn'[k].value = prevTimeout
    BY <1>6, <1>c DEF Fallback, Run, Connection
  <2>2. \A j \in Conn : j # k => conn'[j] = conn[j]
    BY <1>6, <1>c DEF Fallback, Run
  <2>3. UNCHANGED <<timeout, prevTimeout, configured>>
    BY <1>6 DEF Fallback, settings, history
  <2> QED
    BY <1>t, <2>1, <2>2, <2>3 DEF FallbackInv, FallbackWasConfigured, Readable
<1>7. ASSUME NEW k \in Conn, Respond(k) \/ Expire(k) PROVE FallbackInv'
  <2>1. conn'[k].phase \in {"ready", "closed"}
    <3>1. \A phase : Stop(k, phase) => conn'[k].phase = phase
      BY <1>c DEF Stop, Connection
    <3> QED
      BY <1>7, <3>1 DEF Respond, Expire
  <2>2. \A j \in Conn : j # k => conn'[j] = conn[j]
    BY <1>7, <1>c DEF Respond, Expire, Stop
  <2>3. UNCHANGED <<timeout, prevTimeout, configured>>
    BY <1>7 DEF Respond, Expire, Stop, settings, history
  <2> QED
    BY <1>t, <2>1, <2>2, <2>3 DEF FallbackInv, FallbackWasConfigured, Readable
<1>8. CASE UNCHANGED vars
  BY <1>8, <1>t DEF vars, FallbackInv, FallbackWasConfigured, Readable
<1> QED
  BY <1>1, <1>2, <1>3, <1>4, <1>5, <1>6, <1>7, <1>8 DEF Next, Look

\* With replicas configured the tracer never falls back on a timeout nobody
\* has configured, for any number of connections and any edits.
THEOREM FallbackCorrect ==
    ASSUME HasReplica
    PROVE  Spec => []FallbackWasConfigured
<1>1. Init => FallbackInv
  BY FallbackInit
<1>2. FallbackInv => FallbackWasConfigured
  BY DEF FallbackInv
<1> QED
  BY <1>1, <1>2, FallbackNext, PTL DEF Spec

----------------------------------------------------------------------------
(* The timeout in use.  While a connection is busy, offered has what the   *)
(* settings hold now, and so what the next of its reads may find; what it  *)
(* has read and is about to store was there when it was read.              *)

\* The timeout that connection k has read and will use.
Chosen(k) ==
    \/ conn[k].phase = "store"
    \/ conn[k].phase = "running" /\ conn[k].source \in {"table", "timeout"}

OfferedInv ==
    /\ TypeOK
    /\ \A k \in Conn : conn[k].phase \in Busy =>
          Offered(timeout, tableTimeout, conn[k].table) \subseteq offered[k]
    /\ \A k \in Conn : Chosen(k) => conn[k].value \in offered[k]

LEMMA OfferedInit == Init => OfferedInv
<1> SUFFICES ASSUME Init PROVE OfferedInv
  OBVIOUS
<1>1. \A k \in Conn : conn[k].phase = "closed"
  BY DEF Init
<1> QED
  BY <1>1, TypeInit DEF OfferedInv, Chosen, Busy

\* A step of one connection that leaves the settings and the history alone.
LEMMA OfferedStep ==
    ASSUME OfferedInv, TypeOK', NEW k \in Conn,
           \A j \in Conn : j # k => conn'[j] = conn[j],
           UNCHANGED <<settings, offered>>,
           conn'[k].table = conn[k].table,
           conn'[k].phase \in Busy => conn[k].phase \in Busy,
           Chosen(k)' => conn'[k].value \in offered[k]
    PROVE  OfferedInv'
<1>1. ASSUME NEW j \in Conn, conn'[j].phase \in Busy
      PROVE  (Offered(timeout, tableTimeout, conn[j].table) \subseteq offered[j])'
  <2>1. conn[j].phase \in Busy /\ conn'[j].table = conn[j].table
    BY <1>1
  <2> QED
    BY <2>1 DEF OfferedInv, settings, Offered, Readable
<1>2. ASSUME NEW j \in Conn, Chosen(j)'
      PROVE  (conn[j].value \in offered[j])'
  <2>1. CASE j = k
    BY <2>1, <1>2
  <2>2. CASE j # k
    BY <2>2, <1>2 DEF OfferedInv, Chosen
  <2> QED
    BY <2>1, <2>2
<1> QED
  BY <1>1, <1>2 DEF OfferedInv

LEMMA OfferedNext == OfferedInv /\ [Next]_vars => OfferedInv'
<1> SUFFICES ASSUME OfferedInv, [Next]_vars PROVE OfferedInv'
  OBVIOUS
<1>t. TypeOK /\ TypeOK'
  BY TypeNext DEF OfferedInv
<1>c. conn \in [Conn -> Connection]
  BY <1>t DEF TypeOK, Connection
<1>1. CASE Edit
  <2>1. \A k \in Conn : offered'[k] =
            offered[k] \cup Offered(timeout', tableTimeout', conn[k].table)
    BY <1>1, <1>t DEF Edit
  <2>2. conn' = conn
    BY <1>1 DEF Edit
  <2>3. ASSUME NEW k \in Conn
        PROVE  (Offered(timeout, tableTimeout, conn[k].table) \subseteq offered[k])'
    <3>1. Offered(timeout, tableTimeout, conn[k].table)' =
              Offered(timeout', tableTimeout', conn[k].table)
      BY <2>2 DEF Offered, Readable
    <3> QED
      BY <2>1, <3>1
  <2> QED
    BY <1>t, <2>1, <2>2, <2>3 DEF OfferedInv, Chosen
<1>2. ASSUME NEW k \in Conn, NEW t, Connect(k) \/ StartQuery(k, t)
      PROVE  OfferedInv'
  <2>1. \E task, u : \E phase \in {"ready", "load", "table"} :
            Begin(k, task, phase, u)
    <3>1. CASE Connect(k)
      <4>1. (IF setStatement THEN "load" ELSE "ready") \in {"ready", "load", "table"}
        OBVIOUS
      <4> QED
        BY <3>1, <4>1 DEF Connect
    <3>2. CASE StartQuery(k, t)
      BY <3>2 DEF StartQuery
    <3> QED
      BY <1>2, <3>1, <3>2
  <2>a. PICK task, u : \E phase \in {"ready", "load", "table"} : Begin(k, task, phase, u)
    BY <2>1
  <2>b. PICK phase \in {"ready", "load", "table"} : Begin(k, task, phase, u)
    BY <2>a
  <2>2. conn'[k].phase = phase /\ conn'[k].table = u
    BY <2>b, <1>c DEF Begin, Connection
  <2>3. \A j \in Conn : j # k => conn'[j] = conn[j] /\ offered'[j] = offered[j]
    BY <2>b, <1>c, <1>t DEF Begin, TypeOK
  <2>4. UNCHANGED <<timeout, tableTimeout>>
    BY <2>b DEF Begin, settings
  <2>5. offered'[k] = Offered(timeout, tableTimeout, u)
    BY <2>b, <1>t DEF Begin, TypeOK
  <2>6. ~Chosen(k)'
    BY <2>2 DEF Chosen
  <2>7. ASSUME NEW j \in Conn, conn'[j].phase \in Busy
        PROVE  (Offered(timeout, tableTimeout, conn[j].table) \subseteq offered[j])'
    <3>1. CASE j = k
      BY <3>1, <2>2, <2>4, <2>5 DEF Offered, Readable
    <3>2. CASE j # k
      BY <3>2, <2>3, <2>4, <2>7 DEF OfferedInv, Offered, Readable
    <3> QED
      BY <3>1, <3>2
  <2>8. ASSUME NEW j \in Conn, Chosen(j)'
        PROVE  (conn[j].value \in offered[j])'
    BY <2>3, <2>6, <2>8 DEF OfferedInv, Chosen
  <2> QED
    BY <1>t, <2>7, <2>8 DEF OfferedInv
<1>3. ASSUME NEW k \in Conn, LoadTableTimeout(k) PROVE OfferedInv'
  <2> DEFINE t == conn[k].table
  <2>1. \/ /\ t \in Table /\ tableTimeout[t] \in Duration
           /\ conn'[k].phase = "running" /\ conn'[k].value = tableTimeout[t]
        \/ conn'[k].phase = "load"
    BY <1>3, <1>c DEF LoadTableTimeout, Run, Connection
  <2>2. conn'[k].table = conn[k].table /\ conn[k].phase \in Busy
    BY <1>3, <1>c, ZenonT(30) DEF LoadTableTimeout, Run, Connection, Busy
  <2>3. \A j \in Conn : j # k => conn'[j] = conn[j]
    BY <1>3, <1>c DEF LoadTableTimeout, Run
  <2>4. UNCHANGED <<settings, offered>>
    BY <1>3 DEF LoadTableTimeout, settings, history
  <2>5. Chosen(k)' => conn'[k].value \in offered[k]
    <3>1. Offered(timeout, tableTimeout, t) \subseteq offered[k]
      BY <2>2 DEF OfferedInv
    <3> QED
      BY <2>1, <3>1 DEF Chosen, Offered
  <2> QED
    BY <1>t, <2>2, <2>3, <2>4, <2>5, OfferedStep
<1>4. ASSUME NEW k \in Conn, LoadTimeout(k) PROVE OfferedInv'
  <2>1. \/ conn'[k].phase = "fallback"
        \/ /\ conn'[k].phase = "store" /\ timeout # Malformed
           /\ conn'[k].value = GetTimeout(timeout)
    BY <1>4, <1>c DEF LoadTimeout, Connection
  <2>2. conn'[k].table = conn[k].table /\ conn[k].phase \in Busy
    BY <1>4, <1>c DEF LoadTimeout, Connection, Busy
  <2>3. \A j \in Conn : j # k => conn'[j] = conn[j]
    BY <1>4, <1>c DEF LoadTimeout
  <2>4. UNCHANGED <<settings, offered>>
    BY <1>4 DEF LoadTimeout, settings, history
  <2>5. Chosen(k)' => conn'[k].value \in offered[k]
    <3>1. Readable(timeout) \subseteq offered[k]
      BY <2>2 DEF OfferedInv, Offered
    <3>2. timeout # Malformed => GetTimeout(timeout) \in offered[k]
      BY <3>1 DEF Readable
    <3> QED
      BY <2>1, <3>2 DEF Chosen
  <2> QED
    BY <1>t, <2>2, <2>3, <2>4, <2>5, OfferedStep
<1>5. ASSUME NEW k \in Conn, StoreTimeout(k) PROVE OfferedInv'
  <2>1. conn'[k].value = conn[k].value /\ Chosen(k)
    BY <1>5, <1>c DEF StoreTimeout, Run, Connection, Chosen
  <2>2. conn'[k].table = conn[k].table /\ conn[k].phase \in Busy
    BY <1>5, <1>c DEF StoreTimeout, Run, Connection, Busy
  <2>3. \A j \in Conn : j # k => conn'[j] = conn[j]
    BY <1>5, <1>c DEF StoreTimeout, Run
  <2>4. UNCHANGED <<settings, offered>>
    BY <1>5 DEF StoreTimeout, settings, history
  <2> QED
    BY <1>t, <2>1, <2>2, <2>3, <2>4, OfferedStep DEF OfferedInv
<1>6. ASSUME NEW k \in Conn, Fallback(k) PROVE OfferedInv'
  <2>1. ~Chosen(k)'
    BY <1>6, <1>c DEF Fallback, Run, Connection, Chosen
  <2>2. conn'[k].table = conn[k].table /\ conn[k].phase \in Busy
    BY <1>6, <1>c DEF Fallback, Run, Connection, Busy
  <2>3. \A j \in Conn : j # k => conn'[j] = conn[j]
    BY <1>6, <1>c DEF Fallback, Run
  <2>4. UNCHANGED <<settings, offered>>
    BY <1>6 DEF Fallback, settings, history
  <2> QED
    BY <1>t, <2>1, <2>2, <2>3, <2>4, OfferedStep
<1>7. ASSUME NEW k \in Conn, Respond(k) \/ Expire(k) PROVE OfferedInv'
  <2>1. PICK phase \in {"ready", "closed"} : Stop(k, phase)
    BY <1>7 DEF Respond, Expire
  <2>2. conn'[k].phase = phase /\ conn'[k].table = conn[k].table
    BY <2>1, <1>c DEF Stop, Connection
  <2>3. \A j \in Conn : j # k => conn'[j] = conn[j]
    BY <2>1, <1>c DEF Stop
  <2>4. UNCHANGED <<settings, offered>>
    BY <2>1 DEF Stop, settings, history
  <2>5. phase \notin Busy /\ ~Chosen(k)'
    BY <2>1, <2>2 DEF Busy, Chosen
  <2> QED
    BY <1>t, <2>2, <2>3, <2>4, <2>5, OfferedStep
<1>8. CASE UNCHANGED vars
  BY <1>8, <1>t DEF vars, OfferedInv, Chosen, Offered, Readable
<1> QED
  BY <1>1, <1>2, <1>3, <1>4, <1>5, <1>6, <1>7, <1>8 DEF Next, Look

\* A timeout that a query reads from the configuration was there at some moment
\* since the query began, for any number of connections and any edits in between.
THEOREM OfferedCorrect == Spec => []TimeoutWasOffered
<1>1. OfferedInv => TimeoutWasOffered
  BY DEF OfferedInv, TimeoutWasOffered, Chosen
<1> QED
  BY <1>1, OfferedInit, OfferedNext, PTL DEF Spec
=============================================================================
