------------------------------ MODULE Connect ------------------------------
(***************************************************************************)
(* The master and the replica(s): how a program connects to them (NewConn, *)
(* NewPool in conn/conn.go, LoadConnConfigs and LoadPoolConfigs in         *)
(* conn/config.go) and which of them a query is sent to (ReplicaByOpt, and *)
(* the Select methods and writers of the generated code).                  *)
(*                                                                         *)
(* A program holds a handle on the master and perhaps one on the replicas. *)
(* The handle of a Conn is one connection, made by NewConn and not made    *)
(* again once it is lost; that of a Pool connects whenever a query finds   *)
(* no idle connection.  Replicas copy the master's writes some time later. *)
(*                                                                         *)
(* External: pgx tries the hosts of a connection string in their order and *)
(* closes a connection whose query failed or whose host went away.         *)
(***************************************************************************)
EXTENDS Integers, SequencesExt

CONSTANTS
    Client,         \* goroutines
    Main,           \* the one that connects; the only one with a Conn
    Master,         \* the host /host names
    Listed,         \* the hosts /replica names, in this order
    MaxWrites,      \* bound: writes
    MaxFaults,      \* bound: hosts going away
    MaxEdits        \* bound: edits of force_replica_usage

ASSUME ConnectAssumption ==
    /\ Main \in Client
    /\ Listed \in Seq(Range(Listed)) \ {<<>>}
    /\ Master \notin Range(Listed)
    /\ MaxWrites \in Nat
    /\ MaxFaults \in Nat
    /\ MaxEdits \in Nat

Host == {Master} \cup Range(Listed)
Handle == {"master", "replica"}

VARIABLES
    kind,       \* does the program use a Conn or a Pool?
    config,     \* the settings
    up,         \* hosts that can be reached
    version,    \* how many writes each host has
    app,        \* "start", "opening", "open" or "failed"
    hosts,      \* the hosts of each handle's connection string
    held,       \* the handles in the value NewConn or NewPool returned
    conns,      \* the hosts each handle has connections to
    task,       \* what each goroutine is doing
    faults,     \* how many hosts have gone away
    edits,      \* how many edits the configuration has seen
    \* history variables, read by the properties only
    acked,      \* the version each goroutine's last write made
    down        \* hosts that could not be reached at some time since the
                \* goroutine began to connect, if it does

vars == <<kind, config, up, version, app, hosts, held, conns, task, faults,
          edits, acked, down>>
program == <<kind, app, hosts, held>>
world == <<config, up, version, faults, edits>>

Idle == [phase |-> "idle"]

----------------------------------------------------------------------------
(* The configuration. *)

Failure == [ok |-> FALSE, hosts |-> [h \in Handle |-> <<>>]]

\* Mutation: the replicas only.
WithoutMaster(list) == list

\* The hosts of the replica's connection string: the master comes last.
ReplicaHosts(list) == Append(list, Master)

\* Any mandatory setting missing, or any setting malformed, is an error; a
\* missing /replica is not.
LoadConnStrings(c) ==
    IF c.replica = "malformed" THEN Failure
    ELSE [ok |-> TRUE,
          hosts |-> [h \in Handle |->
                       IF h = "master" THEN <<Master>>
                       ELSE IF c.replica = "missing" THEN <<>>
                       ELSE ReplicaHosts(Listed)]]

LoadPoolConnStrings(c) ==
    IF c.pool = "malformed" THEN Failure ELSE LoadConnStrings(c)

HasReplica == hosts.replica # <<>>

----------------------------------------------------------------------------
(* Connecting. *)

Dialing(job, h) == [phase |-> "dial", job |-> job, handle |-> h, next |-> 1]
Running(job, h, host) ==
    [phase |-> "run", job |-> job, handle |-> h, host |-> host]

\* c begins to connect, or does what t says.
Begin(c, t) ==
    /\ task' = [task EXCEPT ![c] = t]
    /\ down' = [down EXCEPT ![c] = IF t.phase = "dial" THEN Host \ up ELSE {}]

\* NewConn makes the connections before it returns; NewPool does not.
New ==
    /\ app = "start"
    /\ LET loaded == IF kind = "Conn" THEN LoadConnStrings(config)
                     ELSE LoadPoolConnStrings(config)
       IN /\ hosts' = loaded.hosts
          /\ \/ /\ ~loaded.ok
                /\ app' = "failed"
                /\ UNCHANGED <<held, task, down>>
             \/ /\ loaded.ok /\ kind = "Pool"
                /\ app' = "open"
                /\ held' = {h \in Handle : loaded.hosts[h] # <<>>}
                /\ UNCHANGED <<task, down>>
             \/ /\ loaded.ok /\ kind = "Conn"
                /\ app' = "opening"
                /\ Begin(Main, Dialing([op |-> "connect"], "master"))
                /\ UNCHANGED held
    /\ UNCHANGED <<world, kind, conns, acked>>

\* Mutation: the master's connection is dropped.
HeldNothing(h) == {}

\* What NewConn returns beside the error when it cannot connect h.
HeldAfterError(h) == IF h = "master" THEN {} ELSE {"master"}

\* Mutation: replicaConf is not compared with nil.
OpenedUnchecked(c, h) ==
    IF h = "master"
    THEN /\ Begin(c, Dialing([op |-> "connect"], "replica"))
         /\ UNCHANGED <<app, held>>
    ELSE /\ Begin(c, Idle)
         /\ app' = "open"
         /\ held' = {g \in Handle : hosts[g] # <<>>}

\* NewConn is connected to h, and goes on with the replica or returns.
Opened(c, h) ==
    IF h = "master" /\ HasReplica
    THEN /\ Begin(c, Dialing([op |-> "connect"], "replica"))
         /\ UNCHANGED <<app, held>>
    ELSE /\ Begin(c, Idle)
         /\ app' = "open"
         /\ held' = {g \in Handle : hosts[g] # <<>>}

\* The call of c returns an error.
GiveUp(c) ==
    /\ Begin(c, Idle)
    /\ IF task[c].job.op = "connect"
       THEN app' = "failed" /\ held' = HeldAfterError(task[c].handle)
       ELSE UNCHANGED <<app, held>>

\* The host c tries next.
Tried(c) == hosts[task[c].handle][task[c].next]

\* It answers.
Connected(c) ==
    /\ task[c].phase = "dial"
    /\ Tried(c) \in up
    /\ conns' = [conns EXCEPT ![task[c].handle] = @ \cup {Tried(c)}]
    /\ IF task[c].job.op = "connect"
       THEN Opened(c, task[c].handle)
       ELSE /\ Begin(c, Running(task[c].job, task[c].handle, Tried(c)))
            /\ UNCHANGED <<app, held>>
    /\ UNCHANGED <<world, kind, hosts, acked>>

\* It does not, and another follows.
Skip(c) ==
    /\ task[c].phase = "dial"
    /\ Tried(c) \notin up
    /\ task[c].next < Len(hosts[task[c].handle])
    /\ task' = [task EXCEPT ![c].next = @ + 1]
    /\ UNCHANGED <<world, program, conns, acked, down>>

\* It does not, and was the last.
Refused(c) ==
    /\ task[c].phase = "dial"
    /\ Tried(c) \notin up
    /\ task[c].next = Len(hosts[task[c].handle])
    /\ GiveUp(c)
    /\ UNCHANGED <<world, kind, hosts, conns, acked>>

----------------------------------------------------------------------------
(* Queries. *)

\* NewSelectOptions: s holds the arguments of the WithReplica options given.
SelectOptions(s) == [useReplica |-> TRUE \in s, useMaster |-> FALSE \in s]

\* (*Conn).Replica, (*Pool).Replica
Replica == IF HasReplica THEN "replica" ELSE "master"

\* ReplicaPerTable
ReplicaPerTable ==
    IF HasReplica /\ config.force THEN "replica" ELSE "master"

\* Mutation: WithReplica(true) has the last word.
ReplicaByOptReplicaFirst(db, opt) ==
    IF db # "handle" THEN "master"
    ELSE IF opt.useReplica THEN Replica
    ELSE IF opt.useMaster THEN "master"
    ELSE ReplicaPerTable

\* ReplicaByOpt: a transaction, made by the master, is no replicaDB.
ReplicaByOpt(db, opt) ==
    IF opt.useMaster \/ db # "handle" THEN "master"
    ELSE IF opt.useReplica THEN Replica
    ELSE ReplicaPerTable

\* A goroutine that may make a call.
Free(c) ==
    /\ app = "open"
    /\ task[c].phase = "idle"
    /\ kind = "Conn" => c = Main

\* The query goes to a connection the handle has, or a Pool makes one.  (That of
\* a Conn returns an error once its connection is lost, and nothing changes.)
Query(c, job, h) ==
    /\ Free(c)
    /\ \/ \E host \in conns[h] : Begin(c, Running(job, h, host))
       \/ kind = "Pool" /\ Begin(c, Dialing(job, h))
    /\ UNCHANGED <<world, program, conns, acked>>

\* The reads that need not be stale: part of a transaction, or asked of the
\* master, or not asked of the replica, or there is none.  Not part of the
\* program.
NotStale(db, s) ==
    \/ db = "tx"
    \/ FALSE \in s
    \/ s = {} /\ ~config.force
    \/ ~HasReplica

\* SelectBy<Index>, with the options WithReplica(r) for r in s
Select(c, db, s) ==
    Query(c, [op |-> "read", notStale |-> NotStale(db, s)],
          ReplicaByOpt(db, SelectOptions(s)))

\* Insert, Update, Delete...: always dao.db itself.
Write(c) == Query(c, [op |-> "write"], "master")

ServeRead(c) ==
    /\ task[c].phase = "run" /\ task[c].job.op = "read"
    /\ Begin(c, Idle)
    /\ UNCHANGED <<world, program, conns, acked>>

\* The host executes a write, and c may hear of it.
ServeWrite(c) ==
    /\ task[c].phase = "run" /\ task[c].job.op = "write"
    /\ version[task[c].host] < MaxWrites
    /\ version' = [version EXCEPT ![task[c].host] = @ + 1]
    /\ task' = [task EXCEPT ![c].job =
                  [op |-> "written", version |-> version'[task[c].host]]]
    /\ UNCHANGED <<program, config, up, conns, faults, edits, acked, down>>

Acknowledge(c) ==
    /\ task[c].phase = "run" /\ task[c].job.op = "written"
    /\ acked' = [acked EXCEPT ![c] = task[c].job.version]
    /\ Begin(c, Idle)
    /\ UNCHANGED <<world, program, conns>>

\* The call fails, its deadline passed perhaps.  A Pool may have another
\* connection to the same host.
Fail(c) ==
    /\ task[c].phase # "idle"
    /\ GiveUp(c)
    /\ \/ UNCHANGED conns
       \/ /\ task[c].phase = "run"
          /\ conns' = [conns EXCEPT ![task[c].handle] = @ \ {task[c].host}]
    /\ kind = "Conn" /\ task[c].phase = "run" =>
          task[c].host \notin conns'[task[c].handle]
    /\ UNCHANGED <<world, kind, hosts, acked>>

----------------------------------------------------------------------------
(* The hosts and the configuration. *)

Crash(host) ==
    /\ host \in up
    /\ faults < MaxFaults
    /\ faults' = faults + 1
    /\ up' = up \ {host}
    /\ conns' = [h \in Handle |-> conns[h] \ {host}]
    /\ task' = [c \in Client |->
                  IF task[c].phase = "run" /\ task[c].host = host THEN Idle
                  ELSE task[c]]
    /\ down' = [c \in Client |->
                  IF task[c].phase = "dial" THEN down[c] \cup {host} ELSE {}]
    /\ UNCHANGED <<program, config, version, edits, acked>>

Recover(host) ==
    /\ host \notin up
    /\ up' = up \cup {host}
    /\ UNCHANGED <<program, config, version, conns, task, faults, edits, acked,
                   down>>

Replicate(host) ==
    /\ {host, Master} \subseteq up
    /\ version[host] < version[Master]
    /\ version' = [version EXCEPT ![host] = @ + 1]
    /\ UNCHANGED <<program, config, up, conns, task, faults, edits, acked, down>>

\* The other settings are read once, by New.
Edit ==
    /\ edits < MaxEdits
    /\ edits' = edits + 1
    /\ config' = [config EXCEPT !.force = ~@]
    /\ UNCHANGED <<program, up, version, conns, task, faults, acked, down>>

----------------------------------------------------------------------------
Init ==
    /\ kind \in {"Conn", "Pool"}
    /\ config \in [replica : {"listed", "missing", "malformed"},
                   pool : {"fine", "malformed"}, force : {FALSE}]
    /\ kind = "Conn" => config.pool = "fine"      \* it reads no such setting
    /\ up \in SUBSET Host
    /\ version = [host \in Host |-> 0]
    /\ app = "start"
    /\ hosts = [h \in Handle |-> <<>>]
    /\ held = {}
    /\ conns = [h \in Handle |-> {}]
    /\ task = [c \in Client |-> Idle]
    /\ faults = 0
    /\ edits = 0
    /\ acked = [c \in Client |-> 0]
    /\ down = [c \in Client |-> {}]

Call(c) ==
    \/ \E db \in {"handle", "tx"}, s \in SUBSET BOOLEAN : Select(c, db, s)
    \/ Write(c)

Step(c) ==
    \/ Call(c)
    \/ Connected(c)
    \/ Skip(c)
    \/ Refused(c)
    \/ ServeRead(c)
    \/ ServeWrite(c)
    \/ Acknowledge(c)
    \/ Fail(c)

Next ==
    \/ New
    \/ \E c \in Client : Step(c)
    \/ \E host \in Host : Crash(host) \/ Recover(host) \/ Replicate(host)
    \/ Edit

Spec == Init /\ [][Next]_vars

----------------------------------------------------------------------------
(* Properties. *)

\* Every variable holds a value of its type; a goroutine that connects has a
\* host to try, and a query runs on a connection its handle has.
TypeOK ==
    /\ app \in {"start", "opening", "open", "failed"}
    /\ hosts \in [Handle -> Seq(Host)]
    /\ held \subseteq Handle
    /\ up \subseteq Host
    /\ version \in [Host -> 0 .. MaxWrites]
    /\ conns \in [Handle -> SUBSET Host]
    /\ \A c \in Client :
          /\ task[c].phase \in {"idle", "dial", "run"}
          /\ task[c].phase = "dial" =>
                task[c].next \in 1 .. Len(hosts[task[c].handle])
          /\ task[c].phase = "run" => task[c].host \in up
    /\ acked \in [Client -> 0 .. MaxWrites]
    /\ down \in [Client -> SUBSET Host]

\* A SELECT that asks for the master (WithReplica(false), or no option and no
\* force_replica_usage), belongs to a transaction or has no replica to go to
\* sees all the writes its goroutine has been told were done, whatever hosts
\* have gone away and whatever connections were made meanwhile.
ReadsOwnWrites ==
    [][\A c \in Client :
          ServeRead(c) /\ task[c].job.notStale
          => version[task[c].host] >= acked[c]]_vars

\* conn/doc.go: the next host of the list is tried when the one before has
\* failed, and the master when all the replicas have.  So a connection to a
\* host means that those before it were unreachable at some time since, and
\* finding none means that the master was.
DialsInOrder ==
    [][\A c \in Client :
          LET list == hosts[task[c].handle]
          IN /\ Connected(c) =>
                   \A j \in 1 .. task[c].next - 1 : list[j] \in down[c]
             /\ Refused(c) => Master \in down[c]]_vars

\* Once NewConn has returned, with an error or not, the caller holds every
\* connection that is open, and may close it.
CallerHoldsConnections ==
    app \in {"open", "failed"} =>
        \A h \in Handle : conns[h] # {} => h \in held
=============================================================================
