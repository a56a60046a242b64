--------------------------- MODULE Connect_proofs ---------------------------
(***************************************************************************)
(* Theorems about Connect, for any number of goroutines, any list of       *)
(* replicas and any number of writes, faults and edits.                    *)
(***************************************************************************)
EXTENDS Connect, TLAPS

LEMMA HostTypes ==
    /\ Main \in Client
    /\ Master \in Host
    /\ Listed \in Seq(Host)
    /\ <<Master>> \in Seq(Host)
    /\ <<>> \in Seq(Host)
    /\ <<Master>> # <<>> /\ Len(<<Master>>) = 1 /\ <<Master>>[1] = Master
    /\ ReplicaHosts(Listed) \in Seq(Host)
    /\ ReplicaHosts(Listed) # <<>>
    /\ "master" \in Handle /\ "replica" \in Handle /\ "master" # "replica"
<1>1. Listed \in Seq(Host)
  BY ConnectAssumption DEF Host
<1>2. Master \in Host
  BY DEF Host
<1> QED
  BY <1>1, <1>2, ConnectAssumption DEF ReplicaHosts, Handle

DialTask(job, h, next) ==
    [phase |-> "dial", job |-> job, handle |-> h, next |-> next]

\* What is true of a goroutine that does t.
Sound(t) ==
    /\ t.phase \in {"idle", "dial", "run"}
    /\ t.phase # "idle" =>
          /\ t.handle \in Handle
          /\ hosts[t.handle] # <<>>
          /\ t.job.op \in {"connect", "read", "write", "written"}
          /\ t.job.op = "read" /\ t.job.notStale => t.handle = "master"
          /\ t.job.op \in {"write", "written"} => t.handle = "master"
          /\ t.job.op = "written" => t.job.version \in 0 .. version[Master]
          /\ t.job.op = "connect" <=> app = "opening"
    /\ t.phase = "dial" =>
          /\ t = DialTask(t.job, t.handle, t.next)
          /\ t.next \in 1 .. Len(hosts[t.handle])
    /\ t.phase = "run" =>
          /\ t = Running(t.job, t.handle, t.host)
          /\ t.host \in up
          /\ t.handle = "master" => t.host = Master

Types ==
    /\ app \in {"start", "opening", "open", "failed"}
    /\ hosts \in [Handle -> Seq(Host)]
    /\ held \subseteq Handle
    /\ up \subseteq Host
    /\ version \in [Host -> 0 .. MaxWrites]
    /\ conns \in [Handle -> SUBSET Host]
    /\ task = [c \in Client |-> task[c]]
    /\ acked \in [Client -> 0 .. MaxWrites]
    /\ down \in [Client -> SUBSET Host]

\* The master's handle knows no other host, so whoever uses it sees all
\* acknowledged writes.
MasterInv ==
    /\ hosts["master"] \in {<<>>, <<Master>>}
    /\ app \in {"opening", "open"} => hosts["master"] = <<Master>>
    /\ conns["master"] \subseteq {Master}
    /\ \A h \in Handle : conns[h] \subseteq up
    /\ \A h \in Handle : hosts[h] = <<>> => conns[h] = {}
    /\ \A c \in Client : acked[c] <= version[Master]
    /\ \A c \in Client : Sound(task[c])

\* What NewConn and NewPool have opened and what they return.
HeldInv ==
    /\ app \in {"start", "failed"} =>
          \A c \in Client : task[c].phase = "idle"
    /\ app = "start" => \A h \in Handle : conns[h] = {}
    /\ app = "opening" =>
          \A c \in Client : task[c].phase # "idle" =>
             /\ c = Main
             /\ task[c].phase = "dial"
             /\ conns["replica"] = {}
             /\ task[c].handle = "master" => conns["master"] = {}
    /\ app = "opening" => task[Main].phase # "idle"
    /\ app = "open" => held = {h \in Handle : hosts[h] # <<>>}
    /\ app = "failed" => \A h \in Handle : conns[h] # {} => h \in held

Inv == Types /\ MasterInv /\ HeldInv

LEMMA InvInit == Init => Inv
<1> SUFFICES ASSUME Init PROVE Inv
  OBVIOUS
<1>1. Types
  BY HostTypes, ConnectAssumption DEF Init, Types
<1>2. MasterInv
  BY HostTypes, ConnectAssumption DEF Init, MasterInv, Sound, Idle
<1>3. HeldInv
  BY DEF Init, HeldInv, Idle
<1> QED
  BY <1>1, <1>2, <1>3 DEF Inv

\* A goroutine that begins something leaves the others alone.
LEMMA BeginEffect ==
    ASSUME Types, NEW c \in Client, NEW t, Begin(c, t)
    PROVE  /\ task' = [d \in Client |-> task'[d]]
           /\ task'[c] = t
           /\ \A d \in Client \ {c} : task'[d] = task[d]
           /\ down' \in [Client -> SUBSET Host]
BY DEF Types, Begin

LEMMA TaskFields ==
    ASSUME NEW job, NEW h, NEW host
    PROVE  /\ Idle.phase = "idle"
           /\ Dialing(job, h).phase = "dial"
           /\ Dialing(job, h).job = job
           /\ Dialing(job, h).handle = h
           /\ Dialing(job, h).next = 1
           /\ Dialing(job, h) = DialTask(job, h, 1)
           /\ Running(job, h, host).phase = "run"
           /\ Running(job, h, host).job = job
           /\ Running(job, h, host).handle = h
           /\ Running(job, h, host).host = host
BY DEF Idle, Dialing, DialTask, Running

\* What loading the configuration gives.
LEMMA LoadTypes ==
    ASSUME NEW loaded \in {LoadConnStrings(config), LoadPoolConnStrings(config)}
    PROVE  /\ loaded.ok \in BOOLEAN
           /\ loaded.hosts \in [Handle -> Seq(Host)]
           /\ loaded.hosts["master"] \in {<<>>, <<Master>>}
           /\ loaded.ok => loaded.hosts["master"] = <<Master>>
<1>1. CASE loaded = Failure
  BY <1>1, HostTypes DEF Failure
<1>2. ASSUME NEW list \in Seq(Host),
             loaded = [ok |-> TRUE,
                       hosts |-> [h \in Handle |->
                                    IF h = "master" THEN <<Master>> ELSE list]]
      PROVE  /\ loaded.ok \in BOOLEAN
             /\ loaded.hosts \in [Handle -> Seq(Host)]
             /\ loaded.hosts["master"] = <<Master>>
  BY <1>2, HostTypes
<1> QED
  BY <1>1, <1>2, HostTypes DEF LoadConnStrings, LoadPoolConnStrings

LEMMA InvNew == Inv /\ New => Inv'
<1> SUFFICES ASSUME Inv, New PROVE Inv'
  OBVIOUS
<1> USE DEF Inv
<1> DEFINE loaded == IF kind = "Conn" THEN LoadConnStrings(config)
                     ELSE LoadPoolConnStrings(config)
<1>l. loaded \in {LoadConnStrings(config), LoadPoolConnStrings(config)}
  OBVIOUS
<1> HIDE DEF loaded
<1>1. /\ loaded.ok \in BOOLEAN
      /\ loaded.hosts \in [Handle -> Seq(Host)]
      /\ loaded.hosts["master"] \in {<<>>, <<Master>>}
      /\ loaded.ok => loaded.hosts["master"] = <<Master>>
  BY <1>l, LoadTypes
<1>2. /\ app = "start"
      /\ hosts' = loaded.hosts
      /\ UNCHANGED <<world, kind, conns, acked>>
      /\ \/ ~loaded.ok /\ app' = "failed" /\ UNCHANGED <<held, task, down>>
         \/ /\ loaded.ok /\ kind = "Pool" /\ app' = "open"
            /\ held' = {h \in Handle : loaded.hosts[h] # <<>>}
            /\ UNCHANGED <<task, down>>
         \/ /\ loaded.ok /\ kind = "Conn" /\ app' = "opening"
            /\ Begin(Main, Dialing([op |-> "connect"], "master"))
            /\ UNCHANGED held
  BY DEF New, loaded
<1>3. \A h \in Handle : conns[h] = {}
  BY <1>2 DEF HeldInv
<1>4. \A c \in Client : task[c].phase = "idle"
  BY <1>2 DEF HeldInv
<1>5. CASE UNCHANGED <<task, down>> /\ app' # "opening"
  <2>1. Types'
    BY <1>1, <1>2, <1>5 DEF Types, world
  <2>2. MasterInv'
    BY <1>1, <1>2, <1>3, <1>4, <1>5 DEF MasterInv, Types, Sound, world
  <2>3. HeldInv'
    BY <1>1, <1>2, <1>3, <1>4, <1>5 DEF HeldInv, world
  <2> QED
    BY <2>1, <2>2, <2>3
<1>6. CASE /\ loaded.ok /\ app' = "opening" /\ UNCHANGED held
           /\ Begin(Main, Dialing([op |-> "connect"], "master"))
  <2>1. /\ task' = [d \in Client |-> task'[d]]
        /\ task'[Main] = Dialing([op |-> "connect"], "master")
        /\ \A d \in Client \ {Main} : task'[d] = task[d]
        /\ down' \in [Client -> SUBSET Host]
    BY <1>6, BeginEffect, HostTypes
  <2>2. Types'
    BY <1>1, <1>2, <1>6, <2>1 DEF Types, world
  <2>t. /\ task'[Main] = DialTask([op |-> "connect"], "master", 1)
        /\ task'[Main].phase = "dial"
        /\ task'[Main].job = [op |-> "connect"]
        /\ task'[Main].handle = "master"
        /\ task'[Main].job.op = "connect"
        /\ task'[Main].next = 1
    BY <2>1, TaskFields
  <2>m. hosts'["master"] = <<Master>>
    BY <1>1, <1>2, <1>6
  <2>h. hosts'["master"] # <<>> /\ 1 \in 1 .. Len(hosts'["master"])
    BY <2>m, HostTypes
  <2>3. Sound(task[Main])'
    BY <1>6, <2>t, <2>h, HostTypes DEF Sound
  <2>4. \A d \in Client \ {Main} : Sound(task[d])'
    BY <1>4, <2>1 DEF Sound
  <2>5. MasterInv'
    BY <1>1, <1>2, <1>3, <1>6, <2>3, <2>4 DEF MasterInv, world
  <2>6. HeldInv'
    BY <1>2, <1>3, <1>4, <1>6, <2>1, <2>t, HostTypes DEF HeldInv
  <2> QED
    BY <2>2, <2>5, <2>6
<1> QED
  BY <1>2, <1>5, <1>6

\* A goroutine left alone stays sound while hosts and writes are only added.
LEMMA SoundKept ==
    ASSUME NEW d \in Client, Sound(task[d]),
           task'[d] = task[d], hosts' = hosts,
           app = "opening" <=> app' = "opening",
           version[Master] \in Nat, version'[Master] \in Nat,
           version[Master] <= version'[Master],
           task[d].phase = "run" => task[d].host \in up'
    PROVE  Sound(task[d])'
BY DEF Sound

\* The host tried next is one of the handle's; the master's has no other.
LEMMA TriedHost ==
    ASSUME Inv, NEW c \in Client, task[c].phase = "dial"
    PROVE  /\ task[c].handle \in Handle
           /\ hosts[task[c].handle] # <<>>
           /\ Tried(c) \in Host
           /\ task[c].handle = "master" => Tried(c) = Master
<1>1. Sound(task[c])
  BY DEF Inv, MasterInv
<1>2. /\ task[c].handle \in Handle
      /\ hosts[task[c].handle] # <<>>
      /\ task[c].next \in 1 .. Len(hosts[task[c].handle])
  BY <1>1 DEF Sound
<1>3. hosts[task[c].handle] \in Seq(Host)
  BY <1>2 DEF Inv, Types
<1>4. Tried(c) \in Host
  BY <1>2, <1>3 DEF Tried
<1>5. ASSUME task[c].handle = "master" PROVE Tried(c) = Master
  <2>1. hosts["master"] = <<Master>>
    BY <1>2, <1>5 DEF Inv, MasterInv
  <2>2. task[c].next = 1
    BY <1>2, <1>5, <2>1, HostTypes
  <2> QED
    BY <1>5, <2>1, <2>2, HostTypes DEF Tried
<1> QED
  BY <1>2, <1>4, <1>5

LEMMA InvConnected ==
    ASSUME Inv, NEW c \in Client, Connected(c)
    PROVE  Inv'
<1> DEFINE h == task[c].handle
<1> USE DEF Inv
<1>1. /\ task[c].phase = "dial"
      /\ Tried(c) \in up
      /\ conns' = [conns EXCEPT ![h] = @ \cup {Tried(c)}]
      /\ UNCHANGED <<config, up, version, faults, edits, kind, hosts, acked>>
  BY DEF Connected, world
<1>2. /\ h \in Handle /\ hosts[h] # <<>>
      /\ Tried(c) \in Host
      /\ h = "master" => Tried(c) = Master
  BY <1>1, TriedHost
<1>3. /\ conns' \in [Handle -> SUBSET Host]
      /\ conns'["master"] \subseteq {Master}
      /\ \A g \in Handle : conns'[g] \subseteq up
      /\ \A g \in Handle : hosts[g] = <<>> => conns'[g] = {}
  BY <1>1, <1>2, HostTypes DEF Types, MasterInv
<1>s. Sound(task[c])
  BY DEF MasterInv
<1>v. version[Master] \in Nat
  BY HostTypes, ConnectAssumption DEF Types
<1>4. CASE task[c].job.op = "connect" /\ h = "master" /\ HasReplica
  <2>1. /\ Begin(c, Dialing([op |-> "connect"], "replica"))
        /\ UNCHANGED <<app, held>>
    BY <1>1, <1>4 DEF Connected, Opened
  <2>2. /\ task' = [d \in Client |-> task'[d]]
        /\ task'[c] = Dialing([op |-> "connect"], "replica")
        /\ \A d \in Client \ {c} : task'[d] = task[d]
        /\ down' \in [Client -> SUBSET Host]
    BY <2>1, BeginEffect
  <2>t. /\ task'[c] = DialTask([op |-> "connect"], "replica", 1)
        /\ task'[c].phase = "dial"
        /\ task'[c].job = [op |-> "connect"]
        /\ task'[c].handle = "replica"
        /\ task'[c].job.op = "connect"
        /\ task'[c].next = 1
    BY <2>2, TaskFields
  <2>3. app = "opening" /\ c = Main
    BY <1>1, <1>4, <1>s DEF Sound, HeldInv
  <2>4. Types'
    BY <1>1, <1>3, <2>1, <2>2 DEF Types
  <2>h. hosts["replica"] # <<>> /\ 1 \in 1 .. Len(hosts["replica"])
    <3>1. hosts["replica"] \in Seq(Host) /\ hosts["replica"] # <<>>
      BY <1>4, HostTypes DEF HasReplica, Types
    <3> QED
      BY <3>1
  <2>5. Sound(task[c])'
    BY <1>1, <2>1, <2>t, <2>3, <2>h, HostTypes DEF Sound
  <2>6. \A d \in Client \ {c} : Sound(task[d])'
    BY <1>1, <1>v, <2>1, <2>2, SoundKept DEF MasterInv, Sound
  <2>7. MasterInv'
    BY <1>1, <1>3, <2>1, <2>5, <2>6 DEF MasterInv
  <2>8. conns'["replica"] = {}
    BY <1>1, <1>2, <1>4, <2>3, HostTypes DEF HeldInv, Types
  <2>9. HeldInv'
    BY <2>1, <2>2, <2>t, <2>3, <2>8, <1>1, HostTypes DEF HeldInv
  <2> QED
    BY <2>4, <2>7, <2>9
<1>5. CASE task[c].job.op = "connect" /\ ~(h = "master" /\ HasReplica)
  <2>1. /\ Begin(c, Idle)
        /\ app' = "open"
        /\ held' = {g \in Handle : hosts[g] # <<>>}
    BY <1>1, <1>5 DEF Connected, Opened
  <2>2. /\ task' = [d \in Client |-> task'[d]]
        /\ task'[c].phase = "idle"
        /\ \A d \in Client \ {c} : task'[d] = task[d]
        /\ down' \in [Client -> SUBSET Host]
    BY <2>1, BeginEffect, TaskFields
  <2>3. app = "opening" /\ \A d \in Client : task'[d].phase = "idle"
    BY <1>1, <1>5, <1>s, <2>2 DEF Sound, HeldInv
  <2>4. Types'
    BY <1>1, <1>3, <2>1, <2>2 DEF Types
  <2>5. \A d \in Client : Sound(task[d])'
    BY <2>3 DEF Sound
  <2>6. MasterInv'
    BY <1>1, <1>3, <2>1, <2>3, <2>5 DEF MasterInv
  <2>7. HeldInv'
    BY <1>1, <2>1 DEF HeldInv
  <2> QED
    BY <2>4, <2>6, <2>7
<1>6. CASE task[c].job.op # "connect"
  <2>1. /\ Begin(c, Running(task[c].job, h, Tried(c)))
        /\ UNCHANGED <<app, held>>
    BY <1>1, <1>6 DEF Connected
  <2>2. /\ task' = [d \in Client |-> task'[d]]
        /\ task'[c] = Running(task[c].job, h, Tried(c))
        /\ \A d \in Client \ {c} : task'[d] = task[d]
        /\ down' \in [Client -> SUBSET Host]
    BY <2>1, BeginEffect
  <2>t. /\ task'[c].phase = "run"
        /\ task'[c].handle = h
        /\ task'[c].job = task[c].job
        /\ task'[c].host = Tried(c)
    BY <2>2, TaskFields
  <2>3. app \notin {"start", "failed", "opening"}
    BY <1>1, <1>6, <1>s DEF Sound, HeldInv
  <2>4. Types'
    BY <1>1, <1>3, <2>1, <2>2 DEF Types
  <2>5. Sound(task[c])'
    BY <1>1, <1>2, <1>s, <2>1, <2>2, <2>t DEF Sound
  <2>6. \A d \in Client \ {c} : Sound(task[d])'
    BY <1>1, <1>v, <2>1, <2>2, SoundKept DEF MasterInv, Sound
  <2>7. MasterInv'
    BY <1>1, <1>3, <2>1, <2>5, <2>6 DEF MasterInv
  <2>8. HeldInv'
    BY <1>1, <2>1, <2>3 DEF HeldInv
  <2> QED
    BY <2>4, <2>7, <2>8
<1> QED
  BY <1>4, <1>5, <1>6

\* A call that ends with an error, whether it was looking for a host or
\* waiting for an answer.
LEMMA InvGiveUp ==
    ASSUME Inv, NEW c \in Client, task[c].phase # "idle", GiveUp(c),
           UNCHANGED <<world, kind, hosts, acked>>,
           conns' \in [Handle -> SUBSET Host],
           \A h \in Handle : conns'[h] \subseteq conns[h]
    PROVE  Inv'
<1> USE DEF Inv
<1>1. /\ Begin(c, Idle)
      /\ UNCHANGED <<up, version, hosts, acked>>
  BY DEF GiveUp, world
<1>2. /\ task' = [d \in Client |-> task'[d]]
      /\ task'[c].phase = "idle"
      /\ \A d \in Client \ {c} : task'[d] = task[d]
      /\ down' \in [Client -> SUBSET Host]
  BY <1>1, BeginEffect, TaskFields
<1>s. Sound(task[c])
  BY DEF MasterInv
<1>v. version[Master] \in Nat
  BY HostTypes, ConnectAssumption DEF Types
<1>m. /\ conns'["master"] \subseteq {Master}
      /\ \A h \in Handle : conns'[h] \subseteq up
      /\ \A h \in Handle : hosts[h] = <<>> => conns'[h] = {}
  BY HostTypes DEF MasterInv
<1>3. CASE task[c].job.op = "connect"
  <2>1. app' = "failed" /\ held' = HeldAfterError(task[c].handle)
    BY <1>3 DEF GiveUp
  <2>2. /\ app = "opening"
        /\ task[c].handle \in Handle
        /\ conns["replica"] = {}
        /\ task[c].handle = "master" => conns["master"] = {}
    BY <1>3, <1>s DEF Sound, HeldInv
  <2>3. \A d \in Client : task'[d].phase = "idle"
    BY <1>2, <2>2 DEF HeldInv
  <2>4. Types'
    BY <1>1, <1>2, <2>1 DEF Types, HeldAfterError, Handle
  <2>5. MasterInv'
    BY <1>1, <1>m, <2>1, <2>3 DEF MasterInv, Sound
  <2>6. \A h \in Handle : conns'[h] # {} => h \in held'
    BY <2>1, <2>2, HostTypes DEF HeldAfterError, Handle
  <2>7. HeldInv'
    BY <2>1, <2>3, <2>6 DEF HeldInv
  <2> QED
    BY <2>4, <2>5, <2>7
<1>4. CASE task[c].job.op # "connect"
  <2>1. UNCHANGED <<app, held>>
    BY <1>4 DEF GiveUp
  <2>2. app = "open"
    BY <1>4, <1>s DEF Sound, HeldInv, Types
  <2>3. Types'
    BY <1>1, <1>2, <2>1 DEF Types
  <2>4. \A d \in Client : Sound(task[d])'
    <3>1. Sound(task[c])'
      BY <1>2 DEF Sound
    <3>2. \A d \in Client \ {c} : Sound(task[d])'
      BY <1>1, <1>2, <1>v, <2>1, SoundKept DEF MasterInv, Sound
    <3> QED
      BY <3>1, <3>2
  <2>5. MasterInv'
    BY <1>1, <1>m, <2>1, <2>4 DEF MasterInv
  <2>6. HeldInv'
    BY <1>1, <2>1, <2>2 DEF HeldInv
  <2> QED
    BY <2>3, <2>5, <2>6
<1> QED
  BY <1>3, <1>4

LEMMA InvRefused == ASSUME Inv, NEW c \in Client, Refused(c) PROVE Inv'
<1>1. task[c].phase # "idle" /\ GiveUp(c)
  BY DEF Refused
<1>2. UNCHANGED <<world, kind, hosts, conns, acked>>
  BY DEF Refused
<1> QED
  BY <1>1, <1>2, InvGiveUp DEF Inv, Types

LEMMA InvFail == ASSUME Inv, NEW c \in Client, Fail(c) PROVE Inv'
<1>1. task[c].phase # "idle" /\ GiveUp(c) /\ UNCHANGED <<world, kind, hosts, acked>>
  BY DEF Fail
<1>2. /\ conns' \in [Handle -> SUBSET Host]
      /\ \A h \in Handle : conns'[h] \subseteq conns[h]
  BY ZenonT(30) DEF Fail, Inv, Types
<1> QED
  BY <1>1, <1>2, InvGiveUp

LEMMA InvSkip == ASSUME Inv, NEW c \in Client, Skip(c) PROVE Inv'
<1> USE DEF Inv
<1>1. /\ task[c].phase = "dial"
      /\ task[c].next < Len(hosts[task[c].handle])
      /\ task' = [task EXCEPT ![c].next = @ + 1]
      /\ UNCHANGED <<up, version, app, hosts, held, conns, acked, down>>
  BY DEF Skip, world, program
<1>s. Sound(task[c])
  BY DEF MasterInv
<1>v. version[Master] \in Nat
  BY HostTypes, ConnectAssumption DEF Types
<1>2. /\ task' = [d \in Client |-> task'[d]]
      /\ task'[c] = [task[c] EXCEPT !.next = @ + 1]
      /\ \A d \in Client \ {c} : task'[d] = task[d]
  BY <1>1 DEF Types
<1>3. Types'
  BY <1>1, <1>2 DEF Types
<1>t. /\ task'[c] = DialTask(task[c].job, task[c].handle, task[c].next + 1)
      /\ task'[c].phase = "dial"
      /\ task'[c].handle = task[c].handle
      /\ task'[c].job = task[c].job
      /\ task'[c].next = task[c].next + 1
  <2>1. task[c] = DialTask(task[c].job, task[c].handle, task[c].next)
    BY <1>1, <1>s DEF Sound
  <2> QED
    BY <1>2, <2>1 DEF DialTask
<1>4. Sound(task[c])'
  <2>1. hosts[task[c].handle] \in Seq(Host)
    BY <1>1, <1>s DEF Sound, Types
  <2>2. task[c].next + 1 \in 1 .. Len(hosts[task[c].handle])
    BY <1>1, <1>s, <2>1 DEF Sound
  <2> QED
    BY <1>1, <1>s, <1>t, <2>2 DEF Sound
<1>5. \A d \in Client \ {c} : Sound(task[d])'
  <2> SUFFICES ASSUME NEW d \in Client \ {c} PROVE Sound(task[d])'
    OBVIOUS
  <2>1. d \in Client /\ Sound(task[d])
    BY DEF MasterInv
  <2>2. /\ task'[d] = task[d] /\ hosts' = hosts
        /\ app = "opening" <=> app' = "opening"
    BY <1>1, <1>2
  <2>3. task[d].phase = "run" => task[d].host \in up'
    BY <1>1, <2>1 DEF Sound
  <2>4. /\ version[Master] \in Nat /\ version'[Master] \in Nat
        /\ version[Master] <= version'[Master]
    BY <1>1, <1>v
  <2> QED
    BY ONLY <2>1, <2>2, <2>3, <2>4, SoundKept
<1>6. MasterInv'
  BY <1>1, <1>4, <1>5 DEF MasterInv
<1>7. HeldInv'
  BY <1>1, <1>2, <1>t DEF HeldInv
<1> QED
  BY <1>3, <1>6, <1>7

\* A call that ends without touching the master's connections.
LEMMA InvEnds ==
    ASSUME Inv, NEW c \in Client, task[c].phase = "run", Begin(c, Idle),
           UNCHANGED <<world, program, conns>>,
           acked' \in [Client -> 0 .. MaxWrites],
           \A d \in Client : acked'[d] <= version[Master]
    PROVE  Inv'
<1> USE DEF Inv
<1>1. UNCHANGED <<up, version, app, hosts, held, conns>>
  BY DEF world, program
<1>2. /\ task' = [d \in Client |-> task'[d]]
      /\ task'[c].phase = "idle"
      /\ \A d \in Client \ {c} : task'[d] = task[d]
      /\ down' \in [Client -> SUBSET Host]
  BY BeginEffect, TaskFields
<1>v. version[Master] \in Nat
  BY HostTypes, ConnectAssumption DEF Types
<1>3. app \notin {"start", "failed", "opening"}
  BY DEF HeldInv
<1>4. Types'
  BY <1>1, <1>2 DEF Types
<1>5. Sound(task[c])'
  BY <1>2 DEF Sound
<1>6. \A d \in Client \ {c} : Sound(task[d])'
  BY <1>1, <1>2, <1>v, SoundKept DEF MasterInv, Sound
<1>7. MasterInv'
  BY <1>1, <1>5, <1>6 DEF MasterInv
<1>8. HeldInv'
  BY <1>1, <1>3 DEF HeldInv
<1> QED
  BY <1>4, <1>7, <1>8

LEMMA InvServeRead == ASSUME Inv, NEW c \in Client, ServeRead(c) PROVE Inv'
<1>1. /\ acked' \in [Client -> 0 .. MaxWrites]
      /\ \A d \in Client : acked'[d] <= version[Master]
  BY DEF ServeRead, Inv, Types, MasterInv
<1> QED
  BY <1>1, InvEnds DEF ServeRead

LEMMA InvAcknowledge == ASSUME Inv, NEW c \in Client, Acknowledge(c) PROVE Inv'
<1>1. task[c].job.version \in 0 .. version[Master]
  BY DEF Acknowledge, Inv, MasterInv, Sound
<1>2. version[Master] \in 0 .. MaxWrites
  BY HostTypes DEF Inv, Types
<1>3. /\ acked' \in [Client -> 0 .. MaxWrites]
      /\ \A d \in Client : acked'[d] <= version[Master]
  BY <1>1, <1>2, ConnectAssumption DEF Acknowledge, Inv, Types, MasterInv
<1> QED
  BY <1>3, InvEnds DEF Acknowledge

\* A query is sent on a connection of its handle, or begins to make one.
LEMMA InvQuery ==
    ASSUME Inv, NEW c \in Client, NEW job, NEW h \in Handle, Query(c, job, h),
           job.op \in {"read", "write"},
           job.op = "read" /\ job.notStale => h = "master",
           job.op = "write" => h = "master",
           hosts[h] # <<>>
    PROVE  Inv'
<1> USE DEF Inv
<1>1. /\ app = "open"
      /\ UNCHANGED <<up, version, app, hosts, held, conns, acked>>
  BY DEF Query, Free, world, program
<1>v. version[Master] \in Nat
  BY HostTypes, ConnectAssumption DEF Types
<1>2. SUFFICES ASSUME NEW t, Begin(c, t),
                      \/ t = Dialing(job, h)
                      \/ \E host \in conns[h] : t = Running(job, h, host)
               PROVE  Inv'
  BY DEF Query
<1>3. /\ task' = [d \in Client |-> task'[d]]
      /\ task'[c] = t
      /\ \A d \in Client \ {c} : task'[d] = task[d]
      /\ down' \in [Client -> SUBSET Host]
  BY <1>2, BeginEffect
<1>4. Types'
  BY <1>1, <1>3 DEF Types
<1>5. Sound(task[c])'
  <2>1. CASE t = Dialing(job, h)
    <3>1. hosts[h] \in Seq(Host) /\ hosts[h] # <<>>
      BY DEF Types
    <3>2. 1 \in 1 .. Len(hosts[h])
      BY <3>1
    <3>3. /\ t = DialTask(job, h, 1)
          /\ t.phase = "dial" /\ t.job = job /\ t.handle = h /\ t.next = 1
      BY <2>1, TaskFields
    <3> QED
      BY <1>1, <1>3, <3>2, <3>3 DEF Sound
  <2>2. ASSUME NEW host \in conns[h], t = Running(job, h, host)
        PROVE  Sound(task[c])'
    <3>1. t.phase = "run" /\ t.job = job /\ t.handle = h /\ t.host = host
      BY <2>2, TaskFields
    <3>2. host \in up /\ (h = "master" => host = Master)
      BY DEF MasterInv
    <3> QED
      BY <1>1, <1>3, <2>2, <3>1, <3>2 DEF Sound
  <2> QED
    BY <1>2, <2>1, <2>2
<1>6. \A d \in Client \ {c} : Sound(task[d])'
  BY <1>1, <1>3, <1>v, SoundKept DEF MasterInv, Sound
<1>7. MasterInv'
  BY <1>1, <1>5, <1>6 DEF MasterInv
<1>8. HeldInv'
  BY <1>1 DEF HeldInv
<1> QED
  BY <1>4, <1>7, <1>8

\* A read that must not be stale goes to the master, and any other to a handle
\* the program has.
LEMMA RouteCorrect ==
    ASSUME NEW db, NEW s \in SUBSET BOOLEAN
    PROVE  /\ ReplicaByOpt(db, SelectOptions(s)) \in Handle
           /\ ReplicaByOpt(db, SelectOptions(s)) = "replica" => HasReplica
           /\ db = "tx" \/ db = "handle" =>
                (NotStale(db, s) => ReplicaByOpt(db, SelectOptions(s)) = "master")
<1>1. /\ SelectOptions(s).useReplica <=> TRUE \in s
      /\ SelectOptions(s).useMaster <=> FALSE \in s
  BY DEF SelectOptions
<1> QED
  BY <1>1, HostTypes DEF ReplicaByOpt, Replica, ReplicaPerTable, NotStale

LEMMA InvCall == ASSUME Inv, NEW c \in Client, Call(c) PROVE Inv'
<1>1. ASSUME Write(c) PROVE Inv'
  <2>1. hosts["master"] # <<>>
    BY <1>1, HostTypes DEF Write, Query, Free, Inv, MasterInv
  <2>2. Query(c, [op |-> "write"], "master")
    BY <1>1 DEF Write
  <2> QED
    BY <2>1, <2>2, InvQuery, HostTypes
<1>2. ASSUME NEW db \in {"handle", "tx"}, NEW s \in SUBSET BOOLEAN,
             Select(c, db, s)
      PROVE  Inv'
  <2> DEFINE job == [op |-> "read", notStale |-> NotStale(db, s)]
             h == ReplicaByOpt(db, SelectOptions(s))
  <2>1. Query(c, job, h)
    BY <1>2 DEF Select
  <2>2. /\ h \in Handle
        /\ h = "replica" => HasReplica
        /\ NotStale(db, s) => h = "master"
    BY RouteCorrect
  <2>3. hosts[h] # <<>>
    BY <2>1, <2>2, HostTypes DEF Query, Free, Inv, MasterInv, HasReplica, Handle
  <2>4. job.op = "read" /\ (job.notStale <=> NotStale(db, s))
    OBVIOUS
  <2> QED
    BY <2>1, <2>2, <2>3, <2>4, InvQuery
<1> QED
  BY <1>1, <1>2 DEF Call

LEMMA InvServeWrite == ASSUME Inv, NEW c \in Client, ServeWrite(c) PROVE Inv'
<1> USE DEF Inv
<1> DEFINE t == task[c]
<1>1. /\ t.phase = "run" /\ t.job.op = "write"
      /\ version[t.host] < MaxWrites
      /\ version' = [version EXCEPT ![t.host] = @ + 1]
      /\ task' = [task EXCEPT ![c].job =
                    [op |-> "written", version |-> version'[t.host]]]
      /\ UNCHANGED <<up, app, hosts, held, conns, acked, down>>
  BY DEF ServeWrite, program
<1>2. Sound(t)
  BY DEF MasterInv
<1>3. /\ t = Running(t.job, t.handle, t.host)
      /\ t.handle = "master" /\ t.host = Master /\ Master \in up
  BY <1>1, <1>2 DEF Sound
<1>4. /\ version' \in [Host -> 0 .. MaxWrites]
      /\ version'[Master] = version[Master] + 1
      /\ version[Master] \in Nat
  <2>1. version[Master] \in 0 .. MaxWrites /\ version[Master] < MaxWrites
    BY <1>1, <1>3, HostTypes DEF Types
  <2>2. version' = [version EXCEPT ![Master] = version[Master] + 1]
    BY <1>1, <1>3
  <2>3. version[Master] + 1 \in 0 .. MaxWrites
    BY <2>1, ConnectAssumption
  <2> QED
    BY <2>1, <2>2, <2>3, HostTypes, ConnectAssumption DEF Types
<1>5. /\ task' = [d \in Client |-> task'[d]]
      /\ task'[c] = [t EXCEPT !.job = [op |-> "written", version |-> version'[Master]]]
      /\ \A d \in Client \ {c} : task'[d] = task[d]
  BY <1>1, <1>3 DEF Types
<1>6. /\ task'[c] = Running([op |-> "written", version |-> version'[Master]],
                            "master", Master)
      /\ task'[c].phase = "run" /\ task'[c].handle = "master"
      /\ task'[c].host = Master
      /\ task'[c].job = [op |-> "written", version |-> version'[Master]]
  BY <1>3, <1>5 DEF Running
<1>7. Types'
  BY <1>1, <1>4, <1>5 DEF Types
<1>8. Sound(task[c])'
  BY <1>1, <1>2, <1>3, <1>4, <1>6 DEF Sound
<1>9. \A d \in Client \ {c} : Sound(task[d])'
  <2> SUFFICES ASSUME NEW d \in Client \ {c} PROVE Sound(task[d])'
    OBVIOUS
  <2>1. d \in Client /\ Sound(task[d])
    BY DEF MasterInv
  <2>2. /\ task'[d] = task[d] /\ hosts' = hosts
        /\ app = "opening" <=> app' = "opening"
    BY <1>1, <1>5
  <2>3. task[d].phase = "run" => task[d].host \in up'
    BY <1>1, <2>1 DEF Sound
  <2>4. /\ version[Master] \in Nat /\ version'[Master] \in Nat
        /\ version[Master] <= version'[Master]
    BY <1>4
  <2> QED
    BY ONLY <2>1, <2>2, <2>3, <2>4, SoundKept
<1>10. \A d \in Client : acked'[d] <= version'[Master]
  BY <1>1, <1>4, ConnectAssumption DEF MasterInv, Types
<1>11. MasterInv'
  BY <1>1, <1>8, <1>9, <1>10 DEF MasterInv
<1>12. HeldInv'
  <2>1. app \notin {"start", "failed", "opening"}
    BY <1>1 DEF HeldInv
  <2> QED
    BY <1>1, <2>1 DEF HeldInv
<1> QED
  BY <1>7, <1>11, <1>12

LEMMA InvCrash == ASSUME Inv, NEW host \in Host, Crash(host) PROVE Inv'
<1> USE DEF Inv
<1>1. /\ up' = up \ {host}
      /\ conns' = [h \in Handle |-> conns[h] \ {host}]
      /\ task' = [c \in Client |->
                    IF task[c].phase = "run" /\ task[c].host = host THEN Idle
                    ELSE task[c]]
      /\ down' = [c \in Client |->
                    IF task[c].phase = "dial" THEN down[c] \cup {host} ELSE {}]
      /\ UNCHANGED <<version, app, hosts, held, acked>>
  BY DEF Crash, program
<1>v. version[Master] \in Nat
  BY HostTypes, ConnectAssumption DEF Types
<1>2. Types'
  BY <1>1 DEF Types
<1>3. ASSUME NEW c \in Client PROVE Sound(task[c])'
  <2>1. CASE task[c].phase = "run" /\ task[c].host = host
    <3>1. task'[c].phase = "idle"
      BY <1>1, <2>1, TaskFields
    <3> QED
      BY <3>1 DEF Sound
  <2>2. CASE ~(task[c].phase = "run" /\ task[c].host = host)
    <3>1. task'[c] = task[c] /\ Sound(task[c])
      BY <1>1, <2>2 DEF MasterInv
    <3>2. task[c].phase = "run" => task[c].host \in up'
      BY <1>1, <2>2, <3>1 DEF Sound
    <3> QED
      BY <1>1, <1>v, <3>1, <3>2, SoundKept
  <2> QED
    BY <2>1, <2>2
<1>4. MasterInv'
  BY <1>1, <1>3, HostTypes DEF MasterInv
<1>5. HeldInv'
  <2>1. \A c \in Client : task[c].phase # "run" => task'[c] = task[c]
    BY <1>1
  <2>2. \A c \in Client : task'[c].phase # "idle" => task'[c] = task[c]
    BY <1>1, TaskFields
  <2>3. \A h \in Handle : conns'[h] = conns[h] \ {host}
    BY <1>1
  <2>4. app = "opening" => task[Main].phase = "dial"
    BY HostTypes DEF HeldInv
  <2> QED
    BY <1>1, <2>1, <2>2, <2>3, <2>4, HostTypes DEF HeldInv, MasterInv, Sound
<1> QED
  BY <1>2, <1>4, <1>5

\* Steps of the world that leave the program alone.
LEMMA InvWorld ==
    ASSUME Inv, UNCHANGED <<program, conns, task, acked, down>>,
           up \subseteq up', up' \subseteq Host,
           version' \in [Host -> 0 .. MaxWrites],
           version[Master] <= version'[Master]
    PROVE  Inv'
<1> USE DEF Inv
<1>1. UNCHANGED <<app, hosts, held>>
  BY DEF program
<1>v. version[Master] \in Nat /\ version'[Master] \in Nat
  BY HostTypes, ConnectAssumption DEF Types
<1>2. Types'
  BY <1>1 DEF Types
<1>3. \A c \in Client : Sound(task[c])'
  BY <1>1, <1>v, SoundKept DEF MasterInv, Sound
<1>4. \A c \in Client : acked'[c] <= version'[Master]
  BY <1>v, ConnectAssumption DEF MasterInv, Types
<1>5. MasterInv'
  BY <1>1, <1>3, <1>4 DEF MasterInv
<1>6. HeldInv'
  BY <1>1 DEF HeldInv
<1> QED
  BY <1>2, <1>5, <1>6

LEMMA InvNext == Inv /\ [Next]_vars => Inv'
<1> SUFFICES ASSUME Inv, [Next]_vars PROVE Inv'
  OBVIOUS
<1>v. version[Master] \in Nat /\ up \subseteq Host /\ version \in [Host -> 0 .. MaxWrites]
  BY HostTypes, ConnectAssumption DEF Inv, Types
<1>1. ASSUME NEW c \in Client, Step(c) PROVE Inv'
  BY <1>1, InvCall, InvConnected, InvSkip, InvRefused, InvServeRead,
     InvServeWrite, InvAcknowledge, InvFail DEF Step
<1>2. ASSUME NEW host \in Host, Recover(host) PROVE Inv'
  BY <1>2, <1>v, InvWorld DEF Recover
<1>3. ASSUME NEW host \in Host, Replicate(host) PROVE Inv'
  <2>1. /\ version' \in [Host -> 0 .. MaxWrites]
        /\ version'[Master] = version[Master]
    BY <1>3, <1>v, HostTypes, ConnectAssumption DEF Replicate
  <2> QED
    BY <1>3, <1>v, <2>1, InvWorld DEF Replicate
<1>4. CASE Edit
  BY <1>4, <1>v, InvWorld DEF Edit
<1>5. CASE UNCHANGED vars
  BY <1>5, <1>v, InvWorld DEF vars, program
<1> QED
  BY <1>1, <1>2, <1>3, <1>4, <1>5, InvNew, InvCrash DEF Next

LEMMA InvAlways == Spec => []Inv
<1> QED
  BY InvInit, InvNext, PTL DEF Spec

\* The variables keep their types, a goroutine that connects has a host to try
\* and a query runs on a host that can be reached.
THEOREM TypeCorrect == Spec => []TypeOK
<1>1. Inv => TypeOK
  BY DEF Inv, Types, MasterInv, Sound, TypeOK
<1> QED
  BY <1>1, InvAlways, PTL

\* NewConn and NewPool lose no connection, whatever fails.
THEOREM ConnectionsHeld == Spec => []CallerHoldsConnections
<1>1. Inv => CallerHoldsConnections
  BY DEF Inv, MasterInv, HeldInv, CallerHoldsConnections
<1> QED
  BY <1>1, InvAlways, PTL

\* A read that must not be stale sees the acknowledged writes of its goroutine.
THEOREM ReadsSeeWrites == Spec => ReadsOwnWrites
<1>1. Inv /\ [Next]_vars =>
         [\A c \in Client :
             ServeRead(c) /\ task[c].job.notStale
             => version[task[c].host] >= acked[c]]_vars
  <2> SUFFICES ASSUME Inv, NEW c \in Client, ServeRead(c), task[c].job.notStale
               PROVE  version[task[c].host] >= acked[c]
    OBVIOUS
  <2>1. task[c].host = Master
    BY DEF Inv, MasterInv, Sound, ServeRead
  <2>2. acked[c] <= version[Master] /\ acked[c] \in Nat /\ version[Master] \in Nat
    BY HostTypes, ConnectAssumption DEF Inv, MasterInv, Types
  <2> QED
    BY <2>1, <2>2
<1> QED
  BY <1>1, InvAlways, PTL DEF Spec, ReadsOwnWrites

----------------------------------------------------------------------------
\* What a goroutine that connects has seen: hosts that are unreachable now, and
\* those it has tried before, were unreachable since it began.
Seen(c) ==
    task[c].phase = "dial" =>
       /\ Host \ up \subseteq down[c]
       /\ \A j \in 1 .. task[c].next - 1 :
             hosts[task[c].handle][j] \in down[c]

DialInv ==
    /\ \A h \in Handle : hosts[h] # <<>> => hosts[h][Len(hosts[h])] = Master
    /\ \A c \in Client : Seen(c)

LEMMA LoadLast ==
    ASSUME NEW loaded \in {LoadConnStrings(config), LoadPoolConnStrings(config)},
           NEW h \in Handle, loaded.hosts[h] # <<>>
    PROVE  loaded.hosts[h][Len(loaded.hosts[h])] = Master
<1>1. loaded.hosts[h] \in {<<>>, <<Master>>, Append(Listed, Master)}
  BY DEF LoadConnStrings, LoadPoolConnStrings, Failure, ReplicaHosts
<1>2. Append(Listed, Master)[Len(Append(Listed, Master))] = Master
  BY HostTypes
<1> QED
  BY <1>1, <1>2, HostTypes

\* A goroutine left alone has seen what it had.
LEMMA SeenKept ==
    ASSUME NEW c \in Client, Seen(c), task'[c] = task[c], hosts' = hosts,
           up \subseteq up', down'[c] = down[c]
    PROVE  Seen(c)'
BY DEF Seen

\* One that begins to connect has tried nothing yet.
LEMMA SeenBegins ==
    ASSUME Types, NEW c \in Client, NEW job, NEW h, NEW host,
           NEW t \in {Idle, Dialing(job, h), Running(job, h, host)},
           Begin(c, t), up' = up
    PROVE  Seen(c)' /\ \A d \in Client \ {c} :
                          task'[d] = task[d] /\ down'[d] = down[d]
<1>1. task'[c] = t /\ \A d \in Client \ {c} : task'[d] = task[d]
  BY BeginEffect
<1>2. /\ down'[c] = IF t.phase = "dial" THEN Host \ up ELSE {}
      /\ \A d \in Client \ {c} : down'[d] = down[d]
  BY DEF Begin, Types
<1>3. t.phase = "dial" => t.next = 1
  BY TaskFields
<1> QED
  BY <1>1, <1>2, <1>3 DEF Seen

LEMMA SeenStep ==
    ASSUME Inv, DialInv, NEW c \in Client, Step(c)
    PROVE  DialInv'
<1> USE DEF Inv
<1>1. hosts' = hosts /\ up' = up
  BY DEF Step, Call, Select, Write, Query, Connected, Skip, Refused, ServeRead,
         ServeWrite, Acknowledge, Fail, world, program
<1>2. ASSUME NEW job, NEW h, NEW host,
             NEW t \in {Idle, Dialing(job, h), Running(job, h, host)},
             Begin(c, t)
      PROVE  \A d \in Client : Seen(d)'
  BY <1>1, <1>2, SeenBegins, SeenKept DEF DialInv
<1>3. CASE Call(c)
  <2>1. PICK job, h : Query(c, job, h)
    BY <1>3 DEF Call, Select, Write
  <2>2. \/ Begin(c, Dialing(job, h))
        \/ \E host \in conns[h] : Begin(c, Running(job, h, host))
    BY <2>1 DEF Query
  <2> QED
    BY <1>1, <1>2, <2>2 DEF DialInv
<1>4. CASE Connected(c)
  <2>1. \/ Begin(c, Dialing([op |-> "connect"], "replica"))
        \/ Begin(c, Idle)
        \/ Begin(c, Running(task[c].job, task[c].handle, Tried(c)))
    BY <1>4 DEF Connected, Opened
  <2> QED
    BY <1>1, <1>2, <2>1 DEF DialInv
<1>5. CASE Skip(c)
  <2>1. /\ task[c].phase = "dial"
        /\ Tried(c) \notin up
        /\ task' = [task EXCEPT ![c].next = @ + 1]
        /\ down' = down
    BY <1>5 DEF Skip
  <2>2. /\ Sound(task[c]) /\ Seen(c)
        /\ task[c] = DialTask(task[c].job, task[c].handle, task[c].next)
    BY <2>1 DEF MasterInv, DialInv, Sound
  <2>3. task[c].next \in Nat
    <3>1. hosts[task[c].handle] \in Seq(Host)
      BY <2>1, <2>2 DEF Sound, Types
    <3> QED
      BY <2>1, <2>2, <3>1 DEF Sound
  <2>4. /\ task'[c].phase = "dial"
        /\ task'[c].handle = task[c].handle
        /\ task'[c].next = task[c].next + 1
        /\ \A d \in Client \ {c} : task'[d] = task[d]
    BY <2>1, <2>2 DEF Types, DialTask
  <2>5. Tried(c) \in down[c]
    BY <2>1, <2>2, TriedHost DEF Seen
  <2>6. Seen(c)'
    BY <1>1, <2>1, <2>2, <2>3, <2>4, <2>5 DEF Seen, Tried
  <2> QED
    BY <1>1, <2>1, <2>4, <2>6, SeenKept DEF DialInv
<1>6. CASE Refused(c) \/ Fail(c) \/ ServeRead(c) \/ Acknowledge(c)
  <2>1. Begin(c, Idle)
    BY <1>6 DEF Refused, Fail, ServeRead, Acknowledge, GiveUp
  <2> QED
    BY <1>1, <1>2, <2>1 DEF DialInv
<1>7. CASE ServeWrite(c)
  <2>1. /\ task[c].phase = "run" /\ down' = down
        /\ task' = [task EXCEPT ![c].job =
                      [op |-> "written", version |-> version'[task[c].host]]]
    BY <1>7 DEF ServeWrite
  <2>2. task[c] = Running(task[c].job, task[c].handle, task[c].host)
    BY <2>1 DEF MasterInv, Sound
  <2>3. task'[c].phase = "run" /\ \A d \in Client \ {c} : task'[d] = task[d]
    BY <2>1, <2>2 DEF Types, Running
  <2> QED
    BY <1>1, <2>1, <2>3, SeenKept DEF DialInv, Seen
<1> QED
  BY <1>3, <1>4, <1>5, <1>6, <1>7 DEF Step

LEMMA SeenNext == Inv /\ DialInv /\ [Next]_vars => DialInv'
<1> SUFFICES ASSUME Inv, DialInv, [Next]_vars PROVE DialInv'
  OBVIOUS
<1> USE DEF Inv
<1>1. CASE New
  <2> DEFINE loaded == IF kind = "Conn" THEN LoadConnStrings(config)
                       ELSE LoadPoolConnStrings(config)
  <2>1. loaded \in {LoadConnStrings(config), LoadPoolConnStrings(config)}
    OBVIOUS
  <2>2. hosts' = loaded.hosts /\ up' = up
    BY <1>1 DEF New, world
  <2>3. \A h \in Handle : hosts'[h] # <<>> => hosts'[h][Len(hosts'[h])] = Master
    BY <2>1, <2>2, LoadLast
  <2>4. \A c \in Client : task[c].phase = "idle"
    BY <1>1 DEF New, HeldInv
  <2>5. CASE task' = task
    BY <2>3, <2>4, <2>5 DEF DialInv, Seen
  <2>6. CASE Begin(Main, Dialing([op |-> "connect"], "master"))
    <3>1. Seen(Main)' /\ \A d \in Client \ {Main} : task'[d] = task[d]
      BY <2>2, <2>6, SeenBegins, HostTypes
    <3> QED
      BY <2>3, <2>4, <3>1 DEF DialInv, Seen
  <2> QED
    BY <1>1, <2>5, <2>6 DEF New
<1>2. ASSUME NEW host \in Host, Crash(host) PROVE DialInv'
  <2>1. /\ up' = up \ {host} /\ hosts' = hosts
        /\ \A c \in Client : task'[c].phase = "dial" => task'[c] = task[c]
        /\ \A c \in Client : task[c].phase = "dial" => down'[c] = down[c] \cup {host}
    BY <1>2, TaskFields DEF Crash, program
  <2> QED
    BY <2>1 DEF DialInv, Seen
<1>3. CASE \/ UNCHANGED vars
           \/ Edit
           \/ \E host \in Host : Recover(host) \/ Replicate(host)
  <2>1. hosts' = hosts /\ up \subseteq up' /\ task' = task /\ down' = down
    BY <1>3 DEF vars, Edit, Recover, Replicate, program
  <2> QED
    BY <2>1, SeenKept DEF DialInv
<1> QED
  BY <1>1, <1>2, <1>3, SeenStep DEF Next

\* A connection is made to the first host that could be reached, and none is
\* found only when the master could not be reached either.
THEOREM DialsCorrect == Spec => DialsInOrder
<1>1. Init => DialInv
  BY TaskFields DEF Init, DialInv, Seen
<1>2. Spec => []DialInv
  BY <1>1, InvAlways, SeenNext, PTL DEF Spec
<1>3. ASSUME Inv, DialInv, NEW c \in Client
      PROVE  /\ Connected(c) => \A j \in 1 .. task[c].next - 1 :
                                   hosts[task[c].handle][j] \in down[c]
             /\ Refused(c) => Master \in down[c]
  <2>1. Seen(c)
    BY <1>3 DEF DialInv
  <2>2. ASSUME Refused(c) PROVE Master \in down[c]
    <3>1. /\ task[c].phase = "dial"
          /\ Tried(c) \notin up
          /\ task[c].next = Len(hosts[task[c].handle])
      BY <2>2 DEF Refused
    <3>2. Tried(c) = Master
      BY <1>3, <3>1, TriedHost DEF DialInv, Tried
    <3> QED
      BY <2>1, <3>1, <3>2, HostTypes DEF Seen
  <2> QED
    BY <2>1, <2>2 DEF Connected, Seen
<1>4. Inv /\ DialInv /\ [Next]_vars =>
         [\A c \in Client :
             LET list == hosts[task[c].handle]
             IN /\ Connected(c) => \A j \in 1 .. task[c].next - 1 : list[j] \in down[c]
                /\ Refused(c) => Master \in down[c]]_vars
  BY <1>3
<1> QED
  BY <1>2, <1>4, InvAlways, PTL DEF Spec, DialsInOrder
=============================================================================
