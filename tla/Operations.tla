----------------------------- MODULE Operations -----------------------------
(***************************************************************************)
(* What the operations of Programs do, running side by side, to the vault, *)
(* the connections, the forwards, the backups and the REST server.         *)
(*                                                                         *)
(* A process runs one program at a time.  The mutexes and the read-write   *)
(* gate are tokio's, which are fair: a queue of requests each.  A step     *)
(* that fails ends the operation, and its guards are dropped.              *)
(*                                                                         *)
(* The configuration of a session is abstracted to a version (0: no such   *)
(* session) that changes with what a connection depends on; a connection   *)
(* remembers the version it was built from, a forward that of its tunnel.  *)
(* There is one tunnel.  Waits for the registry locks of RemoteRuntime are *)
(* not modelled here (see Connections).                                    *)
(***************************************************************************)
EXTENDS Programs, FiniteSets, SequencesExt

CONSTANTS
  Procs,     \* tasks that run an operation each
  Restorer,  \* the task ssh_connect spawns
  Pool,      \* bound: threads that go on with what dropped handlers have begun
  Sessions,  \* sessions of the initial configuration
  Target,    \* the session the operations are about
  Plans,     \* bound: the operations a behaviour runs, a set of sequences
  Worlds,    \* the initial configurations and connections
  Attempts,  \* bound: how often the start of the server is tried
  Retained,  \* retention count of backups
  Nothing    \* no operation, no view

ASSUME OperationsAssumption ==
  /\ Restorer \notin Procs \cup Pool /\ Procs \cap Pool = {} /\ Target \in Sessions
  /\ Nothing \notin Sessions \cup Procs
  /\ Nothing \notin DOMAIN Programs /\ Plans \subseteq Seq(DOMAIN Programs)
  /\ Attempts \in Nat /\ Retained \in Nat

VARIABLES
  todo,      \* operations that have still to begin
  proc,      \* proc[p]: the operation p runs, where it is, and its locals
  queue,     \* queue[l]: requests for the lock l in their order
  epoch,     \* of ConfigMutationCoordinator
  conf,      \* the vault: versions, tunnel, authorised sessions, key, records
  clock,     \* the last version or identifier given out
  conns,     \* the connections of RemoteRuntime
  fwds,      \* its forwards: the records, which is all it knows of listeners
  server,    \* the REST server: its slot, its listener, its session cache
  startup,   \* ApiStartup.cancelled and the phase of the shutdown
  files,     \* backup files
  seen       \* events the properties speak of, once they have happened

locking == <<queue, epoch>>
remote == <<conns, fwds>>
world == <<conf, clock, remote, server, startup, files, seen>>
operationsVars == <<todo, proc, locking, world>>

All == Procs \cup {Restorer} \cup Pool

-----------------------------------------------------------------------------
Idle ==
  [op |-> Nothing, pc |-> 1, failed |-> FALSE, tries |-> 0, busy |-> FALSE,
   ticket |-> 0, replacing |-> FALSE,     \* of the mutation coordinator
   built |-> 0, pin |-> 0, conn |-> 0,    \* what a connect was made from, and its connection
   allowed |-> {}, handle |-> FALSE, was |-> FALSE, \* server operations
   changed |-> FALSE,
   view |-> Nothing,                         \* the cache of a server that is gone
   recs |-> {}, doomed |-> {}]            \* backups: the plan, files to remove

Process ==
  [op : DOMAIN Programs \cup {Nothing}, pc : Nat, failed : BOOLEAN, tries : Nat, busy : BOOLEAN,
   ticket : Nat, replacing : BOOLEAN, built : Nat, pin : Nat, conn : Nat,
   allowed : SUBSET Sessions, handle : BOOLEAN, was : BOOLEAN, changed : BOOLEAN,
   view : (SUBSET Sessions) \cup {Nothing}, recs : SUBSET Nat, doomed : SUBSET Nat]
Vault ==
  [ver : [Sessions -> Nat], tunnel : Nat, on : BOOLEAN, allow : SUBSET Sessions, auto : BOOLEAN,
   key : BOOLEAN, pin : Nat, recs : SUBSET Nat]
Origins == {"desktop", "automation"}
Connection == [o : Origins, s : Sessions, v : Nat, id : Nat]
Forward == [v : Nat, c : Nat, o : Origins, on : BOOLEAN]
Listener == [open : BOOLEAN, inSlot : BOOLEAN, cache : SUBSET Sessions]

\* no version or identifier of an initial state is larger
Given == 9

\* connections of the present configuration, at most one for the REST interface, forwards
\* of the tunnel on them, and no server outside its slot
ASSUME WorldsAssumption ==
  \A w \in Worlds :
    /\ w \in [conf : Vault, conns : SUBSET Connection, fwds : SUBSET Forward, server : Listener]
    /\ \A c \in w.conns : c.id <= Given /\ c.v = w.conf.ver[c.s]
    /\ \A c, d \in w.conns : \/ c.id = d.id
                             \/ c.s = Target /\ d.s = Target /\ c.o = "automation" /\ d.o = "automation"
                             => c = d
    /\ \A f \in w.fwds : /\ f.v \in {0, w.conf.tunnel}
                         /\ \E c \in w.conns : c.id = f.c /\ c.o = f.o /\ c.s = Target
    /\ w.server.open => w.server.inSlot

OperationsInit ==
  /\ todo \in Plans
  /\ proc = [p \in All |-> Idle]
  /\ queue = [l \in Locks |-> <<>>]
  /\ epoch = 0 /\ clock = Given
  /\ \E w \in Worlds :
       /\ conf = w.conf /\ conns = w.conns /\ fwds = w.fwds /\ server = w.server
       /\ files = w.conf.recs
  /\ startup = [cancelled |-> FALSE, phase |-> "none"]
  /\ seen = [overrun |-> FALSE,   \* a drain timed out
             imported |-> FALSE,  \* the vault was replaced
             stopped |-> FALSE,   \* a stop has returned
             revived |-> FALSE,   \* the automatic start opened a server after that
             late |-> {}]         \* what was done for dropped handlers, whose guards were gone

Live == {p \in All : proc[p].op # Nothing}
Quiet == Live = {} /\ todo = <<>>

-----------------------------------------------------------------------------
(* Locks.                                                                  *)

Place(p, l) == {i \in DOMAIN queue[l] : queue[l][i].by = p}
Granted(p, l) ==
  \E i \in Place(p, l) : \A j \in 1..(i - 1) : queue[l][i].shared /\ queue[l][j].shared
Wants(p) == {l \in Locks : Place(p, l) # {}}
Waiting(p) == \E l \in Wants(p) : ~Granted(p, l)

\* p has to release something before q can go on
Ahead(p, q) ==
  \E l \in Wants(q) : /\ ~Granted(q, l)
                      /\ \E i \in Place(p, l), j \in Place(q, l) : i < j
Blocks(p, q) == Ahead(p, q) \/ \E r \in Live : Ahead(p, r) /\ Ahead(r, q)

Instr(p) == Program(proc[p].op)[proc[p].pc]
Ended(p) == proc[p].pc > Len(Program(proc[p].op))
Runs(p) == p \in Live /\ ~Waiting(p)
At(p, what) == ~Ended(p) /\ Instr(p)[1] = what
Arg(p) == Instr(p)[2]

Become(p, r) == proc' = [proc EXCEPT ![p] = r]
Skip(r, n) == [r EXCEPT !.pc = @ + n]
Go(p) == Become(p, Skip(proc[p], 1))
GoWith(p, r) == Become(p, Skip(r, 1))

Catcher(p) == CatcherOf(Program(proc[p].op), proc[p].pc)
FailAs(p, r) == Become(p, [r EXCEPT !.pc = Catcher(p), !.failed = TRUE])
Fail(p) == FailAs(p, proc[p])

\* the requests q without that of p, who has at most one
Leave(q, p) ==
  LET at == {i \in DOMAIN q : q[i].by = p} IN
  IF at = {} THEN q
  ELSE LET k == CHOOSE i \in at : TRUE IN
       [i \in 1..(Len(q) - 1) |-> IF i < k THEN q[i] ELSE q[i + 1]]

\* the guards of ls are dropped; that of a replacement ends its epoch
Unlock(p, ls) ==
  /\ queue' = [l \in Locks |-> IF l \in ls THEN Leave(queue[l], p) ELSE queue[l]]
  /\ epoch' = IF "mutation" \in ls /\ proc[p].replacing THEN epoch + 1 ELSE epoch

Begin(p, op) ==
  /\ Become(p, [Idle EXCEPT !.op = op])
  /\ UNCHANGED <<locking, world>>

\* A command of the user, a request or a task; a request needs the listener.
Start(p) ==
  /\ p \in Procs /\ proc[p].op = Nothing
  /\ \E i \in DOMAIN todo :
       /\ \A j \in 1..(i - 1) : todo[j] # todo[i]
       /\ IsRest(todo[i]) => server.open
       /\ todo' = RemoveAt(todo, i)
       /\ Begin(p, todo[i])

\* A request that finds no listener is refused by the system.
Refused ==
  /\ ~server.open /\ Live = {} /\ todo # <<>> /\ \A i \in DOMAIN todo : IsRest(todo[i])
  /\ todo' = <<>>
  /\ UNCHANGED <<proc, locking, world>>

Acquire(p) ==
  /\ At(p, "lock") \/ At(p, "read")
  /\ queue' = [queue EXCEPT ![Arg(p)] = Append(@, [by |-> p, shared |-> Instr(p)[1] = "read"])]
  /\ Go(p)
  /\ UNCHANGED <<todo, epoch, world>>

Release(p) ==
  /\ At(p, "drop")
  /\ Unlock(p, Arg(p))
  /\ GoWith(p, [proc[p] EXCEPT !.replacing = @ /\ "mutation" \notin Arg(p)])
  /\ UNCHANGED <<todo, world>>

CatchStep(p) ==
  /\ At(p, "catch")
  /\ IF proc[p].failed
     THEN /\ Unlock(p, Locks \ Arg(p)[1])
          /\ GoWith(p, [proc[p] EXCEPT !.failed = FALSE, !.replacing = @ /\ "mutation" \in Arg(p)[1]])
     ELSE /\ Become(p, Skip(proc[p], 1 + Arg(p)[3])) /\ UNCHANGED locking
  /\ UNCHANGED <<todo, world>>

Return(p) ==
  /\ Ended(p)
  /\ Unlock(p, Locks) /\ Become(p, Idle)
  /\ UNCHANGED <<todo, world>>

\* config_mutations.lock after the mutex: the ticket must be of this, even epoch
LockFresh(p) == epoch = proc[p].ticket /\ epoch % 2 = 0

Ticket(p) ==
  /\ At(p, "ticket")
  /\ GoWith(p, [proc[p] EXCEPT !.ticket = epoch])
  /\ UNCHANGED <<todo, locking, world>>

Fresh(p) ==
  /\ At(p, "fresh")
  /\ IF LockFresh(p) THEN Go(p) ELSE Fail(p)
  /\ UNCHANGED <<todo, locking, world>>

BeginReplacement(p) ==
  /\ At(p, "replace")
  /\ epoch' = epoch + 1
  /\ GoWith(p, [proc[p] EXCEPT !.replacing = TRUE])
  /\ UNCHANGED <<todo, queue, world>>

-----------------------------------------------------------------------------
(* What steps look at.                                                     *)

Exists == {s \in Sessions : conf.ver[s] # 0}
\* configured_allowed_sessions
Configured == conf.allow \cap Exists
OfTarget(origin) == {c \in conns : c.o = origin /\ c.s = Target}
\* the sessions a handler's server allows; a server that is gone keeps its own cache
View(p) == IF proc[p].view = Nothing THEN server.cache ELSE proc[p].view
Handlers == {p \in Live : IsRest(proc[p].op) /\ proc[p].view = Nothing}

Condition(p, c) ==
  \/ c = "running" /\ server.inSlot
  \/ c = "stopped" /\ ~server.inSlot
  \/ c = "finished" /\ server.inSlot /\ ~server.open /\ Handlers = {}
  \/ c = "noKey" /\ ~conf.key
  \/ c = "noneAllowed" /\ proc[p].allowed = {}
  \/ c = "someAllowed" /\ proc[p].allowed # {}
  \/ c = "hadHandle" /\ proc[p].handle
  \/ c = "wasRunning" /\ proc[p].was
  \/ c = "changed" /\ proc[p].changed
  \/ c = "noForward" /\ \A f \in fwds : ~f.on
  \/ c = "tunnelForward" /\ fwds # {}
  \/ c = "restorable" /\ conf.tunnel # 0 /\ conf.on /\ OfTarget("desktop") # {}
  \/ c = "disabled" /\ ~conf.on
  \/ c = "disconnected" /\ OfTarget("automation") = {}

Unless(p) ==
  /\ At(p, "unless")
  /\ Become(p, Skip(proc[p], IF Condition(p, Arg(p)[1]) THEN 1 ELSE 1 + Arg(p)[2]))
  /\ UNCHANGED <<todo, locking, world>>

verify_session_access(p) == Target \in View(p)

Check(p, c) ==
  \/ c \in Refusals
  \/ c = "validBackup" /\ conf.recs # {}
  \/ c = "access" /\ verify_session_access(p)
  \/ c = "accessAndExists" /\ verify_session_access(p) /\ Target \in Exists
  \/ c = "notShutting" /\ startup.phase = "none"
  \/ c = "notCancelled" /\ ~startup.cancelled /\ startup.phase = "none"
  \/ c = "names" /\ proc[p].allowed # {} /\ proc[p].allowed \subseteq Exists
  \/ c = "tunnelExists" /\ conf.tunnel # 0
  \/ c = "listed" /\ \E x \in conns : x.id = proc[p].conn
  \/ c = "wanted" /\ conf.tunnel # 0 /\ conf.on
Verify(p) ==
  /\ \E c \in Checks : /\ At(p, c)
                       /\ \/ Check(p, c) /\ Go(p)
                          \/ (c \in Refusals \/ ~Check(p, c)) /\ Fail(p)
  /\ UNCHANGED <<todo, locking, world>>

\* the sessions the server is to allow: those of the vault that exist, all that
\* the vault names, those of the running server, or those of an automatic start
Choose(p) ==
  /\ \/ At(p, "configured") /\ GoWith(p, [proc[p] EXCEPT !.allowed = Configured])
     \/ /\ At(p, "normalized")
        /\ IF conf.allow = {} THEN Fail(p) ELSE GoWith(p, [proc[p] EXCEPT !.allowed = conf.allow])
     \/ At(p, "cached") /\ GoWith(p, [proc[p] EXCEPT !.allowed = server.cache])
     \/ /\ At(p, "wantsStart")
        /\ IF conf.auto /\ Configured # {} THEN GoWith(p, [proc[p] EXCEPT !.allowed = Configured])
           ELSE Fail(p)
  /\ UNCHANGED <<todo, locking, world>>

-----------------------------------------------------------------------------
(* The vault.                                                              *)

Newest(rs, n) == {r \in rs : Cardinality({q \in rs : q > r}) < n}
NewVersion == clock + 1
SetVersion(v) == [conf EXCEPT !.ver[Target] = v]

\* the vaults an edit may leave; none: it refuses

store_settings_proxy_update ==
  {[conf EXCEPT !.ver = [s \in Sessions |-> IF s \in Exists THEN NewVersion ELSE 0]]}

\* sessions that do not exist are refused, and a start without sessions
Authorised(a, b) == [conf EXCEPT !.allow = a, !.auto = b]
store_settings_ai_api_update(p) ==
  {c \in {Authorised(a, b) : a \in SUBSET Exists, b \in BOOLEAN} :
     c.allow = {} => ~c.auto /\ proc[p].op # "api_server_configure_and_start"}

store_settings_ai_api_key_update == {[conf EXCEPT !.key = TRUE]}

\* what was changed is only the name or the like, or a connection depends on it
store_update_session == IF Target \in Exists THEN {conf, SetVersion(NewVersion)} ELSE {}

store_delete_session ==
  LET allow == conf.allow \ {Target} IN
  IF Target \notin Exists THEN {}
  ELSE {[SetVersion(0) EXCEPT !.tunnel = 0, !.on = FALSE, !.allow = allow,
                              !.auto = @ /\ allow # {}]}

store_trust_host_key ==
  IF Target \in Exists THEN {conf, [conf EXCEPT !.pin = NewVersion]} ELSE {}

\* validate_tunnel_input: the tunnel's session exists
store_create_tunnel ==
  IF Target \in Exists /\ conf.tunnel = 0
  THEN {[conf EXCEPT !.tunnel = NewVersion, !.on = b] : b \in BOOLEAN} ELSE {}

store_update_tunnel ==
  IF Target \in Exists /\ conf.tunnel # 0 THEN {[conf EXCEPT !.tunnel = NewVersion]} ELSE {}

store_delete_tunnel ==
  IF conf.tunnel # 0 THEN {[conf EXCEPT !.tunnel = 0, !.on = FALSE]} ELSE {}

store_set_tunnel_enabled(values) ==
  IF conf.tunnel # 0 THEN {[conf EXCEPT !.on = b] : b \in values} ELSE {}

store_settings_backup_update == {[conf EXCEPT !.recs = Newest(@, n)] : n \in {1, Retained}}

store_replace_backup_records(p) == {[conf EXCEPT !.recs = Newest(proc[p].recs, Retained)]}

store_delete_backup_record == {[conf EXCEPT !.recs = @ \ {r}] : r \in conf.recs}

\* backup_import: whatever an older vault held
Imported(v, a) ==
  [SetVersion(v) EXCEPT !.allow = a, !.auto = (a # {}), !.recs = {1},
                        !.tunnel = IF v = NewVersion THEN v ELSE 0, !.on = (v = NewVersion)]
store_backup_import ==
  {Imported(v, a) : v \in {conf.ver[Target], NewVersion, 0}, a \in SUBSET Sessions}

Written(p, what) ==
  CASE what = "other" -> {conf}
    [] what = "key" -> store_settings_ai_api_key_update
    [] what = "session" -> store_update_session
    [] what = "delete" -> store_delete_session
    [] what = "trust" -> store_trust_host_key
    [] what = "proxy" -> store_settings_proxy_update
    [] what = "allow" -> store_settings_ai_api_update(p)
    [] what = "tunnelCreate" -> store_create_tunnel
    [] what = "tunnelUpdate" -> store_update_tunnel
    [] what = "tunnelDelete" -> store_delete_tunnel
    [] what = "enabled" -> store_set_tunnel_enabled(BOOLEAN)
    [] what = "disable" -> store_set_tunnel_enabled({FALSE})
    [] what = "retention" -> store_settings_backup_update
    [] what = "records" -> store_replace_backup_records(p)
    [] what = "recordDelete" -> store_delete_backup_record
    [] what = "recordsClear" -> {[conf EXCEPT !.recs = {}]}
    [] what = "import" -> store_backup_import

\* the files whose records the edit dropped
CleanupTargets(p, what, c) ==
  CASE what = "records" -> proc[p].recs \ c.recs
    [] what \in {"retention", "recordDelete"} -> conf.recs \ c.recs
    [] OTHER -> {}

Noted(p) == seen.late \cup (LateOps \cap {proc[p].op})

\* with_store(... mutate ...): the edit, or a refusal or failed write that changes nothing
Edit(p) ==
  /\ At(p, "edit")
  /\ \/ /\ \E c \in Written(p, Arg(p)) :
             /\ conf' = c
             /\ \E d \in {{}, CleanupTargets(p, Arg(p), c)} :
                  /\ Arg(p) # "recordDelete" => d = CleanupTargets(p, Arg(p), c)
                  /\ GoWith(p, [proc[p] EXCEPT !.changed = c.ver # conf.ver, !.doomed = d,
                                               !.allowed = IF Arg(p) = "allow" THEN c.allow ELSE @])
        /\ clock' = IF Arg(p) \in {"session", "trust", "proxy", "tunnelCreate", "tunnelUpdate", "import"}
                    THEN NewVersion ELSE clock
        /\ seen' = [seen EXCEPT !.imported = @ \/ Arg(p) = "import", !.late = Noted(p)]
     \/ Fail(p) /\ UNCHANGED <<conf, clock, seen>>
  /\ UNCHANGED <<todo, locking, remote, server, startup, files>>

-----------------------------------------------------------------------------
(* Connections and forwards.                                               *)

\* closing a connection cancels its forwards
Retain(cs) == /\ conns' = cs
              /\ fwds' = {f \in fwds : \E c \in cs : c.id = f.c}

Build(p) ==
  /\ At(p, "build")
  /\ IF Target \in Exists THEN GoWith(p, [proc[p] EXCEPT !.built = conf.ver[Target], !.pin = conf.pin]) ELSE Fail(p)
  /\ UNCHANGED <<todo, locking, world>>

\* connect and api_connect_session reuse a connection, connect_new does not
Connect(p) ==
  LET o == IF Arg(p) = "automation" THEN "automation" ELSE "desktop" IN
  /\ At(p, "connect")
  /\ \/ /\ Arg(p) # "new" /\ \E c \in OfTarget(o) : GoWith(p, [proc[p] EXCEPT !.conn = c.id])
        /\ UNCHANGED <<conns, clock>>
     \/ /\ Arg(p) = "new" \/ OfTarget(o) = {}
        /\ conns' = conns \cup {[o |-> o, s |-> Target, v |-> proc[p].built, id |-> NewVersion]}
        /\ clock' = NewVersion
        /\ GoWith(p, [proc[p] EXCEPT !.conn = NewVersion])
     \/ Fail(p) /\ UNCHANGED <<conns, clock>>
  /\ UNCHANGED <<todo, locking, conf, fwds, server, startup, files, seen>>

\* api_disconnect_session: an automation connection of the session, if there is one
DisconnectAutomation ==
  \/ OfTarget("automation") = {} /\ UNCHANGED remote
  \/ \E c \in OfTarget("automation") : Retain(conns \ {c})

\* session_matches_current_connection_config
StillValid(p) ==
  /\ At(p, "valid")
  /\ IF proc[p].built = conf.ver[Target] /\ proc[p].pin = conf.pin
     THEN Go(p) /\ UNCHANGED remote
     ELSE /\ Fail(p)
          /\ IF Arg(p) = "desktop" THEN Retain({c \in conns : c.id # proc[p].conn})
             ELSE DisconnectAutomation
  /\ UNCHANGED <<todo, locking, conf, clock, server, startup, files, seen>>

StillAllowed(p) ==
  /\ At(p, "stillAllowed") \/ At(p, "stillAllowedForward")
  /\ IF verify_session_access(p) THEN Go(p) /\ UNCHANGED remote
     ELSE Fail(p) /\ DisconnectAutomation
  /\ UNCHANGED <<todo, locking, conf, clock, server, startup, files, seen>>

Close(p) ==
  /\ \/ At(p, "closeSession") /\ Retain({c \in conns : c.s # Target})
     \/ At(p, "closeAll") /\ Retain({})
     \/ /\ At(p, "closeDisallowed")
        /\ Retain({c \in conns : c.o = "automation" => c.s \in proc[p].allowed})
     \/ At(p, "apiDisconnect") /\ DisconnectAutomation
     \/ At(p, "disconnect") /\ \E c \in OfTarget("desktop") : Retain(conns \ {c})
     \/ At(p, "disconnect") /\ OfTarget("desktop") = {} /\ UNCHANGED remote
  /\ Go(p)
  /\ UNCHANGED <<todo, locking, conf, clock, server, startup, files, seen>>

\* a command, listing, upload, probe, or the opening of a channel on the connection
Use(p) ==
  /\ At(p, "use") \/ At(p, "open")
  /\ \/ OfTarget(Arg(p)) # {} /\ Go(p)
     \/ Fail(p)
  /\ UNCHANGED <<todo, locking, world>>

\* forward_start_*: an active forward of the tunnel and origin is returned; a failed start
\* of a tunnel the desktop restores leaves a failed record
ForwardStart(p) ==
  LET o == IF Arg(p) = "automation" THEN "automation" ELSE "desktop"
      on == {c \in OfTarget(o) : Arg(p) = "automation" \/ proc[p].conn \in {0, c.id}}
      Record(c, active) == [v |-> IF Arg(p) = "form" THEN 0 ELSE conf.tunnel, c |-> c.id, o |-> o,
                            on |-> active] IN
  /\ At(p, "forward")
  /\ \/ /\ on # {} /\ Go(p)
        /\ IF \E f \in fwds : f.o = o /\ f.on THEN UNCHANGED fwds
           ELSE \E c \in on : fwds' = fwds \cup {Record(c, TRUE)}
     \/ /\ Fail(p)
        /\ \/ Arg(p) = "desktop" /\ \E c \in on : fwds' = fwds \cup {Record(c, FALSE)}
           \/ (Arg(p) # "desktop" \/ on = {}) /\ UNCHANGED fwds
  /\ UNCHANGED <<todo, locking, conf, clock, conns, server, startup, files, seen>>

\* stop_forwards_for_tunnel: a remote listener whose cancellation fails stays, as failed
Stopped(p) == {f \in fwds : Arg(p) = "any" \/ f.o = Arg(p)}
StopForwards(p) ==
  LET these == Stopped(p) IN
  /\ At(p, "stopForwards")
  /\ \/ fwds' = fwds \ these /\ Go(p)
     \/ /\ \E f \in these, gone \in SUBSET these :
             /\ f \notin gone
             /\ fwds' = (fwds \ (gone \cup {f})) \cup {[f EXCEPT !.on = FALSE]}
        /\ Fail(p)
  /\ UNCHANGED <<todo, locking, conf, clock, conns, server, startup, files, seen>>

StopOne(p) ==
  /\ At(p, "forwardStop")
  /\ \/ \E f \in fwds : fwds' = fwds \ {f} /\ Go(p)
     \/ \E f \in fwds : fwds' = (fwds \ {f}) \cup {[f EXCEPT !.on = FALSE]} /\ Fail(p)
     \/ fwds = {} /\ Fail(p) /\ UNCHANGED fwds
  /\ UNCHANGED <<todo, locking, conf, clock, conns, server, startup, files, seen>>

\* spawn_tunnel_restore
SpawnRestore(p) ==
  /\ At(p, "spawnRestore") /\ proc[Restorer].op = Nothing
  /\ proc' = [proc EXCEPT ![p] = Skip(@, 1),
                          ![Restorer] = [Idle EXCEPT !.op = "restore_tunnels_after_connect",
                                                     !.conn = proc[p].conn]]
  /\ UNCHANGED <<todo, locking, world>>

-----------------------------------------------------------------------------
(* The REST server.                                                        *)

ServerStep(p) ==
  /\ \/ /\ At(p, "requestShutdown")
        /\ server' = [server EXCEPT !.open = @ /\ ~server.inSlot] /\ Go(p)
     \/ /\ At(p, "take")
        /\ server' = [server EXCEPT !.inSlot = FALSE]
        /\ GoWith(p, [proc[p] EXCEPT !.handle = server.inSlot, !.was = server.inSlot /\ server.open])
     \/ At(p, "cache") /\ server' = [server EXCEPT !.cache = proc[p].allowed] /\ Go(p)
     \/ At(p, "install") /\ server' = [server EXCEPT !.inSlot = TRUE] /\ Go(p)
  /\ UNCHANGED <<todo, locking, conf, clock, remote, startup, files, seen>>

\* start_server; another process may hold the port
StartServer(p) ==
  /\ At(p, "start") \/ At(p, "restart")
  /\ \/ /\ server' = [open |-> TRUE, inSlot |-> Instr(p)[1] = "start", cache |-> proc[p].allowed]
        /\ Go(p)
        /\ seen' = [seen EXCEPT !.revived = @ \/ (/\ seen.stopped
                                                  /\ proc[p].op = "spawn_api_server_autostart")]
     \/ /\ \E b \in BOOLEAN : FailAs(p, [proc[p] EXCEPT !.busy = b])
        /\ UNCHANGED <<server, seen>>
  /\ UNCHANGED <<todo, locking, conf, clock, remote, startup, files>>

\* retry_api_start: only a port in use is tried again
Again(p) ==
  /\ At(p, "again")
  /\ IF proc[p].busy /\ proc[p].tries < Attempts
     THEN Become(p, [proc[p] EXCEPT !.pc = 1, !.busy = FALSE, !.tries = @ + 1])
     ELSE Go(p)
  /\ UNCHANGED <<todo, locking, world>>

\* ApiServerHandle::shutdown: the listener is closed, the handlers are waited for, at
\* most three seconds, and the automation connections are closed
Drain(p) ==
  LET closed == Retain({c \in conns : c.o # "automation"})
      next == [proc[p] EXCEPT !.handle = FALSE] IN
  /\ At(p, "drain")
  /\ \/ ~proc[p].handle /\ Go(p) /\ UNCHANGED <<remote, server, seen>>
     \/ /\ proc[p].handle /\ server.open /\ server' = [server EXCEPT !.open = FALSE]
        /\ UNCHANGED <<proc, remote, seen>>
     \/ /\ proc[p].handle /\ ~server.open /\ Handlers = {}
        /\ closed /\ GoWith(p, next) /\ UNCHANGED <<server, seen>>
     \/ /\ proc[p].handle /\ ~server.open /\ Handlers # {}
        /\ closed /\ UNCHANGED server
        /\ proc' = [q \in All |-> IF q = p THEN Skip(next, 1)
                                  ELSE IF q \in Handlers THEN [proc[q] EXCEPT !.view = server.cache]
                                  ELSE proc[q]]
        /\ seen' = [seen EXCEPT !.overrun = TRUE]
  /\ UNCHANGED <<todo, locking, conf, clock, startup, files>>

Startup(p) ==
  /\ \/ /\ At(p, "cancelStartup") /\ startup' = [startup EXCEPT !.cancelled = TRUE]
        /\ UNCHANGED seen
     \/ /\ At(p, "beginShutdown") /\ startup' = [startup EXCEPT !.phase = "in progress"]
        /\ UNCHANGED seen
     \/ /\ At(p, "shutdownDone") /\ startup' = [startup EXCEPT !.phase = "complete"]
        /\ seen' = [seen EXCEPT !.stopped = TRUE]
     \/ At(p, "stopReturns") /\ UNCHANGED startup /\ seen' = [seen EXCEPT !.stopped = TRUE]
  /\ Go(p)
  /\ UNCHANGED <<todo, locking, conf, clock, remote, server, files>>

\* the answer, if the session is still allowed
Reply(p) ==
  /\ At(p, "reply")
  /\ IF Arg(p) = "always" \/ verify_session_access(p) THEN Go(p) ELSE Fail(p)
  /\ UNCHANGED <<todo, locking, world>>

-----------------------------------------------------------------------------
(* Backups.                                                                *)

\* prepare_backup_run
Plan(p) ==
  /\ At(p, "plan")
  /\ GoWith(p, [proc[p] EXCEPT !.recs = conf.recs])
  /\ UNCHANGED <<todo, locking, world>>

\* run_backup and merge_configured_backup_records: the records are those of the files that
\* are listed or, when listing fails, those of the plan; a failed write adds no file
WriteBackup(p) ==
  /\ At(p, "writeBackup")
  /\ \/ \E new \in {{}, {NewVersion}} :
          /\ files' = files \cup new
          /\ clock' = IF new = {} THEN clock ELSE NewVersion
          /\ \E old \in {files, proc[p].recs} : GoWith(p, [proc[p] EXCEPT !.recs = old \cup new])
     \/ Fail(p) /\ UNCHANGED <<files, clock>>
  /\ UNCHANGED <<todo, locking, conf, remote, server, startup, seen>>

\* remove_backup_target_best_effort
RemoveFiles(p) ==
  /\ At(p, "removeFiles")
  /\ \E gone \in SUBSET proc[p].doomed : files' = files \ gone
  /\ Go(p)
  /\ seen' = [seen EXCEPT !.late = Noted(p)]
  /\ UNCHANGED <<todo, locking, conf, clock, remote, server, startup>>

-----------------------------------------------------------------------------
(* The client of a request goes away: its handler is dropped where it      *)
(* waits, its guards with it.                                              *)

\* p was waiting for a blocking call, which a thread makes or goes on with
GoesOn(p, what, left) ==
  \E t \in Pool :
    /\ proc[t].op = Nothing
    /\ proc' = [proc EXCEPT ![p] = Idle,
                            ![t] = [Idle EXCEPT !.op = what, !.recs = proc[p].recs, !.doomed = left]]

\* A forward that is being started, or has been taken out to be stopped, is forgotten: no
\* record names its listener, which at the remote host stays until the connection closes.
ClientGone(p) ==
  /\ p \in Live /\ IsRest(proc[p].op)
  /\ \/ /\ Waiting(p) \/ \E what \in {"connect", "use", "open", "forward"} : At(p, what)
        /\ Become(p, Idle) /\ UNCHANGED <<fwds, files>>
     \/ /\ At(p, "stopForwards")
        /\ \E gone \in SUBSET Stopped(p) : fwds' = fwds \ gone
        /\ Become(p, Idle) /\ UNCHANGED files
     \/ /\ At(p, "edit") /\ Arg(p) \in LateEdits /\ GoesOn(p, Arg(p), {})
        /\ UNCHANGED <<fwds, files>>
     \/ /\ At(p, "writeBackup") /\ GoesOn(p, "writeBackup", {})
        /\ UNCHANGED <<fwds, files>>
     \/ /\ At(p, "removeFiles")
        /\ \E gone \in SUBSET proc[p].doomed :
             /\ files' = files \ gone
             /\ \E f \in proc[p].doomed : GoesOn(p, "removeFiles", {f})
        /\ UNCHANGED fwds
  /\ Unlock(p, Locks)
  /\ UNCHANGED <<todo, conf, clock, conns, server, startup, seen>>

Step(p) ==
  \/ Acquire(p) \/ Release(p) \/ CatchStep(p) \/ Return(p)
  \/ Ticket(p) \/ Fresh(p) \/ BeginReplacement(p)
  \/ Unless(p) \/ Verify(p) \/ Choose(p) \/ Edit(p)
  \/ Build(p) \/ Connect(p) \/ StillValid(p) \/ StillAllowed(p) \/ Close(p) \/ Use(p)
  \/ ForwardStart(p) \/ StopForwards(p) \/ StopOne(p) \/ SpawnRestore(p)
  \/ ServerStep(p) \/ StartServer(p) \/ Again(p) \/ Drain(p) \/ Startup(p) \/ Reply(p)
  \/ Plan(p) \/ WriteBackup(p) \/ RemoveFiles(p)

Done == Quiet /\ UNCHANGED operationsVars

OperationsNext ==
  \/ \E p \in All : (Runs(p) /\ Step(p)) \/ Start(p) \/ ClientGone(p)
  \/ Refused \/ Done

OperationsSpec == OperationsInit /\ [][OperationsNext]_operationsVars

-----------------------------------------------------------------------------
(* Properties.                                                             *)

\* The locks are never held in a circle: as long as operations run, one of them
\* does not wait for a lock (the order apiOp, server, backup, tunnel, gate, mutation
\* of commands/ and api_server/, with its exceptions).
NoStuck == Live # {} => \E p \in Live : ~Waiting(p)

\* The process that drains the server holds no lock that a handler it waits for
\* needs (ApiServerHandle::shutdown would lose its three seconds and abort it).
DrainNotSelfBlocked ==
  \A p \in Live, q \in Handlers : At(p, "drain") /\ proc[p].handle => ~Blocks(p, q)

\* Unless a drain was cut short: when nothing is in progress, every connection was made
\* with the configuration its session has now, the pinned host key apart
\* (connection_config_gate and the comparison after connecting).
ConnectionsCurrent == Quiet /\ ~seen.overrun => \A c \in conns : c.v = conf.ver[c.s]

\* Unless a drain was cut short: when nobody changes it, a running server allows the
\* sessions the vault authorises, and when nothing is in progress the automation
\* connections are of those sessions (sync_api_server_authorization_cache,
\* reconcile_api_server_with_snapshot, and the checks after connecting).
AuthorizationHolds ==
  ~seen.overrun =>
    /\ queue["apiOp"] = <<>> /\ server.inSlot => server.cache = Configured
    /\ Quiet => \A c \in conns : c.o = "automation" => server.open /\ c.s \in server.cache

\* When nothing is in progress, the forwards the vault's tunnel started are those of
\* the tunnel as it is, on a connection that exists (tunnel_operation), unless the tunnel
\* was changed for a request that was dropped, and its guards with it.
ForwardsMatch ==
  Quiet => \A f \in fwds :
             /\ f.v # 0 /\ seen.late \cap {"tunnelUpdate", "tunnelDelete"} = {} => f.v = conf.tunnel
             /\ \E c \in conns : c.id = f.c /\ c.o = f.o

\* While nobody works on backups, each record has its file, unless the vault was
\* replaced by one with older records (backup_operation), or a dropped request's records
\* were stored, or its file removed, when others already had the lock.
NoDanglingRecord ==
  queue["backup"] = <<>> /\ ~seen.imported /\ seen.late \cap {"records", "removeFiles"} = {} =>
    conf.recs \subseteq files

\* The automatic start never opens a server after a stop or the shutdown has returned
\* (the cancellation is checked under the lock that the stop takes).
StopWins == ~seen.revived
=============================================================================
