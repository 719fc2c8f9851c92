----------------------------- MODULE Connections -----------------------------
(***************************************************************************)
(* The registries of RemoteRuntime (remote.rs): SSH connections and what   *)
(* hangs from them, terminals, SFTP sessions, telemetry jobs and forwards. *)
(*                                                                         *)
(* connect reuses a live connection of its session under a lock of that    *)
(* session.  A child is opened against a connection that may be cleaned up *)
(* meanwhile by a disconnect, the reaper of dead connections, a connect    *)
(* that finds it stale, the reader of a terminal that sees the handle      *)
(* dead, or shutdown_all.  Whoever takes the record out of "connections"   *)
(* closes the children kind by kind and announces the end.                 *)
(*                                                                         *)
(* All connections belong to one session and one origin; others share no   *)
(* lock with them.  The desktop also has connect_new, which never reuses.  *)
(* A connection is named after the connect that makes it; every connection *)
(* and child is used once.  Transfers are TransferQueue's.                 *)
(***************************************************************************)
EXTENDS Naturals, FiniteSets

CONSTANTS
  Conns,  \* connect commands, and the connections they make
  Kids,   \* terminals, SFTP sessions, telemetry jobs, forwards
  None    \* no connection

KindOrder == <<"terminal", "sftp", "telemetry", "forward">>
Kinds == {KindOrder[n] : n \in DOMAIN KindOrder}

ASSUME ConnectionsAssumption == None \notin Conns \cup Kids \cup Kinds

VARIABLES
  cpc,      \* progress of every connect
  fresh,    \* the connects that are connect_new
  stale,    \* the dead connection a connect found
  reg,      \* connections: the ones registered
  dead,     \* handles that are closed
  stage,    \* progress of the cleanup of every connection
  owner,    \* who cleans it up: a command, the reaper, the shutdown, a reader
  told,     \* Disconnected events of every connection
  kid,      \* progress of every child
  kind,     \* terminal, SFTP session, telemetry job or forward
  parent,   \* the connection it was opened on
  reader,   \* progress of the reader task of a terminal
  victims,  \* what the reaper found and has not looked at yet
  shut,     \* progress of shutdown_all
  list      \* connections it has still to close

connecting == <<cpc, fresh, stale>>
cleaning == <<stage, owner, told>>
children == <<kid, kind, parent, reader>>
shutting == <<shut, list>>
vars == <<connecting, reg, dead, cleaning, children, victims, shutting>>

Of(kd) == {k \in Kids : kind[k] = kd}
ChildrenOf(c, kd) == {k \in Of(kd) : parent[k] = c}
Registered == {k \in Kids : kid[k] \in {"registered", "failed"}}

Init ==
  /\ cpc = [c \in Conns |-> "idle"] /\ fresh = {} /\ stale = [c \in Conns |-> None]
  /\ reg = {} /\ dead = {}
  /\ stage = [c \in Conns |-> "none"] /\ owner = [c \in Conns |-> None]
  /\ told = [c \in Conns |-> 0]
  /\ kid = [k \in Kids |-> "idle"]
  /\ kind = [k \in Kids |-> None] /\ parent = [k \in Kids |-> None]
  /\ reader = [k \in Kids |-> "none"]
  /\ victims = {} /\ shut = "idle" /\ list = {}

Goto(c, where) == cpc' = [cpc EXCEPT ![c] = where]
Kid(k, where) == kid' = [kid EXCEPT ![k] = where]

(* What a command that holds the lifecycle gate for reading is up to.      *)
InsideConnect == {"session", "stale", "evict", "dial"}
InsideOpen == {"begun", "opening"}
GateHeld == \/ \E c \in Conns : cpc[c] \in InsideConnect
            \/ \E k \in Kids : kid[k] \in InsideOpen
\* a waiting writer of tokio's RwLock keeps new readers out
GateOpen == shut = "idle"

-----------------------------------------------------------------------------
(* Reaper and shutdown clean up one connection after the other.            *)
Busy(who) == \E c \in Conns : owner[c] = who /\ stage[c] # "over"

(* The record leaves the registry: its taker owns the cleanup.             *)
TakeOut(c, who) ==
  /\ reg' = reg \ {c}
  /\ stage' = [stage EXCEPT ![c] = "terminal"]
  /\ owner' = [owner EXCEPT ![c] = who]
  /\ UNCHANGED told

-----------------------------------------------------------------------------
(* connect_inner.                                                          *)

\* seeded fault: connect does not take the lifecycle gate
ConnectBeginUngated(c) ==
  /\ cpc[c] = "idle"
  /\ Goto(c, "session") /\ fresh' \in {fresh, fresh \cup {c}}
  /\ UNCHANGED <<stale, reg, dead, cleaning, children, victims, shutting>>

ConnectBegin(c) ==
  /\ cpc[c] = "idle" /\ GateOpen
  /\ Goto(c, "session") /\ fresh' \in {fresh, fresh \cup {c}}
  /\ UNCHANGED <<stale, reg, dead, cleaning, children, victims, shutting>>

\* seeded fault: the registry is searched before the lock is taken
ConnectFindUnlocked(c) ==
  /\ cpc[c] = "session"
  /\ \/ (reg = {} \/ c \in fresh) /\ Goto(c, "dial") /\ UNCHANGED stale
     \/ \E r \in reg : /\ c \notin fresh
                       /\ IF r \in dead
                          THEN Goto(c, "stale") /\ stale' = [stale EXCEPT ![c] = r]
                          ELSE Goto(c, "done") /\ UNCHANGED stale
  /\ UNCHANGED <<fresh, reg, dead, cleaning, children, victims, shutting>>

(* With the lock of the session: a registered connection is reused when it *)
(* lives and replaced when it is dead.                                     *)
ConnectFind(c) ==
  /\ cpc[c] = "session" /\ \A d \in Conns : cpc[d] \notin {"stale", "evict", "dial"}
  /\ \/ (reg = {} \/ c \in fresh) /\ Goto(c, "dial") /\ UNCHANGED stale
     \/ \E r \in reg : /\ c \notin fresh
                       /\ IF r \in dead
                          THEN Goto(c, "stale") /\ stale' = [stale EXCEPT ![c] = r]
                          ELSE Goto(c, "done") /\ UNCHANGED stale
  /\ UNCHANGED <<fresh, reg, dead, cleaning, children, victims, shutting>>

ConnectEvict(c) ==
  /\ cpc[c] = "stale"
  /\ IF stale[c] \in reg THEN TakeOut(stale[c], "command") /\ Goto(c, "evict")
     ELSE Goto(c, "dial") /\ UNCHANGED <<reg, cleaning>>
  /\ UNCHANGED <<fresh, stale, dead, children, victims, shutting>>

ConnectEvicted(c) ==
  /\ cpc[c] = "evict" /\ stage[stale[c]] = "over"
  /\ Goto(c, "dial")
  /\ UNCHANGED <<fresh, stale, reg, dead, cleaning, children, victims, shutting>>

(* Dialing, the key exchange or authentication fails or times out ...      *)
ConnectFails(c) ==
  /\ cpc[c] = "dial"
  /\ Goto(c, "done")
  /\ UNCHANGED <<fresh, stale, reg, dead, cleaning, children, victims, shutting>>

(* ... or the connection is registered.                                    *)
ConnectInserts(c) ==
  /\ cpc[c] = "dial"
  /\ reg' = reg \cup {c}
  /\ Goto(c, "done")
  /\ UNCHANGED <<fresh, stale, dead, cleaning, children, victims, shutting>>

(* keepalive_max is reached, or the server hangs up.                       *)
HandleDies(c) ==
  /\ c \in reg \ dead
  /\ dead' = dead \cup {c}
  /\ UNCHANGED <<connecting, reg, cleaning, children, victims, shutting>>

-----------------------------------------------------------------------------
(* open_terminal, open_sftp, telemetry_start, forward_start_*.             *)

\* the identifiers that connects have returned
Known == {c \in Conns : c \in reg \/ stage[c] # "none"}

(* open_sftp holds the open lock of the connection from here to the end.   *)
SftpOpening(c) == \E k \in ChildrenOf(c, "sftp") : kid[k] = "opening"
Reusable(c) == {k \in ChildrenOf(c, "sftp") : kid[k] = "registered"}

(* The connection is looked up; an SFTP session is reused, the telemetry   *)
(* of the session stopped first.                                           *)
LookedUp(k, kd, c) ==
  [j \in Kids |->
     IF j = k THEN IF c \in reg /\ (kd = "sftp" => Reusable(c) = {}) THEN "opening" ELSE "over"
     ELSE IF kd = "telemetry" /\ c \in reg /\ j \in Of(kd) \cap Registered THEN "over"
     ELSE kid[j]]

OpenBegin(k, kd, c) ==
  /\ kid[k] = "idle" /\ c \in Known /\ GateOpen
  /\ kid' = IF kd = "sftp" THEN [kid EXCEPT ![k] = "begun"] ELSE LookedUp(k, kd, c)
  /\ kind' = [kind EXCEPT ![k] = kd] /\ parent' = [parent EXCEPT ![k] = c]
  /\ UNCHANGED <<connecting, reg, dead, cleaning, reader, victims, shutting>>

OpenSftp(k) ==
  /\ kid[k] = "begun" /\ ~SftpOpening(parent[k])
  /\ kid' = LookedUp(k, "sftp", parent[k])
  /\ UNCHANGED <<connecting, reg, dead, cleaning, kind, parent, reader, victims, shutting>>

\* seeded fault: the connection is not looked up again
PublishUnchecked(k) ==
  /\ kid[k] = "opening"
  /\ \/ Kid(k, "registered")
        /\ reader' = [reader EXCEPT ![k] = IF kind[k] = "terminal" THEN "run" ELSE "none"]
     \/ Kid(k, "over") /\ UNCHANGED reader
  /\ UNCHANGED <<connecting, reg, dead, cleaning, kind, parent, victims, shutting>>

(* The child is inserted while "connections" is locked, if its connection  *)
(* is still there; open_sftp relies on its lock instead.  Opening the      *)
(* channel may have failed.                                                *)
Publish(k) ==
  /\ kid[k] = "opening"
  /\ \/ /\ kind[k] = "sftp" \/ parent[k] \in reg
        /\ Kid(k, "registered")
        /\ reader' = [reader EXCEPT ![k] = IF kind[k] = "terminal" THEN "run" ELSE "none"]
     \/ Kid(k, "over") /\ UNCHANGED reader
  /\ UNCHANGED <<connecting, reg, dead, cleaning, kind, parent, victims, shutting>>

-----------------------------------------------------------------------------
(* Children end by themselves or are closed by a command.                  *)

(* The channel ends: the reader takes its terminal out of the registry ... *)
ReaderEnds(k) ==
  /\ reader[k] = "run"
  /\ reader' = [reader EXCEPT ![k] = "check"]
  /\ IF kid[k] = "registered" THEN Kid(k, "over") ELSE UNCHANGED kid
  /\ UNCHANGED <<connecting, reg, dead, cleaning, kind, parent, victims, shutting>>

(* ... and cleans up the connection if its handle is dead.                 *)
ReaderChecks(k) ==
  /\ reader[k] = "check"
  /\ IF parent[k] \in reg \cap dead
     THEN TakeOut(parent[k], k) /\ reader' = [reader EXCEPT ![k] = "clean"]
     ELSE reader' = [reader EXCEPT ![k] = "gone"] /\ UNCHANGED <<reg, cleaning>>
  /\ UNCHANGED <<connecting, dead, kid, kind, parent, victims, shutting>>

(* terminal_close takes the record out and then aborts the reader, at      *)
(* whatever await it is.                                                   *)
TerminalClose(k) ==
  /\ kind[k] = "terminal" /\ kid[k] = "registered"
  /\ Kid(k, "closing")
  /\ UNCHANGED <<connecting, reg, dead, cleaning, kind, parent, reader, victims, shutting>>

TerminalAbort(k) ==
  /\ kid[k] = "closing"
  /\ Kid(k, "over")
  /\ reader' = [reader EXCEPT ![k] = "gone"]
  /\ stage' = IF reader[k] = "clean" THEN [stage EXCEPT ![parent[k]] = "aborted"] ELSE stage
  /\ UNCHANGED <<connecting, reg, dead, owner, told, kind, parent, victims, shutting>>

(* close_sftp, telemetry_stop, the end of a telemetry job after too many   *)
(* failures, the stop of a local or dynamic forward.                       *)
ChildEnds(k) ==
  /\ kind[k] # "terminal" /\ kid[k] \in {"registered", "failed"}
  /\ Kid(k, "over")
  /\ UNCHANGED <<connecting, reg, dead, cleaning, kind, parent, reader, victims, shutting>>

(* forward_stop_if_present of a remote forward: the record is out while    *)
(* the server is asked, and is put back when that fails.                   *)
ForwardStop(k) ==
  /\ kind[k] = "forward" /\ kid[k] \in {"registered", "failed"} /\ parent[k] \in reg
  /\ Kid(k, "stopping")
  /\ UNCHANGED <<connecting, reg, dead, cleaning, kind, parent, reader, victims, shutting>>

ForwardStopEnds(k) ==
  /\ kid[k] = "stopping"
  /\ Kid(k, "over") \/ Kid(k, "failed")
  /\ UNCHANGED <<connecting, reg, dead, cleaning, kind, parent, reader, victims, shutting>>

-----------------------------------------------------------------------------
(* close_children_for_connection and what follows it.                      *)

NextStage(kd) ==
  CASE kd = "terminal" -> "sftp" [] kd = "sftp" -> "telemetry"
    [] kd = "telemetry" -> "forward" [] kd = "forward" -> "announce"

(* A terminal is taken out, its reader aborted and joined.                 *)
CleanTerminal(c, k) ==
  /\ stage[c] = "terminal" /\ k \in ChildrenOf(c, "terminal") /\ kid[k] = "registered"
  /\ Kid(k, "over")
  /\ reader' = [reader EXCEPT ![k] = "gone"]
  /\ UNCHANGED <<connecting, reg, dead, cleaning, kind, parent, victims, shutting>>

\* seeded fault: the cleanup does not wait for an open under way
CleanKindUnlocked(c, kd) ==
  /\ stage[c] = kd
  /\ kd = "terminal" => ChildrenOf(c, kd) \cap Registered = {}
  /\ kid' = [k \in Kids |-> IF k \in ChildrenOf(c, kd) \cap Registered THEN "over" ELSE kid[k]]
  /\ stage' = [stage EXCEPT ![c] = NextStage(kd)]
  /\ UNCHANGED <<connecting, reg, dead, owner, told, kind, parent, reader, victims, shutting>>

(* The other kinds are taken out together; for SFTP sessions the cleanup   *)
(* needs the open lock (remove_sftp_sessions_for_connection).              *)
CleanKind(c, kd) ==
  /\ stage[c] = kd
  /\ kd = "terminal" => ChildrenOf(c, kd) \cap Registered = {}
  /\ kd = "sftp" => ~SftpOpening(c)
  /\ kid' = [k \in Kids |-> IF k \in ChildrenOf(c, kd) \cap Registered THEN "over" ELSE kid[k]]
  /\ stage' = [stage EXCEPT ![c] = NextStage(kd)]
  /\ UNCHANGED <<connecting, reg, dead, owner, told, kind, parent, reader, victims, shutting>>

(* The handle is disconnected and Disconnected emitted, whether or not     *)
(* that succeeded.                                                         *)
Announce(c) ==
  /\ stage[c] = "announce"
  /\ stage' = [stage EXCEPT ![c] = "over"]
  /\ dead' = dead \cup {c}
  /\ told' = [told EXCEPT ![c] = @ + 1]
  /\ reader' = IF owner[c] \in Kids THEN [reader EXCEPT ![owner[c]] = "gone"] ELSE reader
  /\ UNCHANGED <<connecting, reg, owner, kid, kind, parent, victims, shutting>>

-----------------------------------------------------------------------------
(* Who else takes connections out.                                         *)

Disconnect(c) ==
  /\ c \in reg
  /\ TakeOut(c, "command")
  /\ UNCHANGED <<connecting, dead, children, victims, shutting>>

(* reap_dead_connections, every 30 seconds: first the names, then one by   *)
(* one the records still there.                                            *)
ReapScan ==
  /\ victims = {} /\ reg \cap dead # {} /\ ~Busy("reaper")
  /\ victims' = reg \cap dead
  /\ UNCHANGED <<connecting, reg, dead, cleaning, children, shutting>>

ReapTake(c) ==
  /\ c \in victims /\ ~Busy("reaper")
  /\ victims' = victims \ {c}
  /\ IF c \in reg THEN TakeOut(c, "reaper") ELSE UNCHANGED <<reg, cleaning>>
  /\ UNCHANGED <<connecting, dead, children, shutting>>

ShutdownRequest ==
  /\ shut = "idle" /\ shut' = "waiting"
  /\ UNCHANGED <<connecting, reg, dead, cleaning, children, victims, list>>

ShutdownEnter ==
  /\ shut = "waiting" /\ ~GateHeld
  /\ shut' = "conns" /\ list' = reg
  /\ UNCHANGED <<connecting, reg, dead, cleaning, children, victims>>

ShutdownTake(c) ==
  /\ shut = "conns" /\ c \in list /\ ~Busy("shutdown")
  /\ list' = list \ {c}
  /\ IF c \in reg THEN TakeOut(c, "shutdown") ELSE UNCHANGED <<reg, cleaning>>
  /\ UNCHANGED <<connecting, dead, children, victims, shut>>

ShutdownConnsDone ==
  /\ shut = "conns" /\ list = {} /\ ~Busy("shutdown")
  /\ shut' = "terminal"
  /\ UNCHANGED <<connecting, reg, dead, cleaning, children, victims, list>>

(* close_all_orphans: whatever is left, kind by kind.                      *)
ShutdownDrain ==
  /\ shut \in Kinds
  /\ LET gone == Of(shut) \cap Registered
     IN /\ kid' = [k \in Kids |-> IF k \in gone THEN "over" ELSE kid[k]]
        /\ reader' = [k \in Kids |-> IF k \in gone /\ shut = "terminal" THEN "gone" ELSE reader[k]]
  /\ shut' = NextStage(shut)
  /\ UNCHANGED <<connecting, reg, dead, cleaning, kind, parent, victims, list>>

(* ... and the connections that are still there.                           *)
ShutdownDrainConns ==
  /\ shut = "announce" /\ shut' = "empty"
  /\ reg' = {} /\ dead' = dead \cup reg
  /\ stage' = [c \in Conns |-> IF c \in reg THEN "over" ELSE stage[c]]
  /\ told' = [c \in Conns |-> IF c \in reg THEN told[c] + 1 ELSE told[c]]
  /\ UNCHANGED <<connecting, owner, children, victims, list>>

ShutdownEnds ==
  /\ shut = "empty" /\ shut' = "idle"
  /\ UNCHANGED <<connecting, reg, dead, cleaning, children, victims, list>>

-----------------------------------------------------------------------------
ConnectStep(c) ==
  \/ ConnectBegin(c) \/ ConnectFind(c) \/ ConnectEvict(c) \/ ConnectEvicted(c)
  \/ ConnectFails(c) \/ ConnectInserts(c)
ChildStep(k) ==
  \/ (\E kd \in Kinds, c \in Conns : OpenBegin(k, kd, c)) \/ OpenSftp(k) \/ Publish(k)
  \/ ReaderEnds(k) \/ ReaderChecks(k) \/ TerminalClose(k) \/ TerminalAbort(k)
  \/ ChildEnds(k) \/ ForwardStop(k) \/ ForwardStopEnds(k)
CleanStep(c) ==
  \/ (\E k \in Kids : CleanTerminal(c, k)) \/ (\E kd \in Kinds : CleanKind(c, kd))
  \/ Announce(c)
ShutdownStep ==
  \/ ShutdownEnter \/ (\E c \in list : ShutdownTake(c)) \/ ShutdownConnsDone
  \/ ShutdownDrain \/ ShutdownDrainConns \/ ShutdownEnds

Next ==
  \/ \E c \in Conns : ConnectStep(c) \/ CleanStep(c) \/ HandleDies(c) \/ Disconnect(c)
  \/ \E k \in Kids : ChildStep(k)
  \/ ReapScan \/ (\E c \in victims : ReapTake(c))
  \/ ShutdownRequest \/ ShutdownStep

Spec == Init /\ [][Next]_vars

-----------------------------------------------------------------------------
(* As long as connect_new is not used (as the REST interface does not), a  *)
(* session has one connection: connect_inner reuses a live one and clears  *)
(* a dead one away before it dials, whoever else takes it out meanwhile.   *)
OneConnectionPerSession == fresh = {} => Cardinality(reg) <= 1

StagesLeft(kd) ==
  CASE kd = "terminal" -> {"terminal"}
    [] kd = "sftp" -> {"terminal", "sftp"}
    [] kd = "telemetry" -> {"terminal", "sftp", "telemetry"}
    [] kd = "forward" -> {"terminal", "sftp", "telemetry", "forward"}

(* A registered child has a registered connection, or the cleanup of that  *)
(* connection has its kind still before it: none is published behind the   *)
(* back of a cleanup, to stay for ever.  Apart from a cleanup that was     *)
(* aborted and a remote forward kept because the server refused its stop.  *)
NoOrphanChild ==
  \A k \in Kids : kid[k] = "registered" =>
    parent[k] \in reg \/ stage[parent[k]] \in StagesLeft(kind[k]) \cup {"aborted"}

(* A connection that was taken out is announced once, by whichever of the  *)
(* five takers won, and when it is no child of it is registered any more   *)
(* or ever again: the front end that hears Disconnected owns nothing.      *)
DisconnectedLast ==
  \A c \in Conns :
    /\ told[c] = IF stage[c] = "over" THEN 1 ELSE 0
    /\ told[c] = 1 => \A k \in Kids : parent[k] = c => kid[k] # "registered"

(* When shutdown_all is about to give the gate back nothing is registered, *)
(* however many opens, connects and cleanups it met.                       *)
ShutdownLeavesNothing ==
  shut = "empty" => reg = {} /\ \A k \in Kids : kid[k] # "registered"
=============================================================================
