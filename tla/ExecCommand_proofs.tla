------------------------- MODULE ExecCommand_proofs -------------------------
(* What holds of ExecCommand for any number of commands on a connection:   *)
(* nothing abandoned is left running, no refill survives the pool, and the *)
(* output reaches the reader and the result.  The first two need only the  *)
(* shape of a command (ExecInv); its output has an invariant of its own    *)
(* (OutputInv).                                                            *)
EXTENDS ExecCommand, TLAPS, FiniteSetTheorems, SequenceTheorems, WellFoundedInduction

Beginnings == {"begin", "schedule", "schedule_warm", "register", "register_warm", "open",
               "probe", "probing", "start"}
Waits == {"timed_out", "canceled", "failed"}
CommandPcs == Beginnings \cup {"starting", "running", "done"} \cup Waits

Shaped(f) ==
  /\ f = [c \in Commands |-> f[c]]
  /\ \A c \in Commands : /\ DOMAIN f[c] = DOMAIN Idle
                         /\ f[c].pc \in CommandPcs
                         /\ f[c].active \in BOOLEAN /\ f[c].tracked \in BOOLEAN

PoolType ==
  pool \in [closed : BOOLEAN, refilling : BOOLEAN, warm : BOOLEAN,
            task : Commands \cup {None}, closer : {"idle", "task", "idle_channel", "closed"}]
RefillType == refill \in [Commands -> {"none", "opening", "opened", "checked", "ended", "aborted"}]
TrackerType ==
  tracker \in [state : {"unknown", "supported", "unsupported"}, probing : Commands \cup {None}]
ProcType == proc \in [Commands -> {"none", "requested", "running", "exited", "killed"}]
TermType == term \in [Commands -> [signal : {"none", "send", "done"},
                                  sweep : {"none", "open", "done"}, missed : BOOLEAN]]
NetType == net \in [up : BOOLEAN, signals : BOOLEAN, faults : Nat, load : Loads]

ExecTypes ==
  /\ PoolType /\ RefillType /\ TrackerType
  /\ Shaped(cmd) /\ ProcType /\ TermType /\ NetType
  /\ DOMAIN inbox = Commands

Alive(c) == proc[c] \in {"requested", "running"}

(* The guard is active exactly while the command is requested or runs, and *)
(* only then is no termination under way for a command that has begun.     *)
Guarded ==
  \A c \in Commands :
    /\ cmd[c].active <=> cmd[c].pc \in {"starting", "running"}
    /\ cmd[c].pc \in Beginnings => proc[c] = "none" /\ term[c].signal = "none"
    /\ cmd[c].active => term[c].signal = "none"
    /\ cmd[c].pc \in Waits => term[c].signal # "none"
    /\ term[c].signal = "none" <=> term[c].sweep = "none"

(* A process without a guard has a termination, and a termination that has *)
(* done its part without a fault has ended the process.                    *)
Terminated ==
  \A c \in Commands : net.up /\ ~cmd[c].active =>
    /\ term[c].signal = "none" => ~Alive(c)
    /\ ~term[c].missed /\ term[c].signal = "done" /\ net.signals => ~Alive(c)
    /\ ~term[c].missed /\ term[c].sweep = "done" /\ cmd[c].tracked => ~Alive(c)

(* A refill that runs is in the slot of the pool, or the caller that has   *)
(* spawned it is about to put it there; the slot of a closed pool is empty *)
(* once close has looked at it.                                            *)
RefillOwned ==
  /\ pool.closed <=> pool.closer # "idle"
  /\ pool.closer \in {"idle_channel", "closed"} => pool.task = None
  /\ \A c \in Commands : Running(c) =>
       pool.task = c \/ cmd[c].pc \in {"register", "register_warm"}

ExecInv == ExecTypes /\ Guarded /\ Terminated /\ RefillOwned

LEMMA Flushing ==
  ASSUME NEW r, DOMAIN r = DOMAIN Idle
  PROVE /\ DOMAIN Flushed(r) = DOMAIN Idle /\ Flushed(r).pc = r.pc
        /\ Flushed(r).active = r.active /\ Flushed(r).tracked = r.tracked
BY DEF Flushed, Idle

LEMMA Queueing ==
  ASSUME NEW r, DOMAIN r = DOMAIN Idle, NEW s, NEW bytes
  PROVE /\ DOMAIN Queued(r, s, bytes) = DOMAIN Idle /\ Queued(r, s, bytes).pc = r.pc
        /\ Queued(r, s, bytes).active = r.active /\ Queued(r, s, bytes).tracked = r.tracked
<1> DEFINE ready == IF r.pending.s # s THEN Flushed(r) ELSE r
           grown == [ready EXCEPT !.pending = [s |-> s, bytes |-> ready.pending.bytes \o bytes]]
<1>1. /\ DOMAIN ready = DOMAIN Idle /\ ready.pc = r.pc
      /\ ready.active = r.active /\ ready.tracked = r.tracked
  BY Flushing
<1> HIDE DEF ready
<1>2. /\ DOMAIN grown = DOMAIN Idle /\ grown.pc = r.pc
      /\ grown.active = r.active /\ grown.tracked = r.tracked
  BY <1>1 DEF Idle
<1>3. Queued(r, s, bytes) = IF Len(grown.pending.bytes) >= Chunk THEN Flushed(grown) ELSE grown
  BY DEF Queued, ready
<1> HIDE DEF grown
<1> QED BY <1>2, <1>3, Flushing

Moves(c, pc, active, tracked) ==
  /\ Shaped(cmd)'
  /\ \A d \in Commands : d # c => cmd'[d] = cmd[d]
  /\ cmd'[c].pc = pc /\ cmd'[c].active = active /\ cmd'[c].tracked = tracked

LEMMA Replaced ==
  ASSUME Shaped(cmd), NEW c \in Commands, NEW r, DOMAIN r = DOMAIN Idle,
         r.pc \in CommandPcs, r.active \in BOOLEAN, r.tracked \in BOOLEAN,
         cmd' = [cmd EXCEPT ![c] = r]
  PROVE Moves(c, r.pc, r.active, r.tracked)
BY DEF Shaped, Moves

LEMMA Going ==
  ASSUME Shaped(cmd), NEW c \in Commands, NEW pc \in CommandPcs, Goto(c, pc)
  PROVE Moves(c, pc, cmd[c].active, cmd[c].tracked)
<1> DEFINE r == [cmd[c] EXCEPT !.pc = pc]
<1>1. /\ DOMAIN r = DOMAIN Idle /\ r.pc = pc
      /\ r.active = cmd[c].active /\ r.tracked = cmd[c].tracked
      /\ r.active \in BOOLEAN /\ r.tracked \in BOOLEAN
  BY DEF Shaped, Idle
<1>2. cmd' = [cmd EXCEPT ![c] = r]
  BY DEF Shaped, Goto
<1> HIDE DEF r
<1> QED BY <1>1, <1>2, Replaced

LEMMA Failing ==
  ASSUME Shaped(cmd), NEW c \in Commands, NEW reply, Fail(c, reply)
  PROVE Moves(c, "done", FALSE, cmd[c].tracked)
<1> DEFINE r == [Idle EXCEPT !.pc = "done", !.reply = reply, !.tracked = cmd[c].tracked]
<1>1. /\ DOMAIN r = DOMAIN Idle /\ r.pc = "done" /\ ~r.active
      /\ r.active \in BOOLEAN /\ r.tracked = cmd[c].tracked /\ r.tracked \in BOOLEAN
  BY DEF Shaped, Idle
<1>2. cmd' = [cmd EXCEPT ![c] = r]
  BY DEF Fail
<1> HIDE DEF r
<1> QED BY <1>1, <1>2, Replaced DEF CommandPcs
-----------------------------------------------------------------------------
(* The warm channel.                                                       *)
LEMMA TakeKeeps ==
  ASSUME ExecInv, NEW c \in Commands, Take(c)
  PROVE ExecInv'
<1> USE DEF ExecInv
<1>1. Moves(c, "schedule_warm", cmd[c].active, cmd[c].tracked)
      \/ Moves(c, "schedule", cmd[c].active, cmd[c].tracked)
  BY Going DEF ExecTypes, Take, CommandPcs, Beginnings
<1>2. ExecTypes'
  <2>1. PoolType'
    BY DEF ExecTypes, PoolType, Take, At
  <2> QED BY <1>1, <2>1 DEF ExecTypes, RefillType, TrackerType, ProcType, TermType, NetType,
       Moves, Take, At
<1>3. Guarded'
  BY <1>1 DEF ExecTypes, Guarded, Moves, Take, At, ProcType, TermType, NetType, Shaped,
       CommandPcs, Beginnings, Waits
<1>4. Terminated'
  BY <1>1 DEF ExecTypes, Terminated, Moves, Take, At, ProcType, TermType, NetType, Shaped,
       CommandPcs, Beginnings, Waits, Alive, Guarded
<1>5. RefillOwned'
  BY <1>1 DEF ExecTypes, RefillOwned, Moves, Take, At, PoolType, RefillType, Running
<1> QED BY <1>2, <1>3, <1>4, <1>5

LEMMA ScheduleKeeps ==
  ASSUME ExecInv, NEW c \in Commands, Schedule(c)
  PROVE ExecInv'
<1> USE DEF ExecInv
<1>1. \E pc \in {"probe", "open", "register", "register_warm"} :
        /\ Moves(c, pc, cmd[c].active, cmd[c].tracked)
        /\ pc \in {"register", "register_warm"} \/ UNCHANGED <<pool, refill>>
  <2>1. PICK pc \in {"probe", "open", "register", "register_warm"} :
          Goto(c, pc) /\ (pc \in {"register", "register_warm"} \/ UNCHANGED <<pool, refill>>)
    BY DEF Schedule, After
  <2> QED BY <2>1, Going DEF ExecTypes, CommandPcs, Beginnings
<1>2. ExecTypes'
  <2>1. PoolType'
    BY DEF ExecTypes, PoolType, Schedule, At
  <2>2. RefillType'
    BY DEF ExecTypes, RefillType, Schedule, At
  <2> QED BY <1>1, <2>1, <2>2 DEF ExecTypes, TrackerType, ProcType, TermType, NetType, Moves,
       Schedule, At
<1>3. Guarded'
  BY <1>1 DEF ExecTypes, Guarded, Moves, Schedule, At, ProcType, TermType, NetType,
       Shaped, CommandPcs, Beginnings, Waits
<1>4. Terminated'
  BY <1>1 DEF ExecTypes, Terminated, Moves, Schedule, At, ProcType, TermType, NetType,
       Shaped, CommandPcs, Beginnings, Waits, Alive, Guarded
<1>5. RefillOwned'
  BY <1>1 DEF ExecTypes, RefillOwned, Moves, Schedule, At, PoolType, RefillType, Running
<1> QED BY <1>2, <1>3, <1>4, <1>5

LEMMA RegisterKeeps ==
  ASSUME ExecInv, NEW c \in Commands, Register(c)
  PROVE ExecInv'
<1> USE DEF ExecInv
<1>1. \E pc \in {"probe", "open"} : Moves(c, pc, cmd[c].active, cmd[c].tracked)
  <2>1. PICK pc \in {"probe", "open"} : Goto(c, pc)
    BY DEF Register, Onwards
  <2> QED BY <2>1, Going DEF ExecTypes, CommandPcs, Beginnings
<1>2. ExecTypes'
  <2>1. PoolType'
    BY DEF ExecTypes, PoolType, Register, At, Aborted, Running
  <2>2. RefillType'
    BY DEF ExecTypes, RefillType, Register, At, Aborted, Running
  <2> QED BY <1>1, <2>1, <2>2 DEF ExecTypes, TrackerType, ProcType, TermType, NetType, Moves,
       Register, At, Aborted, Running
<1>3. Guarded'
  BY <1>1 DEF ExecTypes, Guarded, Moves, Register, At, Aborted, Running, ProcType,
       TermType, NetType, Shaped, CommandPcs, Beginnings, Waits
<1>4. Terminated'
  BY <1>1 DEF ExecTypes, Terminated, Moves, Register, At, Aborted, Running, ProcType,
       TermType, NetType, Shaped, CommandPcs, Beginnings, Waits, Alive, Guarded
<1>5. RefillOwned'
  BY <1>1 DEF ExecTypes, RefillOwned, Moves, Register, At, Aborted, Running, PoolType,
       RefillType
<1> QED BY <1>2, <1>3, <1>4, <1>5

LEMMA RefillKeeps ==
  ASSUME ExecInv, NEW c \in Commands, Refill(c)
  PROVE ExecInv'
<1> USE DEF ExecInv
<1>1. ExecTypes'
  <2>1. PoolType'
    BY DEF ExecTypes, PoolType, Refill, RequestFails, Fault
  <2>2. RefillType'
    BY DEF ExecTypes, RefillType, Refill, RequestFails, Fault
  <2>3. NetType'
    BY DEF ExecTypes, NetType, Refill, RequestFails, Fault
  <2> QED BY <2>1, <2>2, <2>3 DEF ExecTypes, TrackerType, ProcType, TermType, Shaped, Refill,
       RequestFails, Fault
<1>2. Guarded'
  BY DEF ExecTypes, Guarded, Refill, RequestFails, Fault, ProcType, TermType, NetType,
       Shaped, CommandPcs, Beginnings, Waits
<1>3. Terminated'
  BY DEF ExecTypes, Terminated, Refill, RequestFails, Fault, ProcType, TermType, NetType,
       Shaped, CommandPcs, Beginnings, Waits, Alive, Guarded
<1>4. RefillOwned'
  BY DEF ExecTypes, RefillOwned, Refill, RequestFails, Fault, PoolType, RefillType,
       Running
<1> QED BY <1>1, <1>2, <1>3, <1>4

LEMMA ClosePoolKeeps ==
  ASSUME ExecInv, ClosePool
  PROVE ExecInv'
<1> USE DEF ExecInv
<1>1. ExecTypes'
  <2>1. PoolType'
    BY DEF ExecTypes, PoolType, ClosePool, Aborted, Running
  <2>2. RefillType'
    BY DEF ExecTypes, RefillType, ClosePool, Aborted, Running
  <2>3. NetType'
    BY DEF ExecTypes, NetType, ClosePool, Aborted, Running
  <2> QED BY <2>1, <2>2, <2>3 DEF ExecTypes, TrackerType, ProcType, TermType, Shaped, ClosePool,
       Aborted, Running
<1>2. Guarded'
  BY DEF ExecTypes, Guarded, ClosePool, Aborted, Running, ProcType, TermType, NetType,
       Shaped, CommandPcs, Beginnings, Waits
<1>3. Terminated'
  BY DEF ExecTypes, Terminated, ClosePool, Aborted, Running, ProcType, TermType, NetType,
       Shaped, CommandPcs, Beginnings, Waits, Alive, Guarded
<1>4. RefillOwned'
  BY DEF ExecTypes, RefillOwned, ClosePool, Aborted, Running, PoolType, RefillType
<1> QED BY <1>1, <1>2, <1>3, <1>4

LEMMA OpenChannelKeeps ==
  ASSUME ExecInv, NEW c \in Commands, OpenChannel(c)
  PROVE ExecInv'
<1> USE DEF ExecInv
<1>1. \/ Moves(c, "probe", cmd[c].active, cmd[c].tracked)
      \/ Moves(c, "done", FALSE, cmd[c].tracked)
  BY Going, Failing DEF ExecTypes, OpenChannel, CommandPcs, Beginnings
<1>2. ExecTypes'
  <2>1. NetType'
    BY DEF ExecTypes, NetType, OpenChannel, At, RequestFails, Fault
  <2> QED BY <1>1, <2>1 DEF ExecTypes, PoolType, RefillType, TrackerType, ProcType, TermType,
       Moves, OpenChannel, At, RequestFails, Fault
<1>3. Guarded'
  BY <1>1 DEF ExecTypes, Guarded, Moves, OpenChannel, At, RequestFails, Fault, ProcType,
       TermType, NetType, Shaped, CommandPcs, Beginnings, Waits
<1>4. Terminated'
  BY <1>1 DEF ExecTypes, Terminated, Moves, OpenChannel, At, RequestFails, Fault,
       ProcType, TermType, NetType, Shaped, CommandPcs, Beginnings, Waits, Alive,
       Guarded
<1>5. RefillOwned'
  BY <1>1 DEF ExecTypes, RefillOwned, Moves, OpenChannel, At, RequestFails, Fault,
       PoolType, RefillType, Running
<1> QED BY <1>2, <1>3, <1>4, <1>5

-----------------------------------------------------------------------------
(* The probe and the command.                                              *)
LEMMA ProbeKeeps ==
  ASSUME ExecInv, NEW c \in Commands, Probe(c)
  PROVE ExecInv'
<1> USE DEF ExecInv
<1>1. \/ Moves(c, "probing", cmd[c].active, cmd[c].tracked)
      \/ Moves(c, "start", cmd[c].active, tracker.state = "supported")
  <2>1. CASE Goto(c, "probing")
    BY <2>1, Going DEF ExecTypes, CommandPcs, Beginnings
  <2>2. CASE cmd' = [cmd EXCEPT ![c].tracked = tracker.state = "supported", ![c].pc = "start"]
    <3> DEFINE r == [cmd[c] EXCEPT !.tracked = tracker.state = "supported", !.pc = "start"]
    <3>1. /\ DOMAIN r = DOMAIN Idle /\ r.pc = "start"
          /\ r.active = cmd[c].active /\ r.tracked = (tracker.state = "supported")
      BY DEF ExecTypes, Shaped, Idle
    <3>2. cmd' = [cmd EXCEPT ![c] = r]
      BY <2>2 DEF ExecTypes, Shaped
    <3>3. r.pc \in CommandPcs /\ r.active \in BOOLEAN /\ r.tracked \in BOOLEAN
      BY <3>1 DEF ExecTypes, Shaped, CommandPcs, Beginnings, Waits
    <3> HIDE DEF r
    <3> QED BY <3>1, <3>2, <3>3, Replaced DEF ExecTypes, Moves
  <2> QED BY <2>1, <2>2 DEF Probe
<1>2. ExecTypes'
  <2>1. TrackerType'
    BY DEF ExecTypes, TrackerType, Probe, At
  <2> QED BY <1>1, <2>1 DEF ExecTypes, PoolType, RefillType, ProcType, TermType, NetType, Moves,
       Probe, At
<1>3. Guarded'
  BY <1>1 DEF ExecTypes, Guarded, Moves, Probe, At, ProcType, TermType, NetType, Shaped,
       CommandPcs, Beginnings, Waits
<1>4. Terminated'
  BY <1>1 DEF ExecTypes, Terminated, Moves, Probe, At, ProcType, TermType, NetType,
       Shaped, CommandPcs, Beginnings, Waits, Alive, Guarded
<1>5. RefillOwned'
  BY <1>1 DEF ExecTypes, RefillOwned, Moves, Probe, At, PoolType, RefillType, Running
<1> QED BY <1>2, <1>3, <1>4, <1>5

LEMMA ProbeReturnsKeeps ==
  ASSUME ExecInv, NEW c \in Commands, ProbeReturns(c)
  PROVE ExecInv'
<1> USE DEF ExecInv
<1>1. \E known \in BOOLEAN : Moves(c, "start", cmd[c].active, known)
  <2>0. PICK known \in BOOLEAN :
          cmd' = [cmd EXCEPT ![c].tracked = known, ![c].pc = "start"]
    BY DEF ProbeReturns
  <2> DEFINE r == [cmd[c] EXCEPT !.tracked = known, !.pc = "start"]
  <2>1. /\ DOMAIN r = DOMAIN Idle /\ r.pc = "start"
        /\ r.active = cmd[c].active /\ r.tracked = known
    BY DEF ExecTypes, Shaped, Idle
  <2>2. cmd' = [cmd EXCEPT ![c] = r]
    BY <2>0 DEF ExecTypes, Shaped
  <2>3. r.pc \in CommandPcs /\ r.active \in BOOLEAN /\ r.tracked \in BOOLEAN
    BY <2>1 DEF ExecTypes, Shaped, CommandPcs, Beginnings, Waits
  <2> HIDE DEF r
  <2>4. Moves(c, r.pc, r.active, r.tracked)
    BY <2>1, <2>2, <2>3, Replaced DEF ExecTypes
  <2>5. Moves(c, "start", cmd[c].active, known)
    BY <2>1, <2>4
  <2> QED BY <2>5
<1>2. ExecTypes'
  <2>1. TrackerType'
    BY DEF ExecTypes, TrackerType, ProbeReturns, At
  <2> QED BY <1>1, <2>1 DEF ExecTypes, PoolType, RefillType, ProcType, TermType, NetType, Moves,
       ProbeReturns, At
<1>3. Guarded'
  BY <1>1 DEF ExecTypes, Guarded, Moves, ProbeReturns, At, ProcType, TermType, NetType,
       Shaped, CommandPcs, Beginnings, Waits
<1>4. Terminated'
  BY <1>1 DEF ExecTypes, Terminated, Moves, ProbeReturns, At, ProcType, TermType, NetType,
       Shaped, CommandPcs, Beginnings, Waits, Alive, Guarded
<1>5. RefillOwned'
  BY <1>1 DEF ExecTypes, RefillOwned, Moves, ProbeReturns, At, PoolType, RefillType,
       Running
<1> QED BY <1>2, <1>3, <1>4, <1>5

LEMMA StartKeeps ==
  ASSUME ExecInv, NEW c \in Commands, Start(c)
  PROVE ExecInv'
<1> USE DEF ExecInv
<1>1. Moves(c, "starting", TRUE, cmd[c].tracked)
  <2> DEFINE r == [cmd[c] EXCEPT !.pc = "starting", !.active = TRUE]
  <2>1. /\ DOMAIN r = DOMAIN Idle /\ r.pc = "starting"
        /\ r.active = TRUE /\ r.tracked = cmd[c].tracked
    BY DEF ExecTypes, Shaped, Idle
  <2>2. cmd' = [cmd EXCEPT ![c] = r]
    BY DEF ExecTypes, Shaped, Start
  <2>3. r.pc \in CommandPcs /\ r.active \in BOOLEAN /\ r.tracked \in BOOLEAN
    BY <2>1 DEF ExecTypes, Shaped, CommandPcs, Beginnings, Waits
  <2> HIDE DEF r
  <2> QED BY <2>1, <2>2, <2>3, Replaced DEF ExecTypes, Moves
<1>2. ExecTypes'
  <2>1. ProcType'
    BY DEF ExecTypes, ProcType, Start, At
  <2> QED BY <1>1, <2>1 DEF ExecTypes, PoolType, RefillType, TrackerType, TermType, NetType,
       Moves, Start, At
<1>3. Guarded'
  BY <1>1 DEF ExecTypes, Guarded, Moves, Start, At, ProcType, TermType, NetType, Shaped,
       CommandPcs, Beginnings, Waits
<1>4. Terminated'
  BY <1>1 DEF ExecTypes, Terminated, Moves, Start, At, ProcType, TermType, NetType,
       Shaped, CommandPcs, Beginnings, Waits, Alive, Guarded
<1>5. RefillOwned'
  BY <1>1 DEF ExecTypes, RefillOwned, Moves, Start, At, PoolType, RefillType, Running
<1> QED BY <1>2, <1>3, <1>4, <1>5

LEMMA StartedKeeps ==
  ASSUME ExecInv, NEW c \in Commands, Started(c)
  PROVE ExecInv'
<1> USE DEF ExecInv
<1>1. Moves(c, "running", TRUE, cmd[c].tracked)
  <2> DEFINE r == [cmd[c] EXCEPT !.pc = "running", !.active = TRUE]
  <2>1. /\ DOMAIN r = DOMAIN Idle /\ r.pc = "running"
        /\ r.active = TRUE /\ r.tracked = cmd[c].tracked
    BY DEF ExecTypes, Shaped, Idle
  <2>2. cmd' = [cmd EXCEPT ![c] = r]
    BY DEF ExecTypes, Shaped, Started
  <2>3. r.pc \in CommandPcs /\ r.active \in BOOLEAN /\ r.tracked \in BOOLEAN
    BY <2>1 DEF ExecTypes, Shaped, CommandPcs, Beginnings, Waits
  <2> HIDE DEF r
  <2> QED BY <2>1, <2>2, <2>3, Replaced DEF ExecTypes, Moves
<1>2. ExecTypes'
  <2> QED BY <1>1 DEF ExecTypes, PoolType, RefillType, TrackerType, ProcType, TermType, NetType,
       Moves, Started, At
<1>3. Guarded'
  BY <1>1 DEF ExecTypes, Guarded, Moves, Started, At, ProcType, TermType, NetType, Shaped,
       CommandPcs, Beginnings, Waits
<1>4. Terminated'
  BY <1>1 DEF ExecTypes, Terminated, Moves, Started, At, ProcType, TermType, NetType,
       Shaped, CommandPcs, Beginnings, Waits, Alive, Guarded
<1>5. RefillOwned'
  BY <1>1 DEF ExecTypes, RefillOwned, Moves, Started, At, PoolType, RefillType, Running
<1> QED BY <1>2, <1>3, <1>4, <1>5

LEMMA StartFailsKeeps ==
  ASSUME ExecInv, NEW c \in Commands, StartFails(c)
  PROVE ExecInv'
<1> USE DEF ExecInv
<1>1. Moves(c, "failed", FALSE, cmd[c].tracked)
  <2> DEFINE r == [cmd[c] EXCEPT !.pc = "failed", !.active = FALSE]
  <2>1. /\ DOMAIN r = DOMAIN Idle /\ r.pc = "failed"
        /\ r.active = FALSE /\ r.tracked = cmd[c].tracked
    BY DEF ExecTypes, Shaped, Idle
  <2>2. cmd' = [cmd EXCEPT ![c] = r]
    BY DEF ExecTypes, Shaped, StartFails
  <2>3. r.pc \in CommandPcs /\ r.active \in BOOLEAN /\ r.tracked \in BOOLEAN
    BY <2>1 DEF ExecTypes, Shaped, CommandPcs, Beginnings, Waits
  <2> HIDE DEF r
  <2> QED BY <2>1, <2>2, <2>3, Replaced DEF ExecTypes, Moves
<1>2. ExecTypes'
  <2>1. TermType'
    BY DEF ExecTypes, TermType, StartFails, At, RequestFails, Fault, Terminating
  <2>2. NetType'
    BY DEF ExecTypes, NetType, StartFails, At, RequestFails, Fault, Terminating
  <2> QED BY <1>1, <2>1, <2>2 DEF ExecTypes, PoolType, RefillType, TrackerType, ProcType, Moves,
       StartFails, At, RequestFails, Fault, Terminating
<1>3. Guarded'
  BY <1>1 DEF ExecTypes, Guarded, Moves, StartFails, At, RequestFails, Fault, Terminating,
       ProcType, TermType, NetType, Shaped, CommandPcs, Beginnings, Waits
<1>4. Terminated'
  BY <1>1 DEF ExecTypes, Terminated, Moves, StartFails, At, RequestFails, Fault,
       Terminating, ProcType, TermType, NetType, Shaped, CommandPcs, Beginnings, Waits,
       Alive, Guarded
<1>5. RefillOwned'
  BY <1>1 DEF ExecTypes, RefillOwned, Moves, StartFails, At, RequestFails, Fault,
       Terminating, PoolType, RefillType, Running
<1> QED BY <1>2, <1>3, <1>4, <1>5

LEMMA ReceiveKeeps ==
  ASSUME ExecInv, NEW c \in Commands, Receive(c)
  PROVE ExecInv'
<1> USE DEF ExecInv
<1>0. cmd[c].pc = "running" /\ UNCHANGED <<pool, refill, tracker, proc, term, net>>
  BY DEF Receive, At
<1>1. Moves(c, "running", cmd[c].active, cmd[c].tracked)
  <2> DEFINE msg == Head(inbox[c])
             one == [cmd[c] EXCEPT
                       !.seen = @ \o [i \in DOMAIN msg.bytes |-> [s |-> msg.s, b |-> msg.bytes[i]]],
                       !.out = IF msg.s = "out" THEN Push(@, msg.bytes) ELSE @,
                       !.err = IF msg.s = "err" THEN Push(@, msg.bytes) ELSE @]
             r == IF c \in Streamed THEN Queued(one, msg.s, msg.bytes) ELSE one
  <2>1. /\ DOMAIN one = DOMAIN Idle /\ one.pc = "running"
        /\ one.active = cmd[c].active /\ one.tracked = cmd[c].tracked
    BY DEF ExecTypes, Shaped, Idle, Receive, At
  <2>2. cmd' = [cmd EXCEPT ![c] = r]
    BY DEF Receive
  <2> HIDE DEF one
  <2>3. /\ DOMAIN r = DOMAIN Idle /\ r.pc = "running"
        /\ r.active = cmd[c].active /\ r.tracked = cmd[c].tracked
    BY <2>1, Queueing
  <2> HIDE DEF r
  <2> QED BY <2>2, <2>3, Replaced DEF ExecTypes, Shaped, CommandPcs, Moves
<1>2. ExecTypes'
  <2> QED BY <1>1 DEF ExecTypes, PoolType, RefillType, TrackerType, ProcType, TermType, NetType,
       Moves, Receive, At
<1>3. Guarded'
  BY <1>1, <1>0 DEF ExecTypes, Guarded, Moves, ProcType, TermType, NetType, Shaped,
       CommandPcs, Beginnings, Waits
<1>4. Terminated'
  BY <1>1, <1>0 DEF ExecTypes, Terminated, Moves, ProcType, TermType, NetType, Shaped,
       CommandPcs, Beginnings, Waits, Alive, Guarded
<1>5. RefillOwned'
  BY <1>1, <1>0 DEF ExecTypes, RefillOwned, Moves, PoolType, RefillType, Running
<1> QED BY <1>2, <1>3, <1>4, <1>5

LEMMA FlushTickKeeps ==
  ASSUME ExecInv, NEW c \in Commands, FlushTick(c)
  PROVE ExecInv'
<1> USE DEF ExecInv
<1>1. Moves(c, "running", cmd[c].active, cmd[c].tracked)
  <2> DEFINE r == Flushed(cmd[c])
  <2>1. cmd' = [cmd EXCEPT ![c] = r]
    BY DEF FlushTick
  <2>2. /\ DOMAIN r = DOMAIN Idle /\ r.pc = "running"
        /\ r.active = cmd[c].active /\ r.tracked = cmd[c].tracked
    BY Flushing DEF ExecTypes, Shaped, FlushTick, At
  <2> HIDE DEF r
  <2> QED BY <2>1, <2>2, Replaced DEF ExecTypes, Shaped, CommandPcs, Moves
<1>2. ExecTypes'
  <2> QED BY <1>1 DEF ExecTypes, PoolType, RefillType, TrackerType, ProcType, TermType, NetType,
       Moves, FlushTick, At
<1>3. Guarded'
  BY <1>1 DEF ExecTypes, Guarded, Moves, FlushTick, At, ProcType, TermType, NetType,
       Shaped, CommandPcs, Beginnings, Waits
<1>4. Terminated'
  BY <1>1 DEF ExecTypes, Terminated, Moves, FlushTick, At, ProcType, TermType, NetType,
       Shaped, CommandPcs, Beginnings, Waits, Alive, Guarded
<1>5. RefillOwned'
  BY <1>1 DEF ExecTypes, RefillOwned, Moves, FlushTick, At, PoolType, RefillType, Running
<1> QED BY <1>2, <1>3, <1>4, <1>5

LEMMA CompleteKeeps ==
  ASSUME ExecInv, NEW c \in Commands, Complete(c)
  PROVE ExecInv'
<1> USE DEF ExecInv
<1>1. Moves(c, "done", FALSE, cmd[c].tracked)
  <2> DEFINE last == Flushed(cmd[c])
             r == [last EXCEPT !.pc = "done", !.reply = "completed", !.active = FALSE]
  <2>1. cmd' = [cmd EXCEPT ![c] = r]
    BY DEF Complete
  <2>2. DOMAIN last = DOMAIN Idle /\ last.tracked = cmd[c].tracked
    BY Flushing DEF ExecTypes, Shaped
  <2> HIDE DEF last
  <2>3. DOMAIN r = DOMAIN Idle /\ r.pc = "done" /\ ~r.active /\ r.active \in BOOLEAN
        /\ r.tracked = cmd[c].tracked
    BY <2>2 DEF Idle
  <2> HIDE DEF r
  <2> QED BY <2>1, <2>3, Replaced DEF ExecTypes, Shaped, CommandPcs, Moves
<1>2. ExecTypes'
  <2> QED BY <1>1 DEF ExecTypes, PoolType, RefillType, TrackerType, ProcType, TermType, NetType,
       Moves, Complete, At
<1>3. Guarded'
  BY <1>1 DEF ExecTypes, Guarded, Moves, Complete, At, ProcType, TermType, NetType,
       Shaped, CommandPcs, Beginnings, Waits
<1>4. Terminated'
  BY <1>1 DEF ExecTypes, Terminated, Moves, Complete, At, ProcType, TermType, NetType,
       Shaped, CommandPcs, Beginnings, Waits, Alive, Guarded
<1>5. RefillOwned'
  BY <1>1 DEF ExecTypes, RefillOwned, Moves, Complete, At, PoolType, RefillType, Running
<1> QED BY <1>2, <1>3, <1>4, <1>5

LEMMA StopKeeps ==
  ASSUME ExecInv, NEW c \in Commands, Stop(c)
  PROVE ExecInv'
<1> USE DEF ExecInv
<1>1. \E pc \in {"timed_out", "canceled"} : Moves(c, pc, FALSE, cmd[c].tracked)
  <2>0. PICK pc \in {"timed_out", "canceled"} :
          cmd' = [cmd EXCEPT ![c].pc = pc, ![c].active = FALSE]
    BY DEF Stop
  <2> DEFINE r == [cmd[c] EXCEPT !.pc = pc, !.active = FALSE]
  <2>1. /\ DOMAIN r = DOMAIN Idle /\ r.pc = pc
        /\ r.active = FALSE /\ r.tracked = cmd[c].tracked
    BY DEF ExecTypes, Shaped, Idle
  <2>2. cmd' = [cmd EXCEPT ![c] = r]
    BY <2>0 DEF ExecTypes, Shaped
  <2>3. r.pc \in CommandPcs /\ r.active \in BOOLEAN /\ r.tracked \in BOOLEAN
    BY <2>1 DEF ExecTypes, Shaped, CommandPcs, Beginnings, Waits
  <2> HIDE DEF r
  <2>4. Moves(c, r.pc, r.active, r.tracked)
    BY <2>1, <2>2, <2>3, Replaced DEF ExecTypes
  <2>5. Moves(c, pc, FALSE, cmd[c].tracked)
    BY <2>1, <2>4
  <2> QED BY <2>5
<1>2. ExecTypes'
  <2>1. TermType'
    BY DEF ExecTypes, TermType, Stop, At, Terminating
  <2> QED BY <1>1, <2>1 DEF ExecTypes, PoolType, RefillType, TrackerType, ProcType, NetType,
       Moves, Stop, At, Terminating
<1>3. Guarded'
  BY <1>1 DEF ExecTypes, Guarded, Moves, Stop, At, Terminating, ProcType, TermType,
       NetType, Shaped, CommandPcs, Beginnings, Waits
<1>4. Terminated'
  BY <1>1 DEF ExecTypes, Terminated, Moves, Stop, At, Terminating, ProcType, TermType,
       NetType, Shaped, CommandPcs, Beginnings, Waits, Alive, Guarded
<1>5. RefillOwned'
  BY <1>1 DEF ExecTypes, RefillOwned, Moves, Stop, At, Terminating, PoolType, RefillType,
       Running
<1> QED BY <1>2, <1>3, <1>4, <1>5

LEMMA StoppedKeeps ==
  ASSUME ExecInv, NEW c \in Commands, Stopped(c)
  PROVE ExecInv'
<1> USE DEF ExecInv
<1>1. Moves(c, "done", FALSE, cmd[c].tracked)
  <2>1. CASE \E reply : Fail(c, reply)
    BY <2>1, Failing DEF ExecTypes
  <2>2. CASE At(c, "timed_out") /\ ~\E reply : Fail(c, reply)
    <3> DEFINE line == Line(cmd[c].err)
               late == [cmd[c] EXCEPT !.err = PushLine(@),
                          !.seen = @ \o [i \in DOMAIN line |-> [s |-> "err", b |-> line[i]]]]
               sent == IF c \in Streamed THEN Flushed(Queued(late, "err", <<TimeoutText>>))
                       ELSE late
               r == [sent EXCEPT !.pc = "done", !.reply = "timed_out"]
    <3>1. cmd' = [cmd EXCEPT ![c] = r]
      BY <2>2 DEF Stopped
    <3>2. /\ DOMAIN late = DOMAIN Idle /\ ~late.active /\ late.active \in BOOLEAN
          /\ late.tracked = cmd[c].tracked
      BY <2>2 DEF ExecTypes, Shaped, Guarded, Idle, At
    <3> HIDE DEF late
    <3>3. /\ DOMAIN sent = DOMAIN Idle /\ ~sent.active /\ sent.active \in BOOLEAN
          /\ sent.tracked = cmd[c].tracked
      BY <3>2, Queueing, Flushing
    <3> HIDE DEF sent
    <3>4. /\ DOMAIN r = DOMAIN Idle /\ r.pc = "done" /\ ~r.active /\ r.active \in BOOLEAN
          /\ r.tracked = cmd[c].tracked
      BY <3>3 DEF Idle
    <3> HIDE DEF r
    <3> QED BY <3>1, <3>4, Replaced DEF ExecTypes, Shaped, CommandPcs, Moves
  <2> QED BY <2>1, <2>2 DEF Stopped
<1>2. ExecTypes'
  <2> QED BY <1>1 DEF ExecTypes, PoolType, RefillType, TrackerType, ProcType, TermType, NetType,
       Moves, Stopped, TermOver, At
<1>3. Guarded'
  BY <1>1 DEF ExecTypes, Guarded, Moves, Stopped, TermOver, At, ProcType, TermType,
       NetType, Shaped, CommandPcs, Beginnings, Waits
<1>4. Terminated'
  BY <1>1 DEF ExecTypes, Terminated, Moves, Stopped, TermOver, At, ProcType, TermType,
       NetType, Shaped, CommandPcs, Beginnings, Waits, Alive, Guarded
<1>5. RefillOwned'
  BY <1>1 DEF ExecTypes, RefillOwned, Moves, Stopped, TermOver, At, PoolType, RefillType,
       Running
<1> QED BY <1>2, <1>3, <1>4, <1>5

LEMMA DroppedKeeps ==
  ASSUME ExecInv, NEW c \in Commands, Dropped(c)
  PROVE ExecInv'
<1> USE DEF ExecInv
<1>1. Moves(c, "done", FALSE, cmd[c].tracked)
  BY Failing DEF ExecTypes, Dropped
<1>2. ExecTypes'
  <2>1. TrackerType'
    BY DEF ExecTypes, TrackerType, Dropped, Fault, Terminating
  <2>2. TermType'
    BY DEF ExecTypes, TermType, Dropped, Fault, Terminating
  <2>3. NetType'
    BY DEF ExecTypes, NetType, Dropped, Fault, Terminating
  <2> QED BY <1>1, <2>1, <2>2, <2>3 DEF ExecTypes, PoolType, RefillType, ProcType, Moves, Dropped,
       Fault, Terminating
<1>3. Guarded'
  BY <1>1 DEF ExecTypes, Guarded, Moves, Dropped, Fault, Terminating, ProcType, TermType,
       NetType, Shaped, CommandPcs, Beginnings, Waits
<1>4. Terminated'
  BY <1>1 DEF ExecTypes, Terminated, Moves, Dropped, Fault, Terminating, ProcType,
       TermType, NetType, Shaped, CommandPcs, Beginnings, Waits, Alive, Guarded
<1>5. RefillOwned'
  BY <1>1 DEF ExecTypes, RefillOwned, Moves, Dropped, Fault, Terminating, PoolType,
       RefillType, Running
<1> QED BY <1>2, <1>3, <1>4, <1>5

-----------------------------------------------------------------------------
(* The termination and the server.                                         *)
LEMMA SignalKeeps ==
  ASSUME ExecInv, NEW c \in Commands, Signal(c)
  PROVE ExecInv'
<1> USE DEF ExecInv
<1>0. /\ UNCHANGED <<pool, refill, cmd>> /\ net'.up = net.up /\ net'.signals = net.signals
      /\ \A d \in Commands : d # c => term'[d] = term[d] /\ proc'[d] = proc[d]
      /\ term[c].signal = "send" /\ term'[c].signal = "done" /\ term'[c].sweep = term[c].sweep
      /\ Alive(c)' => Alive(c) /\ (term[c].missed => term'[c].missed)
      /\ ~Alive(c)' \/ term'[c].missed \/ ~net.signals
      /\ cmd[c].pc \in Beginnings => proc'[c] = proc[c]
  BY DEF ExecTypes, TermType, ProcType, NetType, Alive, Guarded, Signal, RequestFails, Fault
<1>1. ExecTypes'
  <2>1. ProcType'
    BY DEF ExecTypes, ProcType, Signal, RequestFails, Fault
  <2>2. TermType'
    BY DEF ExecTypes, TermType, Signal, RequestFails, Fault
  <2>3. NetType'
    BY DEF ExecTypes, NetType, Signal, RequestFails, Fault
  <2> QED BY <2>1, <2>2, <2>3 DEF ExecTypes, PoolType, RefillType, TrackerType, Shaped, Signal,
       RequestFails, Fault
<1>2. Guarded'
  BY <1>0 DEF ExecTypes, Guarded, ProcType, TermType, NetType, Shaped, CommandPcs,
       Beginnings, Waits
<1>3. Terminated'
  BY <1>0 DEF ExecTypes, Terminated, ProcType, TermType, NetType, Shaped, CommandPcs,
       Beginnings, Waits, Alive, Guarded
<1>4. RefillOwned'
  BY <1>0 DEF ExecTypes, RefillOwned, PoolType, RefillType, Running
<1> QED BY <1>1, <1>2, <1>3, <1>4

LEMMA SweepGroupKeeps ==
  ASSUME ExecInv, NEW c \in Commands, SweepGroup(c)
  PROVE ExecInv'
<1> USE DEF ExecInv
<1>0. /\ UNCHANGED <<pool, refill, cmd>> /\ net'.up = net.up /\ net'.signals = net.signals
      /\ \A d \in Commands : d # c => term'[d] = term[d] /\ proc'[d] = proc[d]
      /\ term[c].sweep = "open" /\ term'[c].sweep = "done" /\ term'[c].signal = term[c].signal
      /\ Alive(c)' => Alive(c) /\ (term[c].missed => term'[c].missed)
      /\ ~Alive(c)' \/ term'[c].missed
      /\ cmd[c].pc \in Beginnings => proc'[c] = proc[c]
  BY DEF ExecTypes, TermType, ProcType, NetType, Alive, Guarded, SweepGroup, RequestFails, Fault
<1>1. ExecTypes'
  <2>1. ProcType'
    BY DEF ExecTypes, ProcType, SweepGroup, RequestFails, Fault
  <2>2. TermType'
    BY DEF ExecTypes, TermType, SweepGroup, RequestFails, Fault
  <2>3. NetType'
    BY DEF ExecTypes, NetType, SweepGroup, RequestFails, Fault
  <2> QED BY <2>1, <2>2, <2>3 DEF ExecTypes, PoolType, RefillType, TrackerType, Shaped,
       SweepGroup, RequestFails, Fault
<1>2. Guarded'
  BY <1>0 DEF ExecTypes, Guarded, ProcType, TermType, NetType, Shaped, CommandPcs,
       Beginnings, Waits
<1>3. Terminated'
  BY <1>0 DEF ExecTypes, Terminated, ProcType, TermType, NetType, Shaped, CommandPcs,
       Beginnings, Waits, Alive, Guarded
<1>4. RefillOwned'
  BY <1>0 DEF ExecTypes, RefillOwned, PoolType, RefillType, Running
<1> QED BY <1>1, <1>2, <1>3, <1>4

LEMMA ServedKeeps ==
  ASSUME ExecInv, NEW c \in Commands, Served(c)
  PROVE ExecInv'
<1> USE DEF ExecInv
<1>1. ExecTypes'
  <2>1. ProcType'
    BY DEF ExecTypes, ProcType, Served
  <2> QED BY <2>1 DEF ExecTypes, PoolType, RefillType, TrackerType, TermType, NetType, Shaped,
       Served
<1>2. Guarded'
  BY DEF ExecTypes, Guarded, Served, ProcType, TermType, NetType, Shaped, CommandPcs,
       Beginnings, Waits
<1>3. Terminated'
  BY DEF ExecTypes, Terminated, Served, ProcType, TermType, NetType, Shaped, CommandPcs,
       Beginnings, Waits, Alive, Guarded
<1>4. RefillOwned'
  BY DEF ExecTypes, RefillOwned, Served, PoolType, RefillType, Running
<1> QED BY <1>1, <1>2, <1>3, <1>4

LEMMA WritesKeeps ==
  ASSUME ExecInv, NEW c \in Commands, Writes(c)
  PROVE ExecInv'
<1> USE DEF ExecInv
<1>1. ExecTypes'
  <2> QED BY DEF ExecTypes, PoolType, RefillType, TrackerType, ProcType, TermType, NetType,
       Shaped, Writes
<1>2. Guarded'
  BY DEF ExecTypes, Guarded, Writes, ProcType, TermType, NetType, Shaped, CommandPcs,
       Beginnings, Waits
<1>3. Terminated'
  BY DEF ExecTypes, Terminated, Writes, ProcType, TermType, NetType, Shaped, CommandPcs,
       Beginnings, Waits, Alive, Guarded
<1>4. RefillOwned'
  BY DEF ExecTypes, RefillOwned, Writes, PoolType, RefillType, Running
<1> QED BY <1>1, <1>2, <1>3, <1>4

LEMMA ExitsKeeps ==
  ASSUME ExecInv, NEW c \in Commands, Exits(c)
  PROVE ExecInv'
<1> USE DEF ExecInv
<1>1. ExecTypes'
  <2>1. ProcType'
    BY DEF ExecTypes, ProcType, Exits
  <2> QED BY <2>1 DEF ExecTypes, PoolType, RefillType, TrackerType, TermType, NetType, Shaped,
       Exits
<1>2. Guarded'
  BY DEF ExecTypes, Guarded, Exits, ProcType, TermType, NetType, Shaped, CommandPcs,
       Beginnings, Waits
<1>3. Terminated'
  BY DEF ExecTypes, Terminated, Exits, ProcType, TermType, NetType, Shaped, CommandPcs,
       Beginnings, Waits, Alive, Guarded
<1>4. RefillOwned'
  BY DEF ExecTypes, RefillOwned, Exits, PoolType, RefillType, Running
<1> QED BY <1>1, <1>2, <1>3, <1>4

-----------------------------------------------------------------------------
LEMMA ExecInit == Init => ExecInv
<1> SUFFICES ASSUME Init PROVE ExecInv
  OBVIOUS
<1>1. PICK load \in Loads :
        /\ net.load = load /\ net.up /\ NetType
        /\ cmd = [c \in Commands |-> [Idle EXCEPT !.pc = IF load[c] = None THEN "done" ELSE "begin"]]
  BY ExecAssumption DEF Init, NetType
<1>2. ASSUME NEW c \in Commands
      PROVE /\ DOMAIN cmd[c] = DOMAIN Idle /\ ~cmd[c].active /\ ~cmd[c].tracked
            /\ cmd[c].active \in BOOLEAN /\ cmd[c].tracked \in BOOLEAN
            /\ cmd[c].pc \in {"begin", "done"}
  BY <1>1 DEF Idle
<1>3. Shaped(cmd)
  BY <1>1, <1>2 DEF Shaped, CommandPcs, Beginnings
<1>4. ExecTypes
  <2>1. PoolType /\ RefillType /\ TrackerType /\ ProcType /\ DOMAIN inbox = Commands
    BY DEF Init, PoolType, RefillType, TrackerType, ProcType
  <2>2. TermType
    BY DEF Init, TermType
  <2> QED BY <1>1, <1>3, <2>1, <2>2 DEF ExecTypes
<1>5. Guarded
  BY <1>2 DEF Init, Guarded, Beginnings, Waits
<1>6. Terminated /\ RefillOwned
  BY DEF Init, Terminated, RefillOwned, Alive, Running
<1> QED BY <1>4, <1>5, <1>6 DEF ExecInv

LEMMA ExecStep == ExecInv /\ [Next]_vars => ExecInv'
<1> SUFFICES ASSUME ExecInv, [Next]_vars PROVE ExecInv'
  OBVIOUS
<1>1. CASE UNCHANGED vars
  BY <1>1 DEF vars, ExecInv, ExecTypes, PoolType, RefillType, TrackerType, ProcType, TermType,
     NetType, Shaped, Guarded, Terminated, RefillOwned, Alive, Running
<1>2. CASE ClosePool
  BY <1>2, ClosePoolKeeps
<1>3. ASSUME NEW c \in Commands, Command(c) PROVE ExecInv'
  BY <1>3, TakeKeeps, ScheduleKeeps, RegisterKeeps, OpenChannelKeeps, ProbeKeeps,
     ProbeReturnsKeeps, StartKeeps, StartedKeeps, StartFailsKeeps, ReceiveKeeps,
     FlushTickKeeps, CompleteKeeps, StopKeeps, StoppedKeeps, DroppedKeeps DEF Command
<1>4. ASSUME NEW c \in Commands,
             Refill(c) \/ Signal(c) \/ SweepGroup(c) \/ Served(c) \/ Writes(c) \/ Exits(c)
      PROVE ExecInv'
  BY <1>4, RefillKeeps, SignalKeeps, SweepGroupKeeps, ServedKeeps, WritesKeeps, ExitsKeeps
<1> QED BY <1>1, <1>2, <1>3, <1>4 DEF Next

(* ExecInv holds in every state, for any number of commands and any output. *)
THEOREM ExecInvariant == Spec => []ExecInv
BY ExecInit, ExecStep, PTL DEF Spec

(* The command of a future that was dropped, has failed or has timed out   *)
(* ends on the server once its termination has ended, wherever the future  *)
(* was and whichever of the signal and the sweep could work (remote/ssh.rs, *)
(* RemoteCommandGuard, terminate_remote_command).                          *)
THEOREM AbandonedIsKilledTheorem == Spec => []AbandonedIsKilled
<1>1. ASSUME ExecInv PROVE AbandonedIsKilled
  BY <1>1 DEF ExecInv, Guarded, Terminated, AbandonedIsKilled, Alive, At, ExecTypes, TermType
<1> QED BY <1>1, ExecInvariant, PTL

(* However close and the schedulers interleave, no refill runs once close  *)
(* has taken the task and every scheduler has registered its own           *)
(* (remote/ssh.rs, ExecChannelPool::schedule_refill and close).            *)
THEOREM NoRefillAfterCloseTheorem == Spec => []NoRefillAfterClose
<1>1. ASSUME ExecInv PROVE NoRefillAfterClose
  BY <1>1 DEF ExecInv, RefillOwned, NoRefillAfterClose, Running
<1> QED BY <1>1, ExecInvariant, PTL
-----------------------------------------------------------------------------
(* What a command delivers: the bytes picked from it, and the bounded tail. *)

(* A set of numbers has a least one; induction over sequences rests on it. *)
LEMMA Least ==
  ASSUME NEW S \in SUBSET Nat, S # {}
  PROVE  \E x \in S : \A y \in S : x <= y
<1> DEFINE R == {ss \in Nat \X Nat : ss[1] < ss[2]}
<1>1. IsWellFoundedOn(R, Nat) BY NatLessThanWellFounded, Zenon DEF OpToRel
<1>2. PICK x \in S : \A y \in S : ~(<<y, x>> \in R)
  <2> HIDE DEF R
  <2> QED BY <1>1, WFMin
<1>3. ASSUME NEW y \in S PROVE x <= y
  <2>1. ~(<<y, x>> \in R) BY <1>2
  <2>2. <<y, x>> \in Nat \X Nat OBVIOUS
  <2> QED BY <2>1, <2>2
<1>4. QED BY <1>3

Entries == [s : Streams, b : Nat]

PickedUpto(seen, S, n, u) ==
  /\ u \in [0..n -> Seq(Nat)] /\ u[0] = <<>>
  /\ \A k \in 1..n : u[k] = IF seen[k] \in S THEN Append(u[k - 1], seen[k].b) ELSE u[k - 1]

LEMMA UptoExists ==
  ASSUME NEW seen \in Seq(Entries), NEW S
  PROVE  \E u : PickedUpto(seen, S, Len(seen), u)
<1> DEFINE N == {n \in Nat : n <= Len(seen) /\ ~\E u : PickedUpto(seen, S, n, u)}
<1>0. Len(seen) \in Nat OBVIOUS
<1>1. \A n \in Nat : n <= Len(seen) /\ n \notin N => \E u : PickedUpto(seen, S, n, u) OBVIOUS
<1>2. SUFFICES N = {} BY <1>0, <1>1
<1>3. SUFFICES ASSUME N # {} PROVE FALSE OBVIOUS
<1>4. \A n \in N : n \in Nat /\ n <= Len(seen) /\ ~\E u : PickedUpto(seen, S, n, u) OBVIOUS
<1>5. N \in SUBSET Nat OBVIOUS
<1> HIDE DEF N
<1>6. PICK n \in N : \A m \in N : n <= m BY <1>3, <1>5, Least
<1>7. n \in Nat /\ n <= Len(seen) /\ ~\E u : PickedUpto(seen, S, n, u) BY <1>4
<1>8. CASE n = 0
  <2>1. PickedUpto(seen, S, 0, [k \in 0..0 |-> <<>>]) BY DEF PickedUpto
  <2>2. QED BY <1>7, <1>8, <2>1
<1>9. CASE n # 0
  <2>1. n - 1 \in Nat /\ n - 1 <= Len(seen) BY <1>0, <1>7, <1>9
  <2>2. n - 1 \notin N BY <1>6, <1>7
  <2>3. PICK u : PickedUpto(seen, S, n - 1, u) BY <1>1, <2>1, <2>2
  <2> DEFINE new == IF seen[n] \in S THEN Append(u[n - 1], seen[n].b) ELSE u[n - 1]
             w == [k \in 0..n |-> IF k = n THEN new ELSE u[k]]
  <2>4. seen[n] \in Entries BY <1>7, <1>9
  <2>5. seen[n].b \in Nat BY <2>4 DEF Entries
  <2>6. u[n - 1] \in Seq(Nat) /\ \A k \in 0..(n - 1) : u[k] \in Seq(Nat)
    <3>1. u \in [0..(n - 1) -> Seq(Nat)] BY <2>3 DEF PickedUpto
    <3>2. n - 1 \in 0..(n - 1) BY <2>1
    <3>3. QED BY <3>1, <3>2
  <2>7. new \in Seq(Nat) BY <2>5, <2>6
  <2>8. new = IF seen[n] \in S THEN Append(u[n - 1], seen[n].b) ELSE u[n - 1] OBVIOUS
  <2> HIDE DEF new
  <2>9. w \in [0..n -> Seq(Nat)]
    <3>1. \A k \in 0..n : k # n => k \in 0..(n - 1) BY <1>7
    <3>2. QED BY <2>6, <2>7, <3>1
  <2>10. w[0] = <<>> BY <1>7, <1>9, <2>3 DEF PickedUpto
  <2>11. ASSUME NEW k \in 1..n
         PROVE  w[k] = IF seen[k] \in S THEN Append(w[k - 1], seen[k].b) ELSE w[k - 1]
    <3>1. k \in 0..n /\ k - 1 \in 0..n /\ k - 1 # n BY <1>7
    <3>2. w[k - 1] = u[k - 1] BY <3>1
    <3>3. CASE k = n BY <2>8, <3>1, <3>2, <3>3
    <3>4. CASE k # n
      <4>1. k \in 1..(n - 1) BY <1>7, <3>4
      <4>2. u[k] = IF seen[k] \in S THEN Append(u[k - 1], seen[k].b) ELSE u[k - 1]
        BY <2>3, <4>1 DEF PickedUpto
      <4>3. QED BY <3>1, <3>2, <3>4, <4>2
    <3>5. QED BY <3>3, <3>4
  <2>12. PickedUpto(seen, S, n, w)
    <3> HIDE DEF w
    <3> QED BY <2>9, <2>10, <2>11 DEF PickedUpto
  <2>13. QED BY <1>7, <2>12
<1>10. QED BY <1>8, <1>9

(* Two functions that pick the same entries agree as far as both go.       *)
LEMMA UptoUnique ==
  ASSUME NEW seen, NEW more, NEW S, NEW n \in Nat, NEW m \in Nat, n <= m, NEW u, NEW v,
         PickedUpto(seen, S, n, u), PickedUpto(more, S, m, v),
         \A i \in 1..n : more[i] = seen[i]
  PROVE  v[n] = u[n]
<1> DEFINE N == {k \in Nat : k <= n /\ v[k] # u[k]}
<1>1. N = {}
  <2> SUFFICES ASSUME N # {} PROVE FALSE OBVIOUS
  <2>1. PICK k \in N : \A j \in N : k <= j
    <3>1. N \in SUBSET Nat OBVIOUS
    <3> HIDE DEF N
    <3> QED BY <3>1, Least
  <2>2. k \in Nat /\ k <= n /\ v[k] # u[k] BY <2>1
  <2>3. k # 0 BY <2>2 DEF PickedUpto
  <2>4. k \in 1..n /\ k \in 1..m /\ more[k] = seen[k] BY <2>2, <2>3
  <2>5. v[k] = IF seen[k] \in S THEN Append(v[k - 1], seen[k].b) ELSE v[k - 1]
    BY <2>4 DEF PickedUpto
  <2>6. u[k] = IF seen[k] \in S THEN Append(u[k - 1], seen[k].b) ELSE u[k - 1]
    BY <2>4 DEF PickedUpto
  <2>7. v[k - 1] = u[k - 1] BY <2>1, <2>2, <2>3
  <2>8. QED BY <2>2, <2>5, <2>6, <2>7
<1>2. QED BY <1>1

LEMMA PickedIs ==
  ASSUME NEW seen \in Seq(Entries), NEW S
  PROVE  \E u : PickedUpto(seen, S, Len(seen), u) /\ Picked(seen, S) = u[Len(seen)]
<1> DEFINE L == Len(seen)
           F(u) == [k \in 0..L |-> IF k = 0 THEN <<>>
                                   ELSE IF seen[k] \in S THEN Append(u[k - 1], seen[k].b) ELSE u[k - 1]]
<1>0. L \in Nat OBVIOUS
<1>1. PICK u : PickedUpto(seen, S, L, u) BY UptoExists
<1>2. u = F(u)
  <2>1. \A k \in 0..L : u[k] = IF k = 0 THEN <<>>
                               ELSE IF seen[k] \in S THEN Append(u[k - 1], seen[k].b) ELSE u[k - 1]
    <3> SUFFICES ASSUME NEW k \in 0..L
                 PROVE  u[k] = IF k = 0 THEN <<>>
                               ELSE IF seen[k] \in S THEN Append(u[k - 1], seen[k].b) ELSE u[k - 1]
      OBVIOUS
    <3> HIDE DEF L
    <3>1. CASE k = 0 BY <1>1, <3>1 DEF PickedUpto
    <3>2. CASE k # 0
      <4>1. k \in 1..L BY <1>0, <3>2
      <4>2. QED BY <1>1, <3>2, <4>1 DEF PickedUpto
    <3>3. QED BY <3>1, <3>2
  <2>2. DOMAIN u = 0..L /\ u = [k \in DOMAIN u |-> u[k]] BY <1>1 DEF PickedUpto
  <2>3. QED BY <2>1, <2>2
<1>3. PICK w : w = F(w) /\ Picked(seen, S) = w[L] BY <1>2 DEF Picked
<1> DEFINE N == {n \in Nat : n <= L /\ w[n] # u[n]}
<1>4. N = {}
  <2> SUFFICES ASSUME N # {} PROVE FALSE OBVIOUS
  <2> HIDE DEF L
  <2>1. PICK n \in N : \A m \in N : n <= m
    <3>1. N \in SUBSET Nat OBVIOUS
    <3> HIDE DEF N
    <3> QED BY <3>1, Least
  <2>2. n \in 0..L /\ w[n] # u[n] BY <1>0, <2>1
  <2>3. w[n] = IF n = 0 THEN <<>>
               ELSE IF seen[n] \in S THEN Append(w[n - 1], seen[n].b) ELSE w[n - 1] BY <1>3, <2>2
  <2>4. u[n] = IF n = 0 THEN <<>>
               ELSE IF seen[n] \in S THEN Append(u[n - 1], seen[n].b) ELSE u[n - 1] BY <1>2, <2>2
  <2>5. n # 0 => w[n - 1] = u[n - 1] BY <1>0, <2>1, <2>2
  <2>6. QED BY <2>2, <2>3, <2>4, <2>5
<1>5. w[L] = u[L]
  <2> HIDE DEF L
  <2> QED BY <1>0, <1>4
<1>6. QED BY <1>1, <1>3, <1>5

LEMMA PickedType ==
  ASSUME NEW seen \in Seq(Entries), NEW S
  PROVE  Picked(seen, S) \in Seq(Nat) /\ Picked(<<>>, S) = <<>>
<1>1. PICK u : PickedUpto(seen, S, Len(seen), u) /\ Picked(seen, S) = u[Len(seen)] BY PickedIs
<1>2. Len(seen) \in 0..Len(seen) OBVIOUS
<1>3. Picked(seen, S) \in Seq(Nat) BY <1>1, <1>2 DEF PickedUpto
<1>4. <<>> \in Seq(Entries) /\ Len(<<>>) = 0 OBVIOUS
<1>5. PICK v : PickedUpto(<<>>, S, Len(<<>>), v) /\ Picked(<<>>, S) = v[Len(<<>>)]
  BY <1>4, PickedIs
<1>6. QED BY <1>3, <1>4, <1>5 DEF PickedUpto

LEMMA PickedOne ==
  ASSUME NEW seen \in Seq(Entries), NEW x \in Entries, NEW S
  PROVE  /\ Append(seen, x) \in Seq(Entries)
         /\ Picked(Append(seen, x), S) =
              IF x \in S THEN Append(Picked(seen, S), x.b) ELSE Picked(seen, S)
<1> DEFINE more == Append(seen, x)
           L == Len(seen)
<1>1. /\ more \in Seq(Entries) /\ Len(more) = L + 1 /\ L \in Nat /\ more[L + 1] = x
      /\ \A i \in 1..L : more[i] = seen[i]
  OBVIOUS
<1>2. PICK u : PickedUpto(seen, S, L, u) /\ Picked(seen, S) = u[L] BY PickedIs
<1> HIDE DEF more, L
<1>3. PICK v : PickedUpto(more, S, L + 1, v) /\ Picked(more, S) = v[L + 1]
  BY <1>1, PickedIs
<1>4. v[L] = u[L]
  <2>1. L + 1 \in Nat /\ L <= L + 1 BY <1>1
  <2> QED BY <1>1, <1>2, <1>3, <2>1, UptoUnique
<1>5. L + 1 \in 1..(L + 1) /\ (L + 1) - 1 = L BY <1>1
<1>6. v[L + 1] = IF x \in S THEN Append(v[L], x.b) ELSE v[L]
  BY <1>1, <1>3, <1>5 DEF PickedUpto
<1>7. Picked(more, S) = IF x \in S THEN Append(Picked(seen, S), x.b) ELSE Picked(seen, S)
  BY <1>2, <1>3, <1>4, <1>6
<1> QED BY <1>1, <1>7 DEF more

(* A message is picked as a whole: all its bytes are of one stream.        *)
LEMMA PickedMessage ==
  ASSUME NEW seen \in Seq(Entries), NEW s \in Streams, NEW bytes \in Seq(Nat), NEW S,
         \/ \A i \in 1..Len(bytes) : [s |-> s, b |-> bytes[i]] \in S
         \/ \A i \in 1..Len(bytes) : [s |-> s, b |-> bytes[i]] \notin S
  PROVE  LET msg == [i \in DOMAIN bytes |-> [s |-> s, b |-> bytes[i]]] IN
         /\ seen \o msg \in Seq(Entries)
         /\ (\A i \in 1..Len(bytes) : [s |-> s, b |-> bytes[i]] \in S) =>
              Picked(seen \o msg, S) = Picked(seen, S) \o bytes
         /\ (\A i \in 1..Len(bytes) : [s |-> s, b |-> bytes[i]] \notin S) =>
              Picked(seen \o msg, S) = Picked(seen, S)
<1> DEFINE msg == [i \in DOMAIN bytes |-> [s |-> s, b |-> bytes[i]]]
           L == Len(bytes)
           All == \A i \in 1..L : [s |-> s, b |-> bytes[i]] \in S
           Some(n) == seen \o SubSeq(msg, 1, n)
           Want(n) == IF All THEN Picked(seen, S) \o SubSeq(bytes, 1, n) ELSE Picked(seen, S)
           Good(n) == Picked(Some(n), S) = Want(n)
           N == {n \in Nat : n <= L /\ ~ Good(n)}
<1>1. L \in Nat /\ DOMAIN bytes = 1..L /\ \A i \in 1..L : bytes[i] \in Nat OBVIOUS
<1>2. \A i \in 1..L : msg[i] = [s |-> s, b |-> bytes[i]] /\ msg[i] \in Entries /\ msg[i].b = bytes[i]
  BY <1>1 DEF Entries
<1>3. msg \in Seq(Entries) /\ Len(msg) = L
  <2> HIDE DEF L
  <2>1. msg \in [1..L -> Entries] BY <1>1 DEF Entries
  <2> HIDE DEF msg
  <2>2. msg \in Seq(Entries) BY <1>1, <2>1, SeqDef
  <2> QED BY <1>1, <2>1, <2>2, LenProperties
<1> HIDE DEF msg, L
<1>4. All \/ \A i \in 1..L : [s |-> s, b |-> bytes[i]] \notin S BY DEF L
<1>a. Picked(seen, S) \in Seq(Nat) BY PickedType
<1> HIDE DEF All
<1>5. ASSUME NEW n \in 1..L
      PROVE  /\ Some(n - 1) \in Seq(Entries)
             /\ Some(n) = Append(Some(n - 1), msg[n])
  <2> DEFINE front == SubSeq(msg, 1, n - 1)
             long == SubSeq(msg, 1, n)
  <2>1. n - 1 \in Nat /\ n \in Nat /\ n - 1 <= L /\ 1 <= n /\ n <= L BY <1>1
  <2>2. front \in Seq(Entries) /\ Len(front) = n - 1 /\ \A i \in 1..(n - 1) : front[i] = msg[i]
    BY <1>2, <1>3, <2>1
  <2>3. long \in Seq(Entries) /\ Len(long) = n /\ \A i \in 1..n : long[i] = msg[i]
    BY <1>2, <1>3, <2>1
  <2> HIDE DEF front, long
  <2>4. msg[n] \in Entries BY <1>2
  <2>5. long = Append(front, msg[n]) BY <2>1, <2>2, <2>3, <2>4
  <2>6. seen \o Append(front, msg[n]) = Append(seen \o front, msg[n])
    <3> DEFINE x == msg[n]
    <3>1. x \in Entries BY <2>4
    <3> HIDE DEF x
    <3>2. seen \o Append(front, x) = Append(seen \o front, x) BY <2>2, <3>1
    <3> QED BY <3>2 DEF x
  <2>7. seen \o front \in Seq(Entries) BY <2>2, ConcatProperties
  <2> QED BY <2>5, <2>6, <2>7 DEF front, long
<1>6. ASSUME NEW n \in 1..L, Good(n - 1) PROVE Good(n)
  <2>1. /\ Some(n - 1) \in Seq(Entries) /\ Some(n) = Append(Some(n - 1), msg[n])
    BY <1>5
  <2> HIDE DEF Some
  <2>2. msg[n] \in Entries /\ msg[n] = [s |-> s, b |-> bytes[n]] /\ msg[n].b = bytes[n]
        /\ bytes[n] \in Nat
    BY <1>1, <1>2
  <2>3. Picked(Some(n), S) = IF msg[n] \in S THEN Append(Picked(Some(n - 1), S), msg[n].b)
                             ELSE Picked(Some(n - 1), S)
    <3>1. ASSUME NEW q \in Seq(Entries), NEW x \in Entries
          PROVE  Picked(Append(q, x), S) = IF x \in S THEN Append(Picked(q, S), x.b) ELSE Picked(q, S)
      BY PickedOne
    <3>2. Picked(Append(Some(n - 1), msg[n]), S) =
            IF msg[n] \in S THEN Append(Picked(Some(n - 1), S), msg[n].b) ELSE Picked(Some(n - 1), S)
      BY <2>1, <2>2, <3>1
    <3> QED BY <2>1, <3>2
  <2>4. CASE All
    <3>1. msg[n] \in S BY <2>2, <2>4 DEF All
    <3> DEFINE p == Picked(seen, S)
               y == SubSeq(bytes, 1, n - 1)
               z == SubSeq(bytes, 1, n)
               e == bytes[n]
    <3>2. Picked(Some(n - 1), S) = p \o y BY <1>6, <2>4
    <3>3. n - 1 \in Nat /\ n \in Nat /\ n - 1 <= L /\ 1 <= n /\ n <= L BY <1>1
    <3>4. y \in Seq(Nat) /\ Len(y) = n - 1 /\ \A i \in 1..(n - 1) : y[i] = bytes[i]
      BY <1>1, <3>3 DEF L
    <3>5. z \in Seq(Nat) /\ Len(z) = n /\ \A i \in 1..n : z[i] = bytes[i]
      BY <1>1, <3>3 DEF L
    <3>6. p \in Seq(Nat) /\ e \in Nat BY <1>a, <2>2
    <3>7. e = bytes[n] OBVIOUS
    <3>8. Want(n) = p \o z BY <2>4
    <3>9. Picked(Some(n), S) = Append(p \o y, e) BY <2>2, <2>3, <3>1, <3>2
    <3> HIDE DEF p, y, z, e
    <3>10. z = Append(y, e)
      <4> DEFINE a == Append(y, e)
      <4>1. a \in Seq(Nat) /\ Len(a) = Len(y) + 1
            /\ \A i \in 1..(Len(y) + 1) : a[i] = IF i = Len(y) + 1 THEN e ELSE y[i]
        BY <3>4, <3>6
      <4> HIDE DEF a
      <4>2. Len(a) = n BY <3>3, <3>4, <4>1
      <4>3. \A i \in 1..n : a[i] = z[i]
        <5> SUFFICES ASSUME NEW i \in 1..n PROVE a[i] = z[i] OBVIOUS
        <5>1. z[i] = bytes[i] BY <3>5
        <5>2. CASE i = n BY <3>3, <3>4, <3>7, <4>1, <5>1, <5>2
        <5>3. CASE i # n
          <6>1. i \in 1..(n - 1) /\ i \in 1..(Len(y) + 1) /\ i # Len(y) + 1 BY <3>3, <3>4, <5>3
          <6> QED BY <3>4, <4>1, <5>1, <6>1
        <5> QED BY <5>2, <5>3
      <4>4. a = z BY <3>5, <4>1, <4>2, <4>3
      <4> QED BY <4>4 DEF a
    <3>11. p \o Append(y, e) = Append(p \o y, e) BY <3>4, <3>6
    <3> HIDE DEF Want
    <3> QED BY <3>8, <3>9, <3>10, <3>11
  <2>5. CASE ~All
    <3>1. msg[n] \notin S BY <1>4, <2>2, <2>5
    <3> QED BY <1>6, <2>3, <2>5, <3>1
  <2> QED BY <2>4, <2>5
<1>7. Some(0) = seen
  <2>1. SubSeq(msg, 1, 0) = <<>> BY <1>3, SubSeqEmpty
  <2> QED BY <2>1, ConcatEmptySeq
<1>8. Good(0)
  <2>1. SubSeq(bytes, 1, 0) = <<>> BY SubSeqEmpty
  <2>2. Picked(seen, S) \o <<>> = Picked(seen, S) BY <1>a, ConcatEmptySeq
  <2>3. Want(0) = Picked(seen, S) BY <2>1, <2>2
  <2> QED BY <1>7, <2>3
<1>9. \A n \in Nat : n <= L /\ n \notin N => Good(n) OBVIOUS
<1>10. \A n \in N : n \in Nat /\ n <= L /\ ~ Good(n) OBVIOUS
<1>11. N \in SUBSET Nat OBVIOUS
<1>12. N = {}
  <2> HIDE DEF Good, N
  <2> SUFFICES ASSUME N # {} PROVE FALSE OBVIOUS
  <2>1. PICK n \in N : \A m \in N : n <= m BY <1>11, Least
  <2>2. n \in Nat /\ n <= L /\ ~ Good(n) BY <1>10
  <2>3. n # 0 BY <1>8, <2>2
  <2>4. n \in 1..L /\ n - 1 \in Nat /\ n - 1 <= L BY <1>1, <2>2, <2>3
  <2>5. n - 1 \notin N BY <2>1, <2>4
  <2>6. Good(n - 1) BY <1>9, <2>4, <2>5
  <2> QED BY <1>6, <2>2, <2>4, <2>6
<1>13. Good(L)
  <2> HIDE DEF Good, N
  <2>1. L <= L BY <1>1
  <2> QED BY <1>1, <1>9, <1>12, <2>1
<1>14. SubSeq(msg, 1, L) = msg /\ SubSeq(bytes, 1, L) = bytes
  <2>1. SubSeq(msg, 1, Len(msg)) = msg BY <1>3, SubSeqFull
  <2>2. SubSeq(bytes, 1, Len(bytes)) = bytes BY SubSeqFull
  <2> QED BY <1>3, <2>1, <2>2 DEF L
<1>15. Picked(seen \o msg, S) = IF All THEN Picked(seen, S) \o bytes ELSE Picked(seen, S)
  BY <1>13, <1>14
<1>16. seen \o msg \in Seq(Entries) BY <1>3, ConcatProperties
<1>17. ASSUME \A i \in 1..L : [s |-> s, b |-> bytes[i]] \notin S, All
       PROVE  Picked(seen, S) \o bytes = Picked(seen, S)
  <2>1. L = 0
    <3>1. SUFFICES ASSUME L # 0 PROVE FALSE OBVIOUS
    <3>2. 1 \in 1..L BY <1>1, <3>1
    <3> QED BY <1>17, <3>2 DEF All
  <2>2. bytes = <<>> BY <2>1, EmptySeq DEF L
  <2> QED BY <1>a, <2>2, ConcatEmptySeq
<1>18. (\A i \in 1..L : [s |-> s, b |-> bytes[i]] \in S) => Picked(seen \o msg, S) = Picked(seen, S) \o bytes
  BY <1>15 DEF All
<1>19. (\A i \in 1..L : [s |-> s, b |-> bytes[i]] \notin S) => Picked(seen \o msg, S) = Picked(seen, S)
  BY <1>15, <1>17
<1> QED BY <1>16, <1>18, <1>19 DEF msg, L

-----------------------------------------------------------------------------
(* BoundedOutput: whatever is pushed, it holds the tail of everything.     *)

LEMMA TailPushed ==
  ASSUME NEW b, NEW all \in Seq(Nat), TailOf(b, all), NEW bytes \in Seq(Nat)
  PROVE  TailOf(Push(b, bytes), all \o bytes)
<1> DEFINE L == Len(all)
           M == Len(bytes)
           whole == all \o bytes
           joined == b.bytes \o bytes
           total == b.total + Len(bytes)
<1>1. L \in Nat /\ M \in Nat /\ Limit \in Nat /\ Limit > 0 BY ExecAssumption
<1>2. /\ whole \in Seq(Nat) /\ Len(whole) = L + M
      /\ \A i \in 1..(L + M) : whole[i] = IF i <= L THEN all[i] ELSE bytes[i - L]
  BY ConcatProperties
<1>3. /\ b.bytes = (IF L > Limit THEN LastN(all, Limit) ELSE all)
      /\ b.truncated = (L > Limit) /\ b.total = L
  BY DEF TailOf
<1>4. total = L + M BY <1>3
<1>5. ASSUME NEW z \in Seq(Nat), Len(z) >= Limit
      PROVE  /\ LastN(z, Limit) \in Seq(Nat) /\ Len(LastN(z, Limit)) = Limit
             /\ \A i \in 1..Limit : LastN(z, Limit)[i] = z[Len(z) - Limit + i]
  <2> DEFINE m == Len(z) - Limit + 1
             n == Len(z)
  <2>1. m \in Nat /\ n \in Nat /\ m >= 1 /\ m <= n /\ n - m + 1 = Limit BY <1>1, <1>5
  <2>2. \A i \in m..n : z[i] \in Nat BY <2>1
  <2>3. LastN(z, Limit) = SubSeq(z, m, n) BY DEF LastN
  <2>4. \A i \in 1..Limit : m + i - 1 = Len(z) - Limit + i BY <1>1, <2>1
  <2> HIDE DEF m, n
  <2>5. SubSeq(z, m, n) \in Seq(Nat) /\ Len(SubSeq(z, m, n)) = n - m + 1
        /\ \A i \in 1..(n - m + 1) : SubSeq(z, m, n)[i] = z[m + i - 1]
    <3>1. m \in 1..(Len(z) + 1) /\ n \in 0..Len(z) BY <2>1 DEF n
    <3> QED BY <2>1, <2>2, <3>1, SubSeqProperties
  <2> QED BY <2>1, <2>3, <2>4, <2>5
<1> HIDE DEF L, M, whole, total
<1>6. CASE M >= Limit
  <2> DEFINE kept == LastN(bytes, Limit)
  <2>1. /\ kept \in Seq(Nat) /\ Len(kept) = Limit
        /\ \A i \in 1..Limit : kept[i] = bytes[M - Limit + i]
    BY <1>5, <1>6 DEF M
  <2>2. Push(b, bytes) = [bytes |-> kept, total |-> total, truncated |-> b.truncated \/ total > Limit]
    BY <1>6 DEF Push, M, total
  <2> HIDE DEF kept
  <2>3. CASE L + M > Limit
    <3> DEFINE last == LastN(whole, Limit)
    <3>1. /\ last \in Seq(Nat) /\ Len(last) = Limit
          /\ \A i \in 1..Limit : last[i] = whole[(L + M) - Limit + i]
      <4>1. Len(whole) >= Limit BY <1>1, <1>2, <2>3
      <4> QED BY <1>2, <1>5, <4>1
    <3> HIDE DEF last
    <3>2. ASSUME NEW i \in 1..Limit PROVE kept[i] = last[i]
      <4> DEFINE k == (L + M) - Limit + i
      <4>1. k \in 1..(L + M) /\ ~(k <= L) /\ k - L = M - Limit + i BY <1>1, <1>6
      <4>2. whole[k] = bytes[k - L] BY <1>2, <4>1
      <4> QED BY <2>1, <3>1, <4>1, <4>2
    <3>3. kept = last BY <2>1, <3>1, <3>2
    <3>4. (b.truncated \/ total > Limit) = (Len(whole) > Limit) BY <1>1, <1>2, <1>3, <1>4, <2>3
    <3> QED BY <1>2, <1>4, <2>2, <2>3, <3>3, <3>4 DEF TailOf, last, whole
  <2>4. CASE ~(L + M > Limit)
    <3>1. L = 0 /\ M = Limit BY <1>1, <1>6, <2>4
    <3>2. all = <<>> BY <3>1, EmptySeq DEF L
    <3>3. whole = bytes BY <3>2, ConcatEmptySeq DEF whole
    <3>4. kept = bytes
      <4>1. \A i \in 1..Limit : kept[i] = bytes[i] BY <1>1, <2>1, <3>1
      <4> QED BY <2>1, <3>1, <4>1 DEF M
    <3>5. (b.truncated \/ total > Limit) = (Len(whole) > Limit)
      <4>1. ~(L > Limit) /\ ~(total > Limit) /\ ~(Len(whole) > Limit) BY <1>1, <1>2, <1>4, <2>4, <3>1
      <4>2. (L > Limit) = FALSE BY <4>1
      <4>3. b.truncated = FALSE BY <1>3, <4>2
      <4> QED BY <4>1, <4>3
    <3> QED BY <1>2, <1>4, <2>2, <2>4, <3>3, <3>4, <3>5 DEF TailOf, whole
  <2> QED BY <2>3, <2>4
<1>7. CASE ~(M >= Limit)
  <2> DEFINE kept == IF Len(joined) > Limit THEN LastN(joined, Limit) ELSE joined
  <2>1. Push(b, bytes) = [bytes |-> kept, total |-> total, truncated |-> b.truncated \/ Len(joined) > Limit]
    BY <1>7 DEF Push, M, total
  <2>2. CASE ~(L > Limit)
    <3>1. joined = whole BY <1>3, <2>2 DEF whole
    <3>2. (b.truncated \/ Len(joined) > Limit) = (Len(whole) > Limit)
      <4>0. (L > Limit) = FALSE BY <2>2
      <4>1. b.truncated = FALSE BY <1>3, <4>0
      <4>2. (FALSE \/ Len(whole) > Limit) = (Len(whole) > Limit) BY <1>1, <1>2
      <4> HIDE DEF joined
      <4> QED BY <3>1, <4>1, <4>2
    <3>3. kept = IF Len(whole) > Limit THEN LastN(whole, Limit) ELSE whole BY <3>1
    <3> HIDE DEF kept, joined
    <3> QED BY <1>2, <1>4, <2>1, <3>2, <3>3 DEF TailOf, whole
  <2>3. CASE L > Limit
    <3> DEFINE old == LastN(all, Limit)
    <3>1. /\ old \in Seq(Nat) /\ Len(old) = Limit
          /\ \A i \in 1..Limit : old[i] = all[L - Limit + i]
      <4>1. Len(all) >= Limit BY <1>1, <2>3 DEF L
      <4> QED BY <1>5, <4>1 DEF L
    <3>2. b.bytes = old BY <1>3, <2>3
    <3> HIDE DEF old
    <3>3. /\ joined \in Seq(Nat) /\ Len(joined) = Limit + M
          /\ \A i \in 1..(Limit + M) : joined[i] = IF i <= Limit THEN old[i] ELSE bytes[i - Limit]
      <4>1. /\ old \o bytes \in Seq(Nat) /\ Len(old \o bytes) = Len(old) + Len(bytes)
            /\ \A i \in 1..(Len(old) + Len(bytes)) :
                 (old \o bytes)[i] = IF i <= Len(old) THEN old[i] ELSE bytes[i - Len(old)]
        BY <3>1, ConcatProperties
      <4> QED BY <3>1, <3>2, <4>1 DEF M
    <3> HIDE DEF joined
    <3> DEFINE last == LastN(whole, Limit)
    <3>4. /\ last \in Seq(Nat) /\ Len(last) = Limit
          /\ \A i \in 1..Limit : last[i] = whole[(L + M) - Limit + i]
      <4>1. Len(whole) >= Limit BY <1>1, <1>2, <2>3
      <4> QED BY <1>2, <1>5, <4>1
    <3> HIDE DEF last
    <3>5. /\ kept \in Seq(Nat) /\ Len(kept) = Limit
          /\ \A i \in 1..Limit : kept[i] = joined[M + i]
      <4>1. CASE M > 0
        <5>1. Len(joined) > Limit /\ Len(joined) >= Limit BY <1>1, <3>3, <4>1
        <5>2. kept = LastN(joined, Limit) BY <5>1
        <5>3. \A i \in 1..Limit : Len(joined) - Limit + i = M + i BY <1>1, <3>3
        <5> HIDE DEF kept
        <5>4. /\ LastN(joined, Limit) \in Seq(Nat) /\ Len(LastN(joined, Limit)) = Limit
              /\ \A i \in 1..Limit : LastN(joined, Limit)[i] = joined[Len(joined) - Limit + i]
          BY <1>5, <3>3, <5>1
        <5> QED BY <5>2, <5>3, <5>4
      <4>2. CASE M = 0
        <5>1. kept = joined /\ Len(joined) = Limit BY <1>1, <3>3, <4>2
        <5>2. \A i \in 1..Limit : M + i = i BY <1>1, <4>2
        <5> HIDE DEF kept
        <5> QED BY <3>3, <5>1, <5>2
      <4> QED BY <1>1, <4>1, <4>2
    <3> HIDE DEF kept
    <3>6. ASSUME NEW i \in 1..Limit PROVE kept[i] = last[i]
      <4> DEFINE k == (L + M) - Limit + i
                 j == M + i
      <4>1. /\ k \in 1..(L + M) /\ j \in 1..(Limit + M) /\ (k <= L <=> j <= Limit)
            /\ k - L = j - Limit /\ k = L - Limit + j
        BY <1>1, <2>3
      <4>2. kept[i] = joined[j] /\ last[i] = whole[k] BY <3>4, <3>5
      <4> HIDE DEF k, j
      <4>3. CASE j <= Limit
        <5>1. j \in 1..Limit BY <1>1, <4>1, <4>3
        <5>2. joined[j] = old[j] BY <3>3, <4>1, <4>3
        <5>3. whole[k] = all[k] BY <1>2, <4>1, <4>3
        <5> QED BY <3>1, <4>1, <4>2, <5>1, <5>2, <5>3
      <4>4. CASE ~(j <= Limit)
        <5>1. joined[j] = bytes[j - Limit] BY <3>3, <4>1, <4>4
        <5>2. whole[k] = bytes[k - L] BY <1>2, <4>1, <4>4
        <5> QED BY <4>1, <4>2, <5>1, <5>2
      <4> QED BY <4>3, <4>4
    <3>7. kept = last BY <3>4, <3>5, <3>6
    <3>8. (b.truncated \/ Len(joined) > Limit) = (Len(whole) > Limit) /\ Len(whole) > Limit
      <4>1. Len(whole) > Limit BY <1>1, <1>2, <2>3
      <4> QED BY <1>3, <2>3, <4>1, Zenon
    <3> QED BY <1>2, <1>4, <2>1, <3>7, <3>8 DEF TailOf, last, whole
  <2> QED BY <2>2, <2>3
<1> QED BY <1>6, <1>7

LEMMA LineIs ==
  ASSUME NEW b
  PROVE  \/ Line(b) = <<TimeoutText>> /\ PushLine(b) = Push(b, <<TimeoutText>>)
         \/ /\ Line(b) = <<Newline, TimeoutText>>
            /\ PushLine(b) = Push(Push(b, <<Newline>>), <<TimeoutText>>)
<1>1. Line(b) = <<>> \o <<TimeoutText>> \/ Line(b) = <<Newline>> \o <<TimeoutText>>
  BY DEF Line
<1>2. <<>> \o <<TimeoutText>> = <<TimeoutText>>
  BY ConcatEmptySeq DEF TimeoutText
<1>a. <<Newline>> \o <<TimeoutText>> = <<Newline, TimeoutText>>
  <2>1. Newline \in Nat /\ TimeoutText \in Nat /\ <<Newline>> \in Seq(Nat) BY DEF Newline, TimeoutText
  <2>2. <<Newline, TimeoutText>> = Append(<<Newline>>, TimeoutText) BY <2>1
  <2> QED BY <2>1, <2>2, AppendIsConcat
<1>3. Len(<<TimeoutText>>) = 1 /\ Len(<<Newline, TimeoutText>>) = 2 OBVIOUS
<1>4. CASE Line(b) = <<TimeoutText>>
  BY <1>3, <1>4 DEF PushLine
<1>5. CASE Line(b) = <<Newline, TimeoutText>>
  BY <1>3, <1>5 DEF PushLine
<1> QED BY <1>1, <1>2, <1>a, <1>4, <1>5

-----------------------------------------------------------------------------
(* The output of a command: what was delivered accounts for what the       *)
(* result keeps and, in a job, for what the reader got and what waits.     *)

Outputs == [s : Streams \cup {None}, bytes : Seq(Nat)]
Arrivals == [s : Streams, bytes : Seq(Nat \ {Newline})]

Delivered(r) ==
  /\ r.seen \in Seq(Entries) /\ r.sent \in Seq(Nat) /\ r.pending \in Outputs
  /\ TailOf(r.out, Picked(r.seen, OfStream("out")))
  /\ TailOf(r.err, Picked(r.seen, OfStream("err")))
Followed(r) ==
  /\ r.sent \o r.pending.bytes = Picked(r.seen, Texts)
  /\ r.reply \in {"completed", "timed_out"} => r.pc = "done" /\ r.pending = NoOutput
Account(c, r) == Delivered(r) /\ (c \in Streamed => Followed(r))

OutputInv ==
  /\ inbox \in [Commands -> Seq(Arrivals)]
  /\ \A c \in Commands : Account(c, cmd[c]) /\ (cmd[c].pc # "done" => net.load[c] \in Nat)

LEMMA FlushAccounts ==
  ASSUME NEW r, DOMAIN r = DOMAIN Idle, r.sent \in Seq(Nat), r.pending \in Outputs
  PROVE  LET f == Flushed(r) IN
         /\ DOMAIN f = DOMAIN Idle /\ f.sent \in Seq(Nat) /\ f.pending \in Outputs /\ f.pending = NoOutput
         /\ f.sent \o f.pending.bytes = r.sent \o r.pending.bytes
         /\ f.seen = r.seen /\ f.out = r.out /\ f.err = r.err /\ f.reply = r.reply /\ f.pc = r.pc
<1> DEFINE all == r.sent \o r.pending.bytes
           f == Flushed(r)
<1>1. all \in Seq(Nat) BY ConcatProperties DEF Outputs
<1>2. f = [r EXCEPT !.sent = all, !.pending = NoOutput] BY DEF Flushed
<1> HIDE DEF all, f
<1>3. /\ DOMAIN f = DOMAIN Idle /\ f.sent = all /\ f.pending = NoOutput
      /\ f.seen = r.seen /\ f.out = r.out /\ f.err = r.err /\ f.reply = r.reply /\ f.pc = r.pc
  BY <1>2 DEF Idle
<1>4. NoOutput \in Outputs /\ NoOutput.bytes = <<>> BY DEF NoOutput, Outputs
<1>5. all \o <<>> = all BY <1>1, ConcatEmptySeq
<1>6. f.sent \o f.pending.bytes = all BY <1>3, <1>4, <1>5
<1> QED BY <1>1, <1>3, <1>4, <1>6 DEF all, f

LEMMA QueueAccounts ==
  ASSUME NEW r, DOMAIN r = DOMAIN Idle, r.sent \in Seq(Nat), r.pending \in Outputs,
         NEW s \in Streams, NEW bytes \in Seq(Nat)
  PROVE  LET q == Queued(r, s, bytes) IN
         /\ DOMAIN q = DOMAIN Idle /\ q.sent \in Seq(Nat) /\ q.pending \in Outputs
         /\ q.sent \o q.pending.bytes = (r.sent \o r.pending.bytes) \o bytes
         /\ q.seen = r.seen /\ q.out = r.out /\ q.err = r.err /\ q.reply = r.reply /\ q.pc = r.pc
<1> DEFINE ready == IF r.pending.s # s THEN Flushed(r) ELSE r
           gathered == [s |-> s, bytes |-> ready.pending.bytes \o bytes]
           grown == [ready EXCEPT !.pending = gathered]
           q == Queued(r, s, bytes)
<1>1. /\ DOMAIN ready = DOMAIN Idle /\ ready.sent \in Seq(Nat) /\ ready.pending \in Outputs
      /\ ready.sent \o ready.pending.bytes = r.sent \o r.pending.bytes
      /\ ready.seen = r.seen /\ ready.out = r.out /\ ready.err = r.err
      /\ ready.reply = r.reply /\ ready.pc = r.pc
  BY FlushAccounts
<1>2. q = IF Len(grown.pending.bytes) >= Chunk THEN Flushed(grown) ELSE grown
  BY DEF Queued
<1> HIDE DEF ready, q
<1>3. ready.pending.bytes \in Seq(Nat) BY <1>1 DEF Outputs
<1>4. ready.pending.bytes \o bytes \in Seq(Nat) BY <1>3, ConcatProperties
<1>5. gathered \in Outputs /\ gathered.bytes = ready.pending.bytes \o bytes BY <1>4 DEF Outputs
<1> HIDE DEF gathered
<1>6. /\ DOMAIN grown = DOMAIN Idle /\ grown.sent = ready.sent /\ grown.pending = gathered
      /\ grown.seen = r.seen /\ grown.out = r.out /\ grown.err = r.err
      /\ grown.reply = r.reply /\ grown.pc = r.pc
  BY <1>1 DEF Idle
<1> HIDE DEF grown
<1>7. grown.sent \o grown.pending.bytes = (r.sent \o r.pending.bytes) \o bytes
  <2> DEFINE x == ready.sent
             y == ready.pending.bytes
  <2>1. x \in Seq(Nat) /\ y \in Seq(Nat) BY <1>1, <1>3
  <2>2. grown.sent \o grown.pending.bytes = x \o (y \o bytes) BY <1>5, <1>6
  <2>3. x \o y = r.sent \o r.pending.bytes BY <1>1
  <2> HIDE DEF x, y
  <2>4. x \o (y \o bytes) = (x \o y) \o bytes BY <2>1, SMTT(30)
  <2> QED BY <2>2, <2>3, <2>4
<1>8. grown.sent \in Seq(Nat) /\ grown.pending \in Outputs BY <1>1, <1>5, <1>6
<1>9. CASE Len(grown.pending.bytes) >= Chunk
  <2>1. q = Flushed(grown) BY <1>2, <1>9
  <2> QED BY <1>6, <1>7, <1>8, <2>1, FlushAccounts DEF q
<1>10. CASE ~(Len(grown.pending.bytes) >= Chunk)
  <2>1. q = grown BY <1>2, <1>10
  <2> QED BY <1>6, <1>7, <1>8, <2>1 DEF q
<1> QED BY <1>9, <1>10

(* A command that has delivered nothing keeps and sends nothing.           *)
LEMMA NothingDelivered ==
  /\ <<>> \in Seq(Entries) /\ <<>> \in Seq(Nat) /\ NoOutput \in Outputs
  /\ \A S : Picked(<<>>, S) = <<>>
  /\ TailOf(Bounded, <<>>) /\ <<>> \o NoOutput.bytes = <<>>
<1>1. <<>> \in Seq(Entries) /\ <<>> \in Seq(Nat) /\ NoOutput \in Outputs /\ NoOutput.bytes = <<>>
  BY DEF NoOutput, Outputs
<1>2. \A S : Picked(<<>>, S) = <<>> BY <1>1, PickedType
<1>3. TailOf(Bounded, <<>>)
  <2>1. Len(<<>>) = 0 /\ Limit \in Nat BY ExecAssumption
  <2>2. ~(Len(<<>>) > Limit) BY <2>1
  <2>3. (Len(<<>>) > Limit) = FALSE BY <2>2
  <2> QED BY <2>1, <2>2, <2>3 DEF TailOf, Bounded
<1> QED BY <1>1, <1>2, <1>3, ConcatEmptySeq

(* A new record of one command, the others and what they write as before.  *)
LEMMA OneAccount ==
  ASSUME Shaped(cmd), OutputInv, NEW c \in Commands, NEW r, cmd' = [cmd EXCEPT ![c] = r],
         Account(c, r), cmd[c].pc # "done", net'.load = net.load,
         inbox' \in [Commands -> Seq(Arrivals)]
  PROVE  OutputInv'
<1>1. cmd'[c] = r /\ \A d \in Commands : d # c => cmd'[d] = cmd[d]
  BY DEF Shaped
<1>2. ASSUME NEW d \in Commands
      PROVE  Account(d, cmd'[d]) /\ (cmd'[d].pc # "done" => net'.load[d] \in Nat)
  <2>1. CASE d = c BY <1>1, <2>1 DEF OutputInv
  <2>2. CASE d # c BY <1>1, <2>2 DEF OutputInv
  <2> QED BY <2>1, <2>2
<1> QED BY <1>2 DEF OutputInv, Account, Delivered, Followed, TailOf, Picked

(* A step of a command that leaves its output as it is.                    *)
LEMMA SameOutput ==
  ASSUME Shaped(cmd), OutputInv, NEW c \in Commands, NEW r, cmd' = [cmd EXCEPT ![c] = r],
         r.seen = cmd[c].seen, r.sent = cmd[c].sent, r.pending = cmd[c].pending,
         r.out = cmd[c].out, r.err = cmd[c].err, r.reply = cmd[c].reply,
         cmd[c].pc # "done", net'.load = net.load, inbox' \in [Commands -> Seq(Arrivals)]
  PROVE  OutputInv'
<1>1. Delivered(r) BY DEF OutputInv, Account, Delivered
<1>2. c \in Streamed => Followed(r) BY DEF OutputInv, Account, Followed
<1> QED BY <1>1, <1>2, OneAccount DEF Account

(* A command whose future has failed or was dropped has no output.         *)
LEMMA FailAccounts ==
  ASSUME Shaped(cmd), OutputInv, NEW c \in Commands, NEW reply, Fail(c, reply),
         cmd[c].pc # "done", net'.load = net.load, inbox' \in [Commands -> Seq(Arrivals)]
  PROVE  OutputInv'
<1> DEFINE r == [Idle EXCEPT !.pc = "done", !.reply = reply, !.tracked = cmd[c].tracked]
<1>1. /\ r.pc = "done" /\ r.seen = <<>> /\ r.sent = <<>> /\ r.pending = NoOutput
      /\ r.out = Bounded /\ r.err = Bounded
  BY DEF Idle
<1>2. cmd' = [cmd EXCEPT ![c] = r] BY DEF Fail
<1> HIDE DEF r
<1>3. Account(c, r) BY <1>1, NothingDelivered DEF Account, Delivered, Followed
<1> QED BY <1>2, <1>3, OneAccount

-----------------------------------------------------------------------------
(* The steps of a command.                                                 *)

LEMMA MoveAccounts ==
  ASSUME Shaped(cmd), OutputInv, NEW c \in Commands, cmd[c].pc # "done", NEW p, NEW x,
         \/ cmd' = [cmd EXCEPT ![c].pc = p]
         \/ cmd' = [cmd EXCEPT ![c].pc = p, ![c].active = x]
         \/ cmd' = [cmd EXCEPT ![c].tracked = x, ![c].pc = p],
         UNCHANGED inbox, net'.load = net.load
  PROVE  OutputInv'
<1>0. inbox' \in [Commands -> Seq(Arrivals)] BY DEF OutputInv
<1>1. CASE cmd' = [cmd EXCEPT ![c].pc = p]
  <2> DEFINE r == [cmd[c] EXCEPT !.pc = p]
  <2>1. /\ r.seen = cmd[c].seen /\ r.sent = cmd[c].sent /\ r.pending = cmd[c].pending
        /\ r.out = cmd[c].out /\ r.err = cmd[c].err /\ r.reply = cmd[c].reply
    BY DEF Shaped, Idle
  <2>2. cmd' = [cmd EXCEPT ![c] = r] BY <1>1 DEF Shaped
  <2> HIDE DEF r
  <2> QED BY <1>0, <2>1, <2>2, SameOutput
<1>2. CASE cmd' = [cmd EXCEPT ![c].pc = p, ![c].active = x]
  <2> DEFINE r == [cmd[c] EXCEPT !.pc = p, !.active = x]
  <2>1. /\ r.seen = cmd[c].seen /\ r.sent = cmd[c].sent /\ r.pending = cmd[c].pending
        /\ r.out = cmd[c].out /\ r.err = cmd[c].err /\ r.reply = cmd[c].reply
    BY DEF Shaped, Idle
  <2>2. cmd' = [cmd EXCEPT ![c] = r] BY <1>2 DEF Shaped
  <2> HIDE DEF r
  <2> QED BY <1>0, <2>1, <2>2, SameOutput
<1>3. CASE cmd' = [cmd EXCEPT ![c].tracked = x, ![c].pc = p]
  <2> DEFINE r == [cmd[c] EXCEPT !.tracked = x, !.pc = p]
  <2>1. /\ r.seen = cmd[c].seen /\ r.sent = cmd[c].sent /\ r.pending = cmd[c].pending
        /\ r.out = cmd[c].out /\ r.err = cmd[c].err /\ r.reply = cmd[c].reply
    BY DEF Shaped, Idle
  <2>2. cmd' = [cmd EXCEPT ![c] = r] BY <1>3 DEF Shaped
  <2> HIDE DEF r
  <2> QED BY <1>0, <2>1, <2>2, SameOutput
<1> QED BY <1>1, <1>2, <1>3

LEMMA SameLoad ==
  ASSUME NetType, UNCHANGED net \/ Fault \/ RequestFails
  PROVE  net'.load = net.load
BY DEF NetType, Fault, RequestFails

LEMMA WaysAccount ==
  ASSUME ExecTypes, OutputInv, NEW c \in Commands,
         \/ Take(c) \/ Schedule(c) \/ Register(c) \/ OpenChannel(c) \/ Probe(c) \/ ProbeReturns(c)
         \/ Start(c) \/ Started(c) \/ StartFails(c) \/ Stop(c)
  PROVE  OutputInv'
<1>0. Shaped(cmd) /\ NetType /\ inbox \in [Commands -> Seq(Arrivals)]
  BY DEF ExecTypes, OutputInv
<1>1. CASE Take(c) \/ Schedule(c) \/ Register(c)
  <2>1. \E p : cmd' = [cmd EXCEPT ![c].pc = p]
    BY <1>1 DEF Take, Schedule, Register, Goto
  <2>2. cmd[c].pc # "done" /\ UNCHANGED inbox /\ UNCHANGED net
    BY <1>1 DEF Take, Schedule, Register, At
  <2> QED BY <1>0, <2>1, <2>2, MoveAccounts
<1>2. CASE OpenChannel(c)
  <2>1. cmd[c].pc # "done" /\ UNCHANGED inbox BY <1>2 DEF OpenChannel, At
  <2>2. net'.load = net.load BY <1>0, <1>2, SameLoad DEF OpenChannel
  <2>3. Fail(c, "error") \/ cmd' = [cmd EXCEPT ![c].pc = "probe"] BY <1>2 DEF OpenChannel, Goto
  <2>4. CASE Fail(c, "error") BY <1>0, <2>1, <2>2, <2>4, FailAccounts
  <2>5. CASE cmd' = [cmd EXCEPT ![c].pc = "probe"] BY <1>0, <2>1, <2>2, <2>5, MoveAccounts
  <2> QED BY <2>3, <2>4, <2>5
<1>3. CASE Probe(c) \/ ProbeReturns(c)
  <2>1. \E p, x : \/ cmd' = [cmd EXCEPT ![c].pc = p]
                  \/ cmd' = [cmd EXCEPT ![c].tracked = x, ![c].pc = p]
    BY <1>3 DEF Probe, ProbeReturns, Goto
  <2>2. cmd[c].pc # "done" /\ UNCHANGED inbox /\ UNCHANGED net
    BY <1>3 DEF Probe, ProbeReturns, At
  <2> QED BY <1>0, <2>1, <2>2, MoveAccounts
<1>4. CASE Start(c) \/ Started(c) \/ StartFails(c) \/ Stop(c)
  <2>1. \E p, x : cmd' = [cmd EXCEPT ![c].pc = p, ![c].active = x]
    BY <1>4 DEF Start, Started, StartFails, Stop
  <2>2. cmd[c].pc # "done" /\ UNCHANGED inbox
    BY <1>4 DEF Start, Started, StartFails, Stop, At
  <2>3. net'.load = net.load
    BY <1>0, <1>4, SameLoad DEF Start, Started, StartFails, Stop
  <2> QED BY <1>0, <2>1, <2>2, <2>3, MoveAccounts
<1> QED BY <1>1, <1>2, <1>3, <1>4

LEMMA DroppedAccounts ==
  ASSUME ExecTypes, OutputInv, NEW c \in Commands, Dropped(c)
  PROVE  OutputInv'
<1>1. Shaped(cmd) /\ net'.load = net.load BY SameLoad DEF ExecTypes, Dropped
<1>2. inbox' \in [Commands -> Seq(Arrivals)]
  <2>1. <<>> \in Seq(Arrivals) OBVIOUS
  <2> QED BY <2>1 DEF Dropped, OutputInv
<1>3. cmd[c].pc # "done" /\ Fail(c, "dropped") BY DEF Dropped
<1> QED BY <1>1, <1>2, <1>3, FailAccounts

(* A message keeps the account of both streams and of the reader.          *)
LEMMA ReceiveAccounts ==
  ASSUME ExecTypes, OutputInv, NEW c \in Commands, Receive(c)
  PROVE  OutputInv'
<1> DEFINE r == cmd[c]
           msg == Head(inbox[c])
           s == msg.s
           bytes == msg.bytes
           ents == [i \in DOMAIN bytes |-> [s |-> s, b |-> bytes[i]]]
           seen == r.seen \o ents
           out == IF s = "out" THEN Push(r.out, bytes) ELSE r.out
           err == IF s = "err" THEN Push(r.err, bytes) ELSE r.err
           one == [r EXCEPT !.seen = seen, !.out = out, !.err = err]
           final == IF c \in Streamed THEN Queued(one, s, bytes) ELSE one
<1>1. /\ Shaped(cmd) /\ DOMAIN r = DOMAIN Idle /\ Delivered(r) /\ (c \in Streamed => Followed(r))
      /\ r.pc = "running" /\ net'.load = net.load
  BY DEF ExecTypes, Shaped, OutputInv, Account, Receive, At
<1>2. inbox \in [Commands -> Seq(Arrivals)] /\ inbox[c] \in Seq(Arrivals) /\ inbox[c] # <<>>
  BY DEF OutputInv, Receive
<1>3. msg \in Arrivals /\ Tail(inbox[c]) \in Seq(Arrivals) BY <1>2, HeadTailProperties
<1>4. inbox' \in [Commands -> Seq(Arrivals)]
  <2>1. inbox' = [inbox EXCEPT ![c] = Tail(inbox[c])] BY DEF Receive
  <2> QED BY <1>2, <1>3, <2>1
<1>5. cmd' = [cmd EXCEPT ![c] = final]
  BY DEF Receive
<1> HIDE DEF msg
<1>6. s \in Streams /\ bytes \in Seq(Nat \ {Newline}) BY <1>3 DEF Arrivals
<1> HIDE DEF s, bytes
<1>7. bytes \in Seq(Nat) /\ \A i \in 1..Len(bytes) : bytes[i] \in Nat /\ bytes[i] # Newline
  BY <1>6
<1>8. r.seen \in Seq(Entries) BY <1>1 DEF Delivered
<1>9. ASSUME NEW S,
             \/ \A i \in 1..Len(bytes) : [s |-> s, b |-> bytes[i]] \in S
             \/ \A i \in 1..Len(bytes) : [s |-> s, b |-> bytes[i]] \notin S
      PROVE  /\ seen \in Seq(Entries)
             /\ (\A i \in 1..Len(bytes) : [s |-> s, b |-> bytes[i]] \in S) =>
                  Picked(seen, S) = Picked(r.seen, S) \o bytes
             /\ (\A i \in 1..Len(bytes) : [s |-> s, b |-> bytes[i]] \notin S) =>
                  Picked(seen, S) = Picked(r.seen, S)
  BY <1>6, <1>7, <1>8, <1>9, PickedMessage
<1>10. \A i \in 1..Len(bytes) : [s |-> s, b |-> bytes[i]] \in Texts BY <1>6, <1>7 DEF Texts
<1>11. seen \in Seq(Entries) /\ Picked(seen, Texts) = Picked(r.seen, Texts) \o bytes
  BY <1>9, <1>10
<1>12. ASSUME NEW t \in Streams
       PROVE  /\ s = t => Picked(seen, OfStream(t)) = Picked(r.seen, OfStream(t)) \o bytes
              /\ s # t => Picked(seen, OfStream(t)) = Picked(r.seen, OfStream(t))
  <2>1. CASE s = t
    <3>1. \A i \in 1..Len(bytes) : [s |-> s, b |-> bytes[i]] \in OfStream(t)
      BY <1>7, <2>1 DEF OfStream
    <3> HIDE DEF seen
    <3> QED BY <1>9, <2>1, <3>1
  <2>2. CASE s # t
    <3>1. \A i \in 1..Len(bytes) : [s |-> s, b |-> bytes[i]] \notin OfStream(t)
      BY <1>7, <2>2 DEF OfStream
    <3> HIDE DEF seen
    <3> QED BY <1>9, <2>2, <3>1
  <2> QED BY <2>1, <2>2
<1> HIDE DEF seen, ents
<1>13. \A S : Picked(r.seen, S) \in Seq(Nat) BY <1>8, PickedType
<1>14. TailOf(out, Picked(seen, OfStream("out")))
  <2>0. "out" \in Streams /\ TailOf(r.out, Picked(r.seen, OfStream("out")))
    BY <1>1 DEF Streams, Delivered
  <2>1. CASE s = "out"
    <3>1. out = Push(r.out, bytes) BY <2>1
    <3>2. Picked(seen, OfStream("out")) = Picked(r.seen, OfStream("out")) \o bytes BY <1>12, <2>0, <2>1
    <3>3. Picked(r.seen, OfStream("out")) \in Seq(Nat) BY <1>13
    <3> QED BY <1>7, <2>0, <3>1, <3>2, <3>3, TailPushed
  <2>2. CASE s # "out" BY <1>12, <2>0, <2>2
  <2> QED BY <2>1, <2>2
<1>15. TailOf(err, Picked(seen, OfStream("err")))
  <2>0. "err" \in Streams /\ TailOf(r.err, Picked(r.seen, OfStream("err")))
    BY <1>1 DEF Streams, Delivered
  <2>1. CASE s = "err"
    <3>1. err = Push(r.err, bytes) BY <2>1
    <3>2. Picked(seen, OfStream("err")) = Picked(r.seen, OfStream("err")) \o bytes BY <1>12, <2>0, <2>1
    <3>3. Picked(r.seen, OfStream("err")) \in Seq(Nat) BY <1>13
    <3> QED BY <1>7, <2>0, <3>1, <3>2, <3>3, TailPushed
  <2>2. CASE s # "err" BY <1>12, <2>0, <2>2
  <2> QED BY <2>1, <2>2
<1> HIDE DEF out, err, r
<1>16. /\ DOMAIN one = DOMAIN Idle /\ one.seen = seen /\ one.out = out /\ one.err = err
       /\ one.sent = r.sent /\ one.pending = r.pending /\ one.reply = r.reply /\ one.pc = r.pc
  BY <1>1 DEF Idle
<1> HIDE DEF one
<1>17. one.sent \in Seq(Nat) /\ one.pending \in Outputs BY <1>1, <1>16 DEF Delivered
<1>18. Account(c, final)
  <2>1. CASE c \notin Streamed
    <3>1. final = one BY <2>1
    <3> QED BY <1>11, <1>14, <1>15, <1>16, <1>17, <2>1, <3>1 DEF Account, Delivered
  <2>2. CASE c \in Streamed
    <3> DEFINE q == Queued(one, s, bytes)
    <3>1. /\ DOMAIN q = DOMAIN Idle /\ q.sent \in Seq(Nat) /\ q.pending \in Outputs
          /\ q.sent \o q.pending.bytes = (one.sent \o one.pending.bytes) \o bytes
          /\ q.seen = one.seen /\ q.out = one.out /\ q.err = one.err
          /\ q.reply = one.reply /\ q.pc = one.pc
      BY <1>6, <1>7, <1>16, <1>17, QueueAccounts
    <3>2. final = q BY <2>2
    <3> HIDE DEF q, final
    <3>3. Delivered(q) BY <1>11, <1>14, <1>15, <1>16, <3>1 DEF Delivered
    <3>4. one.sent \o one.pending.bytes = Picked(r.seen, Texts)
      BY <1>1, <1>16, <2>2 DEF Followed
    <3>5. q.sent \o q.pending.bytes = Picked(q.seen, Texts)
      BY <1>11, <1>16, <3>1, <3>4
    <3>6. q.reply \notin {"completed", "timed_out"}
      BY <1>1, <1>16, <2>2, <3>1 DEF Followed
    <3> QED BY <3>2, <3>3, <3>5, <3>6 DEF Account, Followed
  <2> QED BY <2>1, <2>2
<1> HIDE DEF final
<1>19. cmd[c].pc # "done" BY <1>1 DEF r
<1> QED BY <1>1, <1>4, <1>5, <1>18, <1>19, OneAccount

LEMMA FlushTickAccounts ==
  ASSUME ExecTypes, OutputInv, NEW c \in Commands, FlushTick(c)
  PROVE  OutputInv'
<1> DEFINE r == cmd[c]
           f == Flushed(r)
<1>1. /\ Shaped(cmd) /\ DOMAIN r = DOMAIN Idle /\ Delivered(r) /\ (c \in Streamed => Followed(r))
      /\ r.pc = "running" /\ net'.load = net.load /\ inbox' \in [Commands -> Seq(Arrivals)]
  BY DEF ExecTypes, Shaped, OutputInv, Account, FlushTick, At
<1>2. cmd' = [cmd EXCEPT ![c] = f] BY DEF FlushTick
<1>3. cmd[c].pc # "done" BY <1>1
<1>4. r.sent \in Seq(Nat) /\ r.pending \in Outputs BY <1>1 DEF Delivered
<1>5. /\ f.sent \in Seq(Nat) /\ f.pending \in Outputs /\ f.pending = NoOutput
      /\ f.sent \o f.pending.bytes = r.sent \o r.pending.bytes
      /\ f.seen = r.seen /\ f.out = r.out /\ f.err = r.err /\ f.reply = r.reply /\ f.pc = r.pc
  BY <1>1, <1>4, FlushAccounts
<1> HIDE DEF f, r
<1>6. Account(c, f) BY <1>1, <1>5 DEF Account, Delivered, Followed
<1> QED BY <1>1, <1>2, <1>3, <1>6, OneAccount DEF r

LEMMA CompleteAccounts ==
  ASSUME ExecTypes, OutputInv, NEW c \in Commands, Complete(c)
  PROVE  OutputInv'
<1> DEFINE r == cmd[c]
           f == Flushed(r)
           last == [f EXCEPT !.pc = "done", !.reply = "completed", !.active = FALSE]
<1>1. /\ Shaped(cmd) /\ DOMAIN r = DOMAIN Idle /\ Delivered(r) /\ (c \in Streamed => Followed(r))
      /\ r.pc = "running" /\ net'.load = net.load /\ inbox' \in [Commands -> Seq(Arrivals)]
  BY DEF ExecTypes, Shaped, OutputInv, Account, Complete, At
<1>2. cmd' = [cmd EXCEPT ![c] = last] BY DEF Complete
<1>3. cmd[c].pc # "done" BY <1>1
<1>4. r.sent \in Seq(Nat) /\ r.pending \in Outputs BY <1>1 DEF Delivered
<1>5. /\ DOMAIN f = DOMAIN Idle /\ f.sent \in Seq(Nat) /\ f.pending \in Outputs /\ f.pending = NoOutput
      /\ f.sent \o f.pending.bytes = r.sent \o r.pending.bytes
      /\ f.seen = r.seen /\ f.out = r.out /\ f.err = r.err
  BY <1>1, <1>4, FlushAccounts
<1> HIDE DEF f, r
<1>6. /\ last.pc = "done" /\ last.sent = f.sent /\ last.pending = f.pending
      /\ last.seen = f.seen /\ last.out = f.out /\ last.err = f.err
  BY <1>5 DEF Idle
<1> HIDE DEF last
<1>7. Account(c, last) BY <1>1, <1>5, <1>6 DEF Account, Delivered, Followed
<1> QED BY <1>1, <1>2, <1>3, <1>7, OneAccount DEF r

(* The text of the timeout, with or without the newline before it.         *)
LEMMA TextAccounts ==
  ASSUME NEW seen \in Seq(Entries), NEW b, TailOf(b, Picked(seen, OfStream("err"))),
         NEW n \in {Newline, TimeoutText}
  PROVE  LET more == Append(seen, [s |-> "err", b |-> n]) IN
         /\ more \in Seq(Entries)
         /\ TailOf(Push(b, <<n>>), Picked(more, OfStream("err")))
         /\ Picked(more, OfStream("out")) = Picked(seen, OfStream("out"))
         /\ n = Newline => Picked(more, Texts) = Picked(seen, Texts)
         /\ n = TimeoutText => Picked(more, Texts) = Picked(seen, Texts) \o <<TimeoutText>>
<1> DEFINE x == [s |-> "err", b |-> n]
           more == Append(seen, x)
           P == Picked(seen, OfStream("err"))
<1>1. n \in Nat /\ x \in Entries /\ x.b = n /\ <<n>> \in Seq(Nat)
  BY DEF Newline, TimeoutText, Entries, Streams
<1>2. x \in OfStream("err") /\ x \notin OfStream("out") BY <1>1 DEF OfStream
<1>3. (n = TimeoutText => x \in Texts) /\ (n = Newline => x \notin Texts)
  BY DEF Texts, Newline, TimeoutText, Streams
<1> HIDE DEF x
<1>4. ASSUME NEW S
      PROVE  /\ more \in Seq(Entries) /\ Picked(seen, S) \in Seq(Nat)
             /\ Picked(more, S) = IF x \in S THEN Append(Picked(seen, S), n) ELSE Picked(seen, S)
  BY <1>1, PickedOne, PickedType
<1> HIDE DEF more
<1>5. \A p \in Seq(Nat) : Append(p, n) = p \o <<n>> BY <1>1, AppendIsConcat
<1>6. Picked(more, OfStream("err")) = P \o <<n>> /\ P \in Seq(Nat) BY <1>2, <1>4, <1>5
<1> HIDE DEF P
<1>7. TailOf(Push(b, <<n>>), Picked(more, OfStream("err")))
  <2>1. TailOf(b, P) BY DEF P
  <2> QED BY <1>1, <1>6, <2>1, TailPushed
<1>8. Picked(more, OfStream("out")) = Picked(seen, OfStream("out")) BY <1>2, <1>4
<1>9. n = Newline => Picked(more, Texts) = Picked(seen, Texts) BY <1>3, <1>4
<1>10. n = TimeoutText => Picked(more, Texts) = Picked(seen, Texts) \o <<TimeoutText>>
  BY <1>3, <1>4, <1>5
<1> QED BY <1>4, <1>7, <1>8, <1>9, <1>10 DEF more, x

LEMMA LineAccounts ==
  ASSUME NEW seen \in Seq(Entries), NEW b, TailOf(b, Picked(seen, OfStream("err")))
  PROVE  LET line == Line(b)
             more == seen \o [i \in DOMAIN line |-> [s |-> "err", b |-> line[i]]] IN
         /\ more \in Seq(Entries)
         /\ TailOf(PushLine(b), Picked(more, OfStream("err")))
         /\ Picked(more, OfStream("out")) = Picked(seen, OfStream("out"))
         /\ Picked(more, Texts) = Picked(seen, Texts) \o <<TimeoutText>>
<1> DEFINE line == Line(b)
           ents == [i \in DOMAIN line |-> [s |-> "err", b |-> line[i]]]
           more == seen \o ents
           nl == [s |-> "err", b |-> Newline]
           text == [s |-> "err", b |-> TimeoutText]
<1>1. nl \in Entries /\ text \in Entries BY DEF Entries, Streams, Newline, TimeoutText
<1>2. CASE line = <<TimeoutText>> /\ PushLine(b) = Push(b, <<TimeoutText>>)
  <2>1. ents = <<text>>
    <3>1. DOMAIN line = 1..1 /\ line[1] = TimeoutText BY <1>2
    <3>2. \A i \in 1..1 : i = 1 OBVIOUS
    <3>3. ents = [i \in 1..1 |-> text] BY <3>1, <3>2
    <3> QED BY <3>3
  <2> HIDE DEF ents, line, text, nl
  <2>2. more = Append(seen, text) BY <1>1, <2>1, AppendIsConcat
  <2>3. TimeoutText \in {Newline, TimeoutText} OBVIOUS
  <2> HIDE DEF more
  <2> USE DEF text
  <2>4. QED BY <1>2, <2>2, <2>3, TextAccounts DEF more, ents, line
<1>3. CASE line = <<Newline, TimeoutText>> /\ PushLine(b) = Push(Push(b, <<Newline>>), <<TimeoutText>>)
  <2>1. ents = <<nl, text>>
    <3>1. DOMAIN line = 1..2 /\ line[1] = Newline /\ line[2] = TimeoutText BY <1>3
    <3>2. \A i \in 1..2 : i = 1 \/ i = 2 OBVIOUS
    <3>3. ents = [i \in 1..2 |-> IF i = 1 THEN nl ELSE text] BY <3>1, <3>2
    <3> DEFINE y == <<nl, text>>
    <3> HIDE DEF ents, nl, text
    <3>4. y \in Seq(Entries) /\ Len(y) = 2 /\ y[1] = nl /\ y[2] = text BY <1>1
    <3> HIDE DEF y
    <3>5. y \in [1..2 -> Entries] BY <3>4, LenProperties
    <3>6. y = [i \in 1..2 |-> IF i = 1 THEN nl ELSE text] BY <3>2, <3>4, <3>5
    <3> QED BY <3>3, <3>6 DEF y
  <2> DEFINE half == Append(seen, nl)
  <2> HIDE DEF ents, line, text, nl
  <2>2. half \in Seq(Entries) BY <1>1
  <2>3. more = Append(half, text)
    <3>1. <<nl, text>> = Append(<<nl>>, text) /\ <<nl>> \in Seq(Entries) BY <1>1
    <3>2. seen \o Append(<<nl>>, text) = Append(seen \o <<nl>>, text)
      <4> DEFINE y == <<nl>>
      <4>1. y \in Seq(Entries) BY <3>1
      <4> HIDE DEF y
      <4>2. seen \o Append(y, text) = Append(seen \o y, text) BY <1>1, <4>1
      <4> QED BY <4>2 DEF y
    <3>3. seen \o <<nl>> = half BY <1>1, AppendIsConcat
    <3> QED BY <2>1, <3>1, <3>2, <3>3
  <2> HIDE DEF half, more
  <2>4. /\ TailOf(Push(b, <<Newline>>), Picked(half, OfStream("err")))
        /\ Picked(half, OfStream("out")) = Picked(seen, OfStream("out"))
        /\ Picked(half, Texts) = Picked(seen, Texts)
    <3>1. Newline \in {Newline, TimeoutText} OBVIOUS
    <3> QED BY <3>1, TextAccounts DEF half, nl
  <2>5. /\ more \in Seq(Entries)
        /\ TailOf(Push(Push(b, <<Newline>>), <<TimeoutText>>), Picked(more, OfStream("err")))
        /\ Picked(more, OfStream("out")) = Picked(half, OfStream("out"))
        /\ Picked(more, Texts) = Picked(half, Texts) \o <<TimeoutText>>
    <3>1. TimeoutText \in {Newline, TimeoutText} OBVIOUS
    <3> QED BY <2>2, <2>3, <2>4, <3>1, TextAccounts DEF text
  <2>6. QED BY <1>3, <2>4, <2>5 DEF more, ents, line
<1> HIDE DEF ents, more, nl, text
<1> QED BY <1>2, <1>3, LineIs

LEMMA StoppedAccounts ==
  ASSUME ExecTypes, OutputInv, NEW c \in Commands, Stopped(c)
  PROVE  OutputInv'
<1> DEFINE r == cmd[c]
           line == Line(r.err)
           seen == r.seen \o [i \in DOMAIN line |-> [s |-> "err", b |-> line[i]]]
           err == PushLine(r.err)
           late == [r EXCEPT !.err = err, !.seen = seen]
           q == Queued(late, "err", <<TimeoutText>>)
           sent == IF c \in Streamed THEN Flushed(q) ELSE late
           final == [sent EXCEPT !.pc = "done", !.reply = "timed_out"]
<1>1. /\ Shaped(cmd) /\ DOMAIN r = DOMAIN Idle /\ Delivered(r) /\ (c \in Streamed => Followed(r))
      /\ net'.load = net.load
  BY DEF ExecTypes, Shaped, OutputInv, Account, Stopped, At
<1>2. inbox' \in [Commands -> Seq(Arrivals)]
  <2>1. <<>> \in Seq(Arrivals) OBVIOUS
  <2> QED BY <2>1 DEF Stopped, OutputInv
<1>3. CASE Fail(c, "error") /\ r.pc \in {"canceled", "failed"}
  <2>1. cmd[c].pc # "done" BY <1>3
  <2> QED BY <1>1, <1>2, <1>3, <2>1, FailAccounts
<1>4. CASE At(c, "timed_out") /\ cmd' = [cmd EXCEPT ![c] = final]
  <2>1. cmd[c].pc # "done" BY <1>4 DEF At
  <2>2. /\ r.seen \in Seq(Entries) /\ r.sent \in Seq(Nat) /\ r.pending \in Outputs
        /\ TailOf(r.out, Picked(r.seen, OfStream("out"))) /\ TailOf(r.err, Picked(r.seen, OfStream("err")))
    BY <1>1 DEF Delivered
  <2>3. /\ seen \in Seq(Entries) /\ TailOf(err, Picked(seen, OfStream("err")))
        /\ Picked(seen, OfStream("out")) = Picked(r.seen, OfStream("out"))
        /\ Picked(seen, Texts) = Picked(r.seen, Texts) \o <<TimeoutText>>
    BY <2>2, LineAccounts
  <2> HIDE DEF seen, err, r
  <2>4. /\ DOMAIN late = DOMAIN Idle /\ late.seen = seen /\ late.err = err /\ late.out = r.out
        /\ late.sent = r.sent /\ late.pending = r.pending
    BY <1>1 DEF Idle
  <2> HIDE DEF late
  <2>5. "err" \in Streams /\ <<TimeoutText>> \in Seq(Nat) BY DEF Streams, TimeoutText
  <2>6. /\ DOMAIN q = DOMAIN Idle /\ q.sent \in Seq(Nat) /\ q.pending \in Outputs
        /\ q.sent \o q.pending.bytes = (late.sent \o late.pending.bytes) \o <<TimeoutText>>
        /\ q.seen = late.seen /\ q.out = late.out /\ q.err = late.err
    BY <2>2, <2>4, <2>5, QueueAccounts
  <2> HIDE DEF q
  <2>7. /\ DOMAIN sent = DOMAIN Idle /\ sent.sent \in Seq(Nat) /\ sent.pending \in Outputs
        /\ sent.seen = seen /\ sent.out = r.out /\ sent.err = err
        /\ c \in Streamed => /\ sent.pending = NoOutput
                             /\ sent.sent \o sent.pending.bytes = q.sent \o q.pending.bytes
    <3>1. CASE c \in Streamed
      <4>1. sent = Flushed(q) BY <3>1
      <4> HIDE DEF sent
      <4> QED BY <2>4, <2>6, <4>1, FlushAccounts
    <3>2. CASE c \notin Streamed
      BY <2>2, <2>4, <3>2
    <3> QED BY <3>1, <3>2
  <2> HIDE DEF sent
  <2>8. /\ final.pc = "done" /\ final.sent = sent.sent /\ final.pending = sent.pending
        /\ final.seen = sent.seen /\ final.out = sent.out /\ final.err = sent.err
    BY <2>7 DEF Idle
  <2> HIDE DEF final
  <2>9. Delivered(final) BY <2>2, <2>3, <2>7, <2>8 DEF Delivered
  <2>10. c \in Streamed => Followed(final)
    <3> SUFFICES ASSUME c \in Streamed PROVE Followed(final) OBVIOUS
    <3>1. late.sent \o late.pending.bytes = Picked(r.seen, Texts) BY <1>1, <2>4 DEF Followed
    <3>2. final.sent \o final.pending.bytes = Picked(final.seen, Texts)
      BY <2>3, <2>6, <2>7, <2>8, <3>1
    <3> QED BY <2>7, <2>8, <3>2 DEF Followed
  <2> QED BY <1>1, <1>2, <1>4, <2>1, <2>9, <2>10, OneAccount DEF Account, r
<1> QED BY <1>3, <1>4 DEF Stopped

(* The process numbers its bytes from one: none is the newline that        *)
(* push_line adds.                                                         *)
LEMMA WritesAccounts ==
  ASSUME ExecTypes, OutputInv, NEW c \in Commands, Writes(c)
  PROVE  OutputInv'
<1>1. net.load[c] \in Nat BY DEF OutputInv, Writes
<1>2. Written(c) \in Nat
  <2> DEFINE B == {b \in 1..net.load[c] : \/ \E i \in DOMAIN cmd[c].seen : cmd[c].seen[i].b = b
                                          \/ \E i \in DOMAIN inbox[c] : b \in Range(inbox[c][i].bytes)}
             all == 1..net.load[c]
  <2>1. B \subseteq all OBVIOUS
  <2>2. IsFiniteSet(all) BY <1>1, FS_Interval
  <2>3. Written(c) = Cardinality(B) BY DEF Written
  <2> HIDE DEF B, all
  <2>4. IsFiniteSet(B) BY <2>1, <2>2, FS_Subset
  <2> QED BY <2>3, <2>4, FS_CardinalityType
<1>3. PICK s \in Streams, n \in 1..MaxMessage :
        inbox' = [inbox EXCEPT ![c] = Append(inbox[c], [s |-> s, bytes |-> [i \in 1..n |-> Written(c) + i]])]
  BY DEF Writes
<1> DEFINE w == Written(c)
           bytes == [i \in 1..n |-> w + i]
           msg == [s |-> s, bytes |-> bytes]
<1>4. n \in Nat BY ExecAssumption
<1>5. bytes \in Seq(Nat \ {Newline})
  <2>1. w \in Nat BY <1>2
  <2> HIDE DEF w
  <2>2. \A i \in 1..n : w + i \in Nat \ {Newline} BY <1>4, <2>1 DEF Newline
  <2>3. bytes \in [1..n -> Nat \ {Newline}] BY <2>2
  <2> HIDE DEF bytes
  <2> QED BY <1>4, <2>3, SeqDef
<1>6. inbox' = [inbox EXCEPT ![c] = Append(inbox[c], msg)] BY <1>3
<1> HIDE DEF bytes
<1>7. msg \in Arrivals BY <1>5 DEF Arrivals
<1> HIDE DEF msg
<1>8. inbox' \in [Commands -> Seq(Arrivals)] BY <1>6, <1>7 DEF OutputInv
<1>9. ASSUME NEW d \in Commands
      PROVE  Account(d, cmd'[d]) /\ (cmd'[d].pc # "done" => net'.load[d] \in Nat)
  BY DEF OutputInv, Writes
<1> QED BY <1>8, <1>9 DEF OutputInv, Account, Delivered, Followed, TailOf, Picked

LEMMA OthersAccount ==
  ASSUME ExecTypes, OutputInv, UNCHANGED <<cmd, inbox>>, net'.load = net.load
  PROVE  OutputInv'
<1>1. ASSUME NEW c \in Commands
      PROVE  Account(c, cmd'[c]) /\ (cmd'[c].pc # "done" => net'.load[c] \in Nat)
  BY DEF OutputInv
<1>2. inbox' \in [Commands -> Seq(Arrivals)] BY DEF OutputInv
<1> QED BY <1>1, <1>2 DEF OutputInv, Account, Delivered, Followed, TailOf, Picked

LEMMA OutputInit == Init => OutputInv
<1> SUFFICES ASSUME Init PROVE OutputInv
  OBVIOUS
<1>1. PICK load \in Loads :
        /\ net.load = load
        /\ cmd = [c \in Commands |-> [Idle EXCEPT !.pc = IF load[c] = None THEN "done" ELSE "begin"]]
  BY DEF Init
<1>2. load \in [Commands -> Nat \cup {None}] BY ExecAssumption
<1>3. ASSUME NEW c \in Commands PROVE Account(c, cmd[c]) /\ (cmd[c].pc # "done" => net.load[c] \in Nat)
  <2>1. /\ cmd[c].pc = (IF load[c] = None THEN "done" ELSE "begin")
        /\ cmd[c].seen = <<>> /\ cmd[c].sent = <<>> /\ cmd[c].pending = NoOutput
        /\ cmd[c].out = Bounded /\ cmd[c].err = Bounded /\ cmd[c].reply = None
    BY <1>1 DEF Idle
  <2>2. None \notin {"completed", "timed_out"} BY ExecAssumption
  <2> QED BY <1>1, <1>2, <2>1, <2>2, NothingDelivered DEF Account, Delivered, Followed
<1>4. inbox \in [Commands -> Seq(Arrivals)]
  <2>1. <<>> \in Seq(Arrivals) OBVIOUS
  <2> QED BY <2>1 DEF Init
<1> QED BY <1>3, <1>4 DEF OutputInv

LEMMA OutputStep == ExecInv /\ OutputInv /\ [Next]_vars => OutputInv'
<1> SUFFICES ASSUME ExecInv, OutputInv, [Next]_vars PROVE OutputInv'
  OBVIOUS
<1>0. ExecTypes /\ NetType BY DEF ExecInv, ExecTypes
<1>1. CASE UNCHANGED vars
  <2>1. UNCHANGED <<cmd, inbox>> /\ net'.load = net.load BY <1>1 DEF vars
  <2> QED BY <1>0, <2>1, OthersAccount
<1>2. CASE ClosePool
  <2>1. UNCHANGED <<cmd, inbox>> /\ net'.load = net.load BY <1>0, <1>2 DEF ClosePool, NetType
  <2> QED BY <1>0, <2>1, OthersAccount
<1>3. ASSUME NEW c \in Commands, Command(c) PROVE OutputInv'
  BY <1>0, <1>3, WaysAccount, ReceiveAccounts, FlushTickAccounts, CompleteAccounts,
     StoppedAccounts, DroppedAccounts DEF Command
<1>4. ASSUME NEW c \in Commands, Refill(c) \/ Signal(c) \/ SweepGroup(c) \/ Served(c) \/ Exits(c)
      PROVE  OutputInv'
  <2>1. UNCHANGED <<cmd, inbox>> BY <1>4 DEF Refill, Signal, SweepGroup, Served, Exits
  <2>2. net'.load = net.load
    BY <1>0, <1>4, SameLoad DEF Refill, Signal, SweepGroup, Served, Exits
  <2> QED BY <1>0, <2>1, <2>2, OthersAccount
<1>5. ASSUME NEW c \in Commands, Writes(c) PROVE OutputInv'
  BY <1>0, <1>5, WritesAccounts
<1> QED BY <1>1, <1>2, <1>3, <1>4, <1>5 DEF Next

LEMMA OutputAccounted == Spec => []OutputInv
BY ExecInvariant, OutputInit, OutputStep, PTL DEF Spec

(* However the messages of both streams interleave with the chunk size and *)
(* the flush timer, the reader of a job gets what the channel delivered, in *)
(* that order, and a command that ends by itself or by its timeout keeps   *)
(* nothing back (remote/ssh.rs, queue_stream_output, flush_stream_output). *)
THEOREM OutputInOrderTheorem == Spec => []OutputInOrder
<1>1. ASSUME OutputInv PROVE OutputInOrder
  BY <1>1, ExecAssumption DEF OutputInv, Account, Followed, OutputInOrder
<1> QED BY <1>1, OutputAccounted, PTL

(* For every limit and every size of message the result holds the last     *)
(* Limit bytes of each stream and says whether any are missing             *)
(* (remote/ssh.rs, BoundedOutput::push and push_line).                     *)
THEOREM TailKeptTheorem == Spec => []TailKept
<1>1. ASSUME OutputInv PROVE TailKept
  BY <1>1 DEF OutputInv, Account, Delivered, TailKept
<1> QED BY <1>1, OutputAccounted, PTL
=============================================================================
