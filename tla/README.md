# HelM SSH: TLA+ specifications and proofs

HelM SSH is a desktop SSH client: a Tauri back end in Rust (`src/src-tauri/src`), a React front
end (`src/src`), and a REST interface for automation inside the same process. This directory models
the parts of it where several tasks, commands or processes share state, checks them with TLC on
small instances, and proves the central invariants with TLAPS for every value of the constants.
All line numbers refer to the source tree next to it.

## 1. Inventory

### Parts, state, operations

| Part | State | Operations | What must hold |
|---|---|---|---|
| Vault and coordinator (`vault.rs`, `config_mutation.rs`, `commands/{vault,sessions}.rs`) | epoch, gate, vault mutex, unlocked data and key, revision, the file | ticket, lock, begin/finish replacement, mutate, import, migrate, create, auto-open | an edit lands on the configuration it was issued for; what was reported saved survives a crash |
| Configuration in the front end (`App.tsx`, `configSnapshot.ts`) | current snapshot | take a command result or a `CONFIG_CHANGED` event | ends at the newest configuration whatever the order of delivery |
| Commands and their locks (`commands/*.rs`, `AppState`) | API operation lock, server mutex, backup and tunnel locks, connection-configuration gate, mutation lock | about fifty desktop commands | locks never form a circle; connections, forwards and records end up matching the vault |
| REST server (`api_server/{mod,handlers_remote,handlers_admin}.rs`, `commands/{api_startup,api_server_cmd}.rs`) | server slot, listener, cache of allowed sessions, start attempt | start with retry, configure, stop, new key, reconcile, drain; some twenty-five handlers | the cache is what the vault authorises; a stop is not undone by an older start; a drain does not wait for itself |
| REST jobs (`api_server/jobs.rs`, `handlers_jobs.rs`, the limiter in `mod.rs`) | registry, status, stored events, subscribers, semaphores per session | create, run, cancel, evict, subscribe, withdraw, shut down | a cancel wins; limits hold when a session is withdrawn and allowed again; events neither lost nor repeated |
| Commands over SSH (`ssh.rs`, `runtime_api.rs`) | warm channel, refill task, probe for process groups, output buffers | run, stream, time out, cancel, drop, terminate, close the pool | nobody's command keeps running; output whole and in order; the kept tail is the tail |
| SFTP sessions (`runtime_sftp.rs`, `runtime_api.rs`, `SftpRecord`) | record, channel pool, builder task, permits, active uploads, staging files | open, build, compact, upload, download by several workers, close | no channel of a closed session survives; close waits for uploads; permits come back; downloads are exact |
| Terminal output (`runtime_terminal.rs`, `terminal_stream.rs`, `terminalStream.ts`, `terminalFrame.ts`) | batch, startup buffer, output gate, semaphore, sent/acknowledged, front-end counters | read, flush, start, send, acknowledge, close | bounded backlog; bytes in order, none lost; one close announced; no wait for ever |
| Transferred file (`transfer.rs`) | staging file, target, source version, part progress | prepare, open, copy, verify, install, clean up | a target is old or a complete copy; a staging file is a prefix when resumed |
| Transfer queue and history (`runtime_transfer.rs`, `transfer_history.rs`) | records, flags, notify permits, slots, history file | start, pause, resume, cancel, remove, retry, clear, close, load, persist | status and flags agree; one transfer per staging path; a closed session is quiet; the file follows memory |
| Connections and registry (`runtime_connection.rs`, `runtime_registry.rs`, `lifecycle.rs`) | maps of connections, terminals, SFTP sessions, telemetry jobs, forwards; lifecycle gate; per-session and per-connection locks | connect, disconnect, reap, open and close children, shutdown | one connection per session and origin where reuse is asked for; no child without a connection; `Disconnected` once and last; shutdown leaves nothing |
| Forwards and tunnels (`runtime_forward.rs`, `commands/tunnels.rs`) | forward records, listener and child tasks, server-side forwards | start local/dynamic/remote, stop, restore after connect | forwards of a tunnel are those of the tunnel as configured; none without its connection |
| Telemetry (`runtime_telemetry.rs`) | job records | start, sample, stop, self-stop | one job per session; a finished job is not registered |
| Backups (`backup.rs`, `commands/backup.rs`) | records in the vault, files at the targets, retention | run, due run, restore, delete, prune | a record has its file |
| Shutdown (`lib.rs`) | shutdown phase | stop the server, take the operation locks, close everything | ends, whatever is under way, and leaves nothing |
| Single instance (`single_instance.rs`) | mutex and event of the operating system | acquire, signal, release | one instance; a second start shows the first |
| Front-end session runtime (`useSessionRuntime.ts`, ...) | attempt counters, connection state per tab | connect, retry, events | a late result of an old attempt does not replace a newer state |

Not listed as concurrent parts: the protocol part of `ssh.rs` and `proxy.rs` (dialogues of a library),
`telemetry.rs` and `terminal_bytes.rs` (pure functions), `crypto.rs`, `config.rs`, `openapi.rs`,
`field_catalog.rs`, `update_download.rs`, rendering. `PROJECT.json` lists every part with its status
and reason.

### How they interact

* Tauri commands and REST handlers run as tasks of one tokio runtime with several threads. They
  share `RemoteRuntime` (maps behind `RwLock`s, given up between steps) and `AppState` (the vault
  behind a mutex, the coordinator).
* A handler of the REST server may be dropped at any await when its client goes away; Tauri commands
  run to their end. What a dropped handler leaves behind is undone by guards (a termination task, a
  clean-up task of a staging file, permits) or goes on by itself (a job, a store operation).
* Operations that touch several parts take the locks of `AppState` in a common order: API operation,
  server slot, backup, tunnel, connection gate, mutation. A stop of the server waits for its handlers,
  which take some of the same locks.
* The back end reaches the front end by command results, events and, for terminal output, an IPC
  channel. These three do not keep order with respect to each other.
* A child task (reader of a terminal, transfer, telemetry job, forward) removes its own record or is
  removed, aborted and joined by whoever closes it.
* Persistent state is the vault file and the transfer history, both replaced atomically
  (`atomic_file.rs`), and the staging files, which are not.

### What is hard to test here

A command accepted before and run after a restore; a result that overtakes an event; a task woken
between its look at a flag and its wait; a record inserted after the session it belongs to has been
closed; a child published after the clean-up of its connection has passed; a sender that waits for
credit with a lock held that the way to more credit needs; a process that dies with a half-written
staging file; a cancel that returns before the task has stopped; a handler dropped between starting
something on the server and remembering that it did; a server that is drained by an operation holding
what a handler waits for; an event between a subscription and the copy it starts from. `PROJECT.json`
lists these hazards by source line, each with the properties that would catch it.

## 2. Modules

| Module | Models |
|---|---|
| `ConfigMutation` | coordinator, vault (file and memory), REST handlers dropped in the middle, front-end snapshots, crash and relaunch |
| `TerminalFlow` | one terminal from the SSH channel to the screen and back (acknowledgments), and its close |
| `TerminalCredit` | what the flow control promises; implemented by `TerminalFlow` (`ImplementsCredit`) |
| `TransferFile` | what attempts at one transfer do to staging and target files |
| `TransferQueue` | records, tasks, slots, commands, close of the session, history file, restart |
| `Connections` | registries of `RemoteRuntime`: connections of one session and their children |
| `Programs` | commands, REST handlers and background tasks, each as the sequence of its steps |
| `Operations` | the state those programs share and what a step does to it: locks, vault, connections, forwards, server, backups |
| `Discipline` | what is known at each step of each program, and the rules every program keeps (section 4) |
| `ApiJobs` | registry, tasks, permits, event streams, withdrawal and shutdown of REST jobs |
| `SftpSessions` | SFTP sessions of automation connections, their channels, and the REST transfers on them |
| `ExecCommand` | commands over SSH with the channel pool, the probe, output, timeout and termination |
| `MC_*` | constants, feeds, symmetry and views for TLC |
| `*_proofs` | theorems and TLAPS proofs; `OperationsConnections_proofs` has those of `Operations` and of `Connections` |

State variables carry the name of the field they stand for in a comment at their declaration; an
action is named after the function, or the stretch of a function between two awaits, it models.
Where a lock is held across an await the holder is a variable or a guard over the progress of the
others; where it is not, the stretch is one atomic step. `map` in `PROJECT.json` gives the lines.
Definitions marked "seeded fault" are deliberate wrong variants of the definition that follows; no
specification uses them. They serve to confirm that each property notices the bug it is there for.

**ConfigMutation.** A configuration is a generation (one per replacement) and the set of commands
whose edit it contains. A command goes `idle -> waiting -> locked -> ...`; its store operation has a
progress of its own because `vault_blocking` moves it to a blocking thread that outlives a dropped
handler. The write of the file and the publication in memory are two steps with the vault mutex
held, either may be cut off by a crash, and the write may fail. Replacements are import
(`backup_import_bytes`), migration (unlock, rewrite under the internal password, commit) and starting
afresh (remove, create). Imports, like edits, are issued from the workspace, which the migration gate
covers until a configuration has reached the front end; `asked` remembers from where each replacement was
asked for. The gate's link to start afresh stays active while an earlier request is unanswered.

**TerminalFlow / TerminalCredit.** Three tasks contend for the output gate: the reader, `terminal_start`,
and a close. A byte is its position in what the server sent, so loss, repetition and reordering are
visible in `shown`. Permits, `sent` and `acked` are numbers; acknowledgments are a set of cumulative
counts that arrive in any order. In the front end a frame passes from the channel to xterm, is
consumed, and is acknowledged by size or by timer. The notice of an exit is no longer than a frame; it is a
short fixed text. `TerminalCredit` keeps only slots, sent, acked,
consumed and the acknowledgments on their way; the refinement maps the variables of the same name.

**TransferFile.** A file is a sequence of blocks, each the source version it was read from or a hole. An
attempt prepares (measures or removes the staging file), opens, copies by one or several parts, verifies
the size and the source, and installs. A part counts a block when it hands it over, to the pipelined
writes of the SFTP client or to the one background write of a local file (`PartWrite`); the block lands
(`Land`) or is lost (`WriteLost`) later, also when the part has returned, the task was aborted or, for
an upload, the process has died. Parts fail one by one; after an error the staging file is cut to the
prefix that was counted, removed if that fails, and left if that fails too. A cancel sets the flag, and
the task stops between writes or is aborted after the grace time. `torn` keeps, per staging file, which
of four lapses it has met: the process died during a parallel copy (`killed`), the clean-up failed
(`left`), it was cut to blocks counted but not acknowledged (`ahead`), or a write landed behind a gap
(`gap`). `EarlyRetry` switches on the other circumstance in which the code does not keep its promise
(section 5). A rename that is under way when its task is aborted is taken to happen before the abort.

**TransferQueue.** Actors are start commands, other commands, the close of the session and the tasks. The
semaphore of the session is a FIFO queue of requests for several permits; `control_notify` is a stored
permit per record. A failing part of a parallel copy sets the cancel flag of a record that is still running
(`PartFails`). Each of pause, resume, cancel, remove, retry, clear is the sequence of stretches
the code has, with the history written under its own mutex after the records were changed. A `scenario`,
chosen at the start, says which paths the transfers share, which user actions occur, and how many
sessions, history entries and crashes there are.

**Connections.** A connection is named after the connect that makes it. Connect takes the lifecycle gate
for reading and the lock of its session, reuses, evicts or dials; `connect_new` dials in any case.
Children (terminal, SFTP session, telemetry job, forward) are looked up, opened and published as
their functions do: under the read lock of `connections` with a second look at the connection, or,
for SFTP, under the open lock the clean-up also takes. Five actors take a connection out of the
registry (disconnect, an evicting connect, the reaper, the reader of a terminal, `shutdown_all`); the
one that gets the record closes the children kind by kind and then announces it. `shutdown_all` holds
the gate for writing and drains what is left.

**Programs / Operations.** Each command or handler is a sequence of steps in the order of its code: take a
ticket, ask for a lock, check, edit, connect, drain, give up locks; `When` and `Try` are its conditions and
error paths. One interpreter (`Step`) runs them for every process. Locks are queues, as tokio's are; a
failing step or a vanished client drops what is held. What a dropped handler was waiting for may go on: its
store operation, or its call on a backup file, is taken over by a process of `Pool` that has none of its locks
(`GoesOn`), and of the forwards it was stopping any may be gone. The data are the version of each session's
configuration, which a connection remembers, the tunnel and the forwards made for it, the authorised
sessions and the server's cache of them, backup records and files. The module is what connects the
others: `ConfigMutation` has the ticket and gate in full, `Connections` the registry, `ApiJobs` the
limiter; here each of these is one step of a program.

**ApiJobs.** A record outlives its registry entry, as the `Arc` does. Creation, the spawned task, a cancel and
its two later effects (flag, event), eviction, the change of allowed sessions,
and shutdown with its snapshot, wait and abort are separate steps. A limiter keeps one semaphore per
session and forgets it when the session is withdrawn and no job holds or queues on it any more. Stored
events are a bounded sequence, the broadcast channel a bounded buffer that tells a subscriber it fell
behind.

**SftpSessions.** Requests find or open the session under the open lock, the builder adds channels in the
background, compaction closes extra channels nobody holds. An upload registers against the closing
session, writes a staging file under a guard and renames it; a parallel download has one worker per
part with a bounded queue, and the stream hands the blocks on in order. The close sets the flag, waits
for uploads up to a limit, then closes the channels. The channels of a session, and those the builder has
not published yet, are sets: a request may be given any of them, which adds behaviours and drops none.
A single download holds its channel only until `download_stream` returns; the stream itself keeps the raw
session, which compaction by reference counts does not see (`Streaming`, `InUse`).

**ExecCommand.** The future of a command, its process on the server, the messages of its channel and its
termination task are separate actors. A future can be dropped at each of its awaits; what then runs is
what the guard spawns. Bytes are numbered, so that order and the kept tail can be compared with what
the channel delivered. Pool and refill have a step for each of take, spawn, register, open, store,
close.

## 3. Runs

Bounds are the constants of the `.cfg` files.

| Run | Instance | Distinct states | Shows |
|---|---|---|---|
| `config_mutation` | one desktop edit, one REST edit that may be dropped, two replacements, one crash | 343 715 | no edit on a configuration it was not issued for (`EditsNeverStale`); saved edits survive (`SavedEditsSurvive`); `FrontEndConverges` |
| `operations` | 188 plans of two or three operations from two initial worlds, two sessions, one tunnel, retention 2, one thread for what dropped handlers leave | 434 017 | `NoStuck`, `DrainNotSelfBlocked`, `ConnectionsCurrent`, `AuthorizationHolds`, `ForwardsMatch`, `NoDanglingRecord`, `StopWins`; no deadlock |
| `api_jobs` | up to three jobs of one session, one permit, registry of two, three stored events, a channel of one; four budgets (withdrawals, a stream, a shutdown, a full registry) | 2 703 799 | `LimitsHold`, `WithdrawnNeverRuns`, `ShutdownSettles`, `StreamFaithful`, `CancelWins` |
| `connections` | two connects of one session (reusing or not), two children of any kinds | 1 822 003 | `OneConnectionPerSession`, `NoOrphanChild`, `DisconnectedLast`, `ShutdownLeavesNothing` |
| `sftp_sessions` | two requests (two uploads, an upload and a parallel download, a parallel and a plain download), two channels, two slots, three blocks, two faults | 656 434 | `NoStagingLeft`, `SlotsReturned`, `DownloadExact`, `HolderKeepsChannel`, `NoChannelLeft`; no deadlock |
| `exec_command` | a job and a plain command, silent together or one of them writing three bytes against a limit of two, two faults | about 2.95 million | `AbandonedIsKilled`, `OutputInOrder`, `TailKept`, `NoRefillAfterClose` |
| `terminal_flow` | two feeds of up to six bytes, credit 3, frames of 2, startup buffer 5, WebView may vanish | 90 648 | `OutputConserved`; `ImplementsCredit`; liveness `CloseAnnounced` (and only once), `OutputShown` |
| `transfer_file` | two attempts, three blocks, two parts or one; one lost write, death of the process or change of the source, any number of failing steps, parts and clean-ups | 1 243 588 | `TargetIntact`, `StagingResumable` |
| `transfer_queue` | two transfers and two slots, the first needs both; either on two paths with pause, cancel, remove, close, progress, or on one path with two sessions, cancel, remove, retry, failing history writes and a crash | 1 630 384 | `StatusTellsFlags`, `ClosedSessionIsQuiet`, `OneTransferPerPath`, `NoOrphanRecord`, `HistorySettled` |
| `transfer_queue_live` | two transfers, pause and cancel, fair scheduling | 48 008 | `TransfersEnd`: transfers end and commands return |
| `terminal_flow_late_ack` | credit 2, feeds longer than the startup credit | | a counterexample to `LateAcksHarmless` (section 5) |
| `transfer_file_crash` | as `transfer_file`, one source version | | a counterexample to `IntactAfterDeath` (section 5) |

**Why the bounds are enough to be interesting.** Two commands of each sort are what an ordering or
atomicity fault needs; two replacements let an epoch be passed twice. Credit 3 against frames of 2
makes a sender wait with part of the credit free, and six bytes overflow the startup buffer of 5. A
size of 3 over 2 parts gives the last part a remainder. One transfer that needs both slots and one
that needs one make the FIFO semaphore block at its head. Two children cover two terminals of one
connection, an SFTP session that is reused while it is opened, a telemetry job that replaces another,
and any pair of kinds in one clean-up; with `connect_new` two connections are registered at once.
In `Operations` a circle of locks or a stale check needs two operations, and the pairs are those that
share a lock or a variable; the triples are the cases where a third operation, waiting in a fair
queue, blocks readers behind it. One execution permit against two jobs makes each job wait; a ring of
one makes a subscriber fall behind; a limit of two against messages of up to two bytes has every
case of the buffer: below, at and above its end.
`transfer_file` has one lost write, death or change of the source in a behaviour (`MaxFaults`); the theorems
about `TransferFile` allow any number together.
That the seeded faults are all found in these instances supports it.

**Reductions.** `MC_TransferQueue`, `MC_Connections` and `MC_TransferFile` use a `VIEW` that forgets
what no action and no property reads any more (flags of a task that has ended, the parent of a child
that is over, the owner of a finished clean-up, a block on its way to a file that was removed); the live
part is kept whole. Connections and children, attempts at a transfer, and the processes of `Operations`,
are symmetric. Neither is used where a liveness property is checked. In `Connections` the gate and the
look-up of a non-SFTP open are one step: nothing that happens between them is visible to another actor
except through the look-up, which then happens later.

**Deadlock** is checked in `operations` and `sftp_sessions`, which have a step for "all is done". In the other
runs commands are used up, which is a proper end; that nothing hangs is there for the liveness
properties to say.

**Fairness.** Tasks that can go on do (weak fairness of every step of a task, of a timer and of the front
end). The output gate and the history lock are tokio mutexes, which serve waiters in order: an
acquisition has strong fairness. Nothing obliges the server to send or to hang up, the user to act, a
write to succeed, a copy to fail or the grace time of a cancel to expire. A transfer may be kept
waiting by one that stays paused, since a paused task keeps its slots; `TransfersEnd` says so.

## 4. Proofs

TLAPS proves the theorems of the `*_proofs` modules for every value of the constants that the assumption
of the module allows: any number of commands, connections, jobs, requests, transfers, attempts, bytes
and crashes. The assumptions (`CommandsAssumption`, `NoneAssumption`, `FlowAssumption`,
`FileAssumption`, `QueueAssumption`, `ActorAssumption`, `ConnectionsAssumption`, `JobsAssumption`,
`SftpAssumption`, `ExecAssumption`) give types to the constants and keep the names apart; two say more.
`FlowAssumption` orders the sizes as the code's constants are ordered (a frame fits the credit and the
startup buffer), and `SftpAssumption` has a download use at most as many parts as there are slots (both
constants are 4 in the code). `OperationsAssumption` lets the plans be any sequences of the operations
there are, and `WorldsAssumption` lets the initial state be any whose connections have the configuration
of their session and whose forwards are the tunnel's. `DisciplineAssumption` speaks of no parameter: it
is a computation over the programs, which TLC carries out. TLC evaluates each on its run,
`DisciplineAssumption` on that of `MC_Connections`; `MC_Operations` does without it, because a faulty
program breaks it before any behaviour does.

Hardly any property is inductive by itself. Each module states the invariant that is, as a conjunction of
named parts, and shows that every action keeps it; TLC had checked it on the instance of the run first.

**`ConfigMutation_proofs`**: `TypeCorrect`, `EditsNeverStaleTheorem`, `SavedEditsTheorem`, `FrontEndTheorem`.
`IInv` adds to the types who holds the gate, and that the epoch is odd exactly while a replacement has not
dropped its guard (`GateInv`); that a store operation runs inside the gate unless its handler was dropped
(`TaskInv`); that a ticket equal to the current even epoch vouches for the generation in memory
(`TicketInv`); that an edit is published in the generation it was written for (`WriteInv`). `SavedInv`: file
and memory differ only between a write and its publication, generations are never reused, and a written
edit is kept. `FrontInv`: behind the migration gate nothing is on its way to the workspace
(`GateShown`); no snapshot is newer than the store, equal revisions carry equal data, and the newest one
is held or on its way (`SnapshotInv`).

**`TerminalFlow_proofs`**: `FlowInvariant`, `ImplementsCreditTheorem`, `CreditIsConserved`, `BacklogIsBounded`,
`TerminalBacklog`, `OutputConservedTheorem`. The refinement is shown step by step: an acquisition of credit
is `Send`, a processed frame `Process`, the timer `Announce`, an acknowledgment `Return` or `Ignore`,
everything else stutters. It needs `FlowInv`: whoever has frames in hand holds the gate and is sending
(`Holding`), nothing leaves before `terminal_start` has the gate and nothing is buffered after it
(`Starting`), and what the front end has yet to process was counted as sent (`Counted`).
`CreditInv` then bounds the backlog in the abstract specification: acknowledged is at most processed is
at most sent. `TerminalBacklog` brings the bound back to the running terminal. `OrderInv` adds that the
close frame is the last and nobody sends after it (`Sealed`). What batching and buffering do to the bytes
(`PushIs`, `PushPendingIs`, the lemmas on `Bytes`) is proved with a least counterexample, since an
induction theorem cannot be instantiated.

**`TransferFile_proofs`**: `FileInvariant`, `TargetIntactTheorem`, `StagingTheorem`, with the hypothesis
`~EarlyRetry`. Lost and late writes, failing clean-ups and deaths of the process are all allowed; a file
that met one of the four lapses is excepted by the properties themselves. `FileInv`: at most one live
attempt has a staging path (`OneWriter`); the file of the present version that met no lapse holds its
first blocks unless a copy is at it (`Resumable`), and no file is longer than its source (`FileFits`);
for each attempt, a running task has an active record or a cancel waiting for it (`Accounted`), no part
counts or writes beyond its range (`PartsFit`), what is on its way to a sound file was read from the
version the file is for (`Faithful`), and what was counted is in the file or still on its way unless it
was lost (`Filled`); `Installing` is what holds from the end of the copy on. The point of `Filled` and
`Faithful` is that they speak of blocks in flight after their task is gone.

**`TransferQueue_proofs`**: `StatusTellsFlagsTheorem`, `ClosedSessionTheorem`, `OnePerPathTheorem`,
`NoOrphanTheorem`, `HistorySettledTheorem`. `QueueInv` adds the types used, that a transfer not yet
inserted has untouched flags and an unstarted task (`FreshUntouched`), that a copy follows
`mark_transfer_running` (`CopyStarted`), and that the close has work left only in its loop
(`TodoOnlyInLoop`). `StatusTellsFlags` lets the cancel flag of a copy whose part has failed be set while
the record still runs. `SteadyStep` shows once that a step which activates no record and keeps flags and
status together preserves it; most actions are instances of that lemma. `OwnedInv` adds that a task
waits at its gate until its record is inserted (`GateWaits`) and that whoever joins a task has made its
record final (`JoinersFinal`). `SettledInv` adds that the order of the records names each of them once
(`Listed`), that a file or a snapshot has one status of a transfer (`Entered`), that nothing goes on
before the history is loaded (`Quiet`), that who writes has the lock (`OneWriter`), and that the history
is always about to be right (`Settling`): someone has a snapshot still to take, or the one being written
matches memory, or the file does unless its write failed. A step either leaves someone who will save
(`DueStep`) or changes nothing that a restart would restore (`KeepStep`). What `Without` keeps of a
sequence is shown with a least counterexample (`WithoutKeeps`).

**`OperationsConnections_proofs`, Connections**: `ConnectionsInvariant`, `NoOrphanChildTheorem`,
`DisconnectedLastTheorem`, `ShutdownTheorem`, `OneConnectionTheorem`. `ConnInv` says that a registered
connection is made and not being cleaned up (`RegFresh`), that a child knows its kind and its connection
(`KidsPlaced`), that a reader which cleans up owns the clean-up of its connection (`ReaderOwns`), that
an SFTP session being opened is behind no clean-up of SFTP sessions (`SftpLate`), which connections were
announced (`Announced`), that nothing is connected or opened while the shutdown holds the gate and what
it drained stays empty (`ShutInv`), and what the lock of the session excludes (`SessionInv`).

**`OperationsConnections_proofs`, Operations**: `OperationsTypeCorrect`, `OperationsNoStuck`,
`OperationsDrain`, `OperationsStopWins`, `OperationsNoDanglingRecord`, `OperationsForwardsMatch`,
`OperationsConnectionsCurrent`, for any number of processes and any plans, while the run has 188 plans
of two or three operations. There are some 80 programs, so the proofs do not look into them.
`Discipline` computes, as a data-flow analysis would, an outline of each: the locks its process surely
has (`has`) and may have asked for (`may`) at each step, and the facts that earlier steps established
and a lock has protected since (`facts`: the server is drained, there are no forwards, what was built is
what the vault holds, ...). Some facts are debts not yet incurred or paid: `"current" \notin facts`
means that the process has changed the configuration and still has to close the connections. The rules
are those the code's locks and checks are there for. `LocksOrdered`: the locks are taken in one order,
and where the code has two, server and mutation, whoever takes them has `apiOp` too; `FactsGuarded`: a
fact is kept only under its lock; `DebtsPaid`: whoever owes something does not fail, end or give up its
lock; `StepsFounded`: what a step relies on, such as no server being started again unless no stop has
returned. That the outline is right for every step of the interpreter is proved (`StepShape` and the
lemmas of the flow); that the programs keep the rules TLC computes.

`Core` is the inductive invariant below all the others: types; every process at a step of its program
(`Control`); each lock's queue holds one request of a process, and the locks a process wants and has are
within the bounds of its outline (`LockInv`). `OperationsNoStuck` follows by taking, among those that
wait, the one that waits for the lowest lock: its holder waits for a lower one or not at all. The other
properties need what their facts mean. `StopInv`: once a stop has returned the automatic start is
cancelled, and who found it otherwise holds `apiOp`. `BackupInv`: planned records have files, doomed
files have no record. `ForwardInv`: forwards match the tunnel or somebody owes the clean-up. These two
give way, as the properties do, once a late operation of a dropped handler has touched what they speak
of (`seen.late`). `ServerInv`: the server is in its slot, or shut down, or somebody owes to do either;
after a drain no handler runs, unless it was cut short. `CurrentInv`: a connection has the present
configuration of its session (`Justified`), or whoever changed that owes its closing, or whoever made it
owes the comparison; the REST interface has at most one connection of the session (`Sole`), without
which the comparison could close the wrong one. None is inductive without the debts, since between an
edit and what follows it the property is false.

**`ApiJobs_proofs`**: `JobsInvariant`, `CancelWinsTheorem` (an action property), `LimitsHoldTheorem`,
`WithdrawnTheorem`, `ShutdownSettlesTheorem`, `StreamFaithfulTheorem`. `JobsInv` relates the status of a
job to its task and permits (`Lifecycle`), says which jobs a change of the allowed sessions still has
before it (`Withdrawal`), what the shutdown has done to the jobs it found (`Closing`), and that all the
jobs of a session that refer to a semaphore refer to the same one (`OneSemaphore`). `StreamInv` numbers
the stored events without a gap (`Numbered`), keeps the event of a cancellation that is still to be sent
behind the end of its job (`Signaling`), and relates what a stream has told, has copied and has in its
channel to the record (`Followed`, `Heard`); what the filter of the copy yields is again shown with a
least counterexample (`StoredIs`).

**`ExecCommand_proofs`**: `ExecInvariant`, `AbandonedIsKilledTheorem`, `NoRefillAfterCloseTheorem`,
`OutputInOrderTheorem`, `TailKeptTheorem`. `ExecInv`:
the guard is active exactly while a command is requested or runs (`Guarded`), a process without a guard has a
termination, and one that has done its part without a fault has ended the process (`Terminated`), and a
refill that runs is in the slot of the pool or about to be put there by its caller (`RefillOwned`).
`OutputInv` keeps the account of each command: what was delivered is what its result keeps the tail of
(`Delivered`) and, in a job, what the reader got with what waits for the next flush (`Followed`).
`PickedMessage` says what a message adds to the bytes of a stream, `TailPushed` that `BoundedOutput::push`
keeps the tail for every limit and every size of message.

**`SftpSessions_proofs`**: `SftpInvariant`, `NoStagingLeftTheorem`, `SlotsReturnedTheorem`,
`DownloadExactTheorem`, `HolderKeepsTheorem`, `NoChannelLeftTheorem`. `SftpInv` has parts for the sessions
(`RecordLife`, `OneListed`, `Publishing`, `CleanerLate`, `LockHeld`), for their channels (`ChannelsOwned`,
`UsersHold`), for uploads and staging files (`UploadsCounted`, `StagingServed`, `StagingKnown`), for slots
(`SlotsHeld`: what the holders have and what is free add up) and for the blocks of a download
(`Delivered`, `InOrder`: what was delivered is a prefix, and the queue of each worker continues its part).

Only model-checked:

* liveness (`CloseAnnounced`, `OutputShown`, `TransfersEnd`): fairness is outside the prover's reach;
* `AuthorizationHolds`, which is false for arbitrary plans (section 5); the run leaves out those in which it fails.

## 5. Where the code departs from what it says

With a run:

* `terminal_flow_late_ack` (`LateAcksHarmless`). "Late acknowledgments after EOF/close are harmless":
  when the reader ends while `terminal_start` is still releasing buffered output against credit, the
  acknowledgments it needs no longer find the terminal. `terminal_start` keeps the gate, and the
  reader waits for it to announce the close.
* `transfer_file_crash` (`IntactAfterDeath`). A parallel copy makes the staging file long before it is
  complete. When the process dies, the next attempt takes its length for a prefix, and a file with holes
  passes the size check.

Two more properties, stated in their modules and left out of the passing runs, fail at once when they are
added to these as invariants:

* `IntactAfterLoss` (`TransferFile`). Blocks are counted when they are handed to a pipelined write
  (`transfer.rs:921`, `file.rs:493` of the vendored SFTP client). When a part fails, or one of the writes does, the
  staging file is cut to the counts (`transfer.rs:1055`), which may reach over a block that is missing; the
  retry resumes behind the hole, passes the size check and installs the file. The test
  `interrupted_parallel_transfer_keeps_only_the_contiguous_prefix` states what is meant.
* `ChannelHeld` (`SftpSessions`). "An active transfer holds another Arc clone" (`runtime_registry.rs:410`), but a
  single download does not: `download_stream` drops its `Arc` on return. Compaction closes the channel under
  the stream, which ends with an error before its declared length.

Seen while modelling, each excepted where a property would meet it:

* A REST handler whose client disconnects is dropped with its guards while its store operation is still
  queued on the blocking pool; a restore may then run first, and the operation edits the restored
  configuration. `EditsNeverStale` speaks of commands that are not dropped. In the same way the tunnel lock is
  free while an edit of the tunnel is still queued (a start of the old tunnel follows, then the edit), and the backup
  lock while records are still to be stored or a file to be removed. `ForwardsMatch` excepts a tunnel edited so,
  `NoDanglingRecord` records and files so touched (`seen.late`).
* A REST handler dropped while the server is asked for a forward, or while forwards are being stopped, leaves a
  remote listener that no record names until its connection ends. `fwds` has the records only.
* A cut of the staging file that fails, followed by a removal that fails, or an aborted parallel copy whose file
  cannot be removed, leaves a file that is no prefix; `TargetIntact` and `StagingResumable` except it (`torn`).
* A write that lands when its copy has already ended may lie behind a gap (`"gap"`), excepted likewise.
* A fresh start asked for behind the migration gate while a migration is unanswered begins the revisions anew
  under a front end that may show the migrated configuration; `FrontEndConverges` excepts it.
* A cancel makes the record of a transfer final before its task has stopped; a retry in that window
  shares the staging file with it. `TargetIntact` fails with `EarlyRetry = TRUE`; the runs have it `FALSE`.
* `restore_api_server_after_config_replacement` reads the authorised sessions before it waits for the
  API operation lock (`api_server_cmd.rs:577`). A second replacement, `settings_ai_api_update` or
  `api_server_configure_and_start` in between leaves the server with the older set until the next
  reconciliation; the plans of `operations` do not pair a replacement with these.
* A drain that runs out of its three seconds leaves handlers that may still register an automation
  connection of the old configuration; `ConnectionsCurrent` and `AuthorizationHolds` except it
  (`seen.overrun`).
* `terminal_close` aborts the reader of its terminal, also when that reader has found the handle dead
  and is cleaning up the connection. The record is out, the remaining children stay until shutdown, and
  `Disconnected` is not emitted (`stage` is `"aborted"`). A remote forward whose stop the server
  refuses is put back (`"failed"`) even if its connection has been cleaned up meanwhile; stopping it
  again removes it.
* `ExecChannelPool` spawns a refill and registers it afterwards (`ssh.rs:227`). A scheduler delayed in
  between may abort a newer refill, after which `refilling` stays set and the pool is never refilled; a
  pool closed in between may keep one idle channel until its record is dropped. `NoRefillAfterClose`
  begins when that window is over.
* A handler dropped between creating a job and spawning its task leaves a queued job that stays active;
  a job created by a request in flight after the snapshot of the registry's shutdown is not settled by
  it (`ShutdownSettles` speaks of those in the snapshot).
* A transfer record written before the history has been loaded would replace the old history; the model
  loads first.

## 6. Not modelled

* Contents: settings, remote files, commands, terminal bytes are names or numbers. Encryption, key
  derivation and old file formats are left out; a wrong password is a store operation that fails. How
  an edit rearranges groups, favourites, quick commands (at most 100), AI sessions (at most 20) and
  settings (`vault.rs`), and the validation in `config.rs`, are sequential data code.
* `ConfigMutation`: several processes on one vault file (`single_instance.rs` keeps them apart).
* `Operations`: one tunnel, and every forward of a tunnel carries its identifier. Migration and fresh start are
  `ConfigMutation`'s. Waits for registry locks are `Connections`'; they, and the pair of check and
  disconnect, are no points at which a handler is dropped, nor are the steps of starting a local or dynamic
  forward, which are undone with the listener. The emergency clean-up after `axum::serve`
  returns an error is left out, since it never does. The server mutex and the mutation lock are taken in
  either order by `start_api_server_inner` and `sync_api_server_authorization_cache`, which is safe
  because both hold the API operation lock; the model has both orders. `ssh_trust_host_key` changes the
  pinned key without the connection gate, so `ConnectionsCurrent` leaves the pin out. A record deleted
  without its file reappears by design when the targets are listed again. Progress events of the
  automatic start are left out.
* `ApiJobs`: what a job prints beyond its events; rate limits; the classification of commands.
* `SftpSessions`: one connection; semaphores and mutexes may be granted out of order, which only adds
  behaviours; atomics are sequentially consistent (`closed` and `active_api_uploads` are a
  store-then-load pair with acquire and release only). A removal on an open channel succeeds. After a close that
  timed out or a lost transport a staging file may stay, and the properties say so.
* `ExecCommand`: reassembly of UTF-8, back-pressure of the output channel and latency figures. The server
  handles the messages of a connection in order; whether it honours signals is chosen at the start. The
  probe follows the opening of the channel, though the code joins the two.
* `TerminalFlow`: input, resize, a second `terminal_start`.
* `TransferFile`: directories, permissions, time stamps.
* `TransferQueue`: a history file that cannot be read.
* `Connections`: dialing is one step with two outcomes; the other origin and other sessions, which share no
  lock with the one modelled.
* The parts of section 1 with status `not_modelled` in `PROJECT.json`: protocol dialogues, static
  descriptions, updates, platform calls, the front-end session runtime, rendering.

## 7. Plan

The order of the modules follows the weight of what they protect: configuration, terminal, transfers,
connections, then the REST interface and its remote operations, which are all in place. What is left:

1. Liveness of `Connections`: a dead connection is announced.
2. The data edits of `vault.rs` against what `config.rs` normalises; `SessionRuntime` for the attempts and
   events of a session tab; `SingleInstance`.
3. `AuthorizationHolds` as a theorem, once `restore_api_server_after_config_replacement` reads the sessions
   under the lock.

## 8. Running

In this directory, `tlc -workers 2 -config <cfg> <module>` for a run of `PROJECT.json` and `tlapm
<module>.tla` for a proof module. The runs take from a second to about three and a half minutes, the
proofs from nothing about eleven minutes for `OperationsConnections_proofs`, seven for
`SftpSessions_proofs`, four for `TerminalFlow_proofs`, `ApiJobs_proofs` and `ExecCommand_proofs`, and up
to two and a half for each of the others.
