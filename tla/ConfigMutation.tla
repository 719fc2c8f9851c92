--------------------------- MODULE ConfigMutation ---------------------------
(***************************************************************************)
(* The encrypted workspace file (VaultStore, vault.rs) and the coordinator *)
(* in front of it (ConfigMutationCoordinator, config_mutation.rs).         *)
(*                                                                         *)
(* A command that edits the configuration takes a ticket (the current      *)
(* epoch) when it is accepted, queues for the gate, and is refused when    *)
(* the epoch moved or is odd by the time it gets the gate.  A replacement  *)
(* of the whole configuration (backup import or restore, migration of an   *)
(* old password, or starting afresh) owns the gate and keeps the epoch odd *)
(* while it works.  Inside the gate a command runs one store operation     *)
(* under the vault mutex: write the encrypted file atomically, then        *)
(* publish the new data in memory and raise the revision.                  *)
(*                                                                         *)
(* The configuration is abstracted to the generation it descends from (one *)
(* per whole-config replacement) and the set of commands whose edit it     *)
(* contains.  A REST handler runs its store operation on a blocking thread *)
(* (vault_blocking) and may be dropped by a client that disconnects; the   *)
(* blocking operation then goes on without its handler.                    *)
(***************************************************************************)
EXTENDS Naturals, FiniteSets

CONSTANTS
  Mutators,     \* commands that edit the configuration, one use each
  Cancellable,  \* those among them served over REST, whose handler can be dropped
  Replacers,    \* whole-config replacements, one use each
  None,         \* "nobody holds it" / "no snapshot yet"
  MaxCrashes    \* how often the process may die and be launched again

ASSUME CommandsAssumption ==
  /\ Cancellable \subseteq Mutators
  /\ Mutators \cap Replacers = {}
  /\ None \notin Mutators \cup Replacers
  /\ MaxCrashes \in Nat

VARIABLES
  epoch,      \* ConfigMutationCoordinator.epoch
  gate,       \* holder of ConfigMutationCoordinator.gate
  pc,         \* progress of each command
  ticket,     \* ConfigMutationTicket of each mutator
  basis,      \* history: the generation each mutator was accepted against
  asked,      \* where in the front end each replacement was asked for
  task,       \* progress of the store operation of each command
  vault,      \* holder of the Mutex<VaultStore>
  unlocked,   \* VaultStore.unlocked.is_some()
  mem,        \* VaultStore.unlocked.data
  key,        \* the password VaultStore.unlocked.crypto is derived from
  revision,   \* VaultStore.revision
  disk,       \* the data in the vault file
  pass,       \* the password that opens the vault file; "none": no file
  reply,      \* the snapshot a finished store operation hands to its command
  ui,         \* configSnapshotRef.current in the front end
  inbox,      \* command results and CONFIG_CHANGED events on their way to it
  gens,       \* generations created so far
  crashes     \* process deaths so far

coordinator == <<epoch, gate, ticket>>
store == <<unlocked, mem, key, revision, disk, pass>>
front == <<reply, ui, inbox>>
vars == <<coordinator, pc, basis, asked, task, vault, store, front, gens, crashes>>

Procs == Mutators \cup Replacers
Even(n) == n % 2 = 0
Data == [gen : Nat, edits : SUBSET Mutators]
Snapshot == [rev : Nat, data : Data]
ASSUME NoneAssumption == None \notin Snapshot

\* the command is over
Final == {"done", "conflict", "failed", "cancelled", "lost"}
\* its store operation has started and has not returned
Running == {"queued", "storing", "written", "opened", "rekeyed", "removed"}

TypeOK ==
  /\ epoch \in Nat
  /\ gate \in Procs \cup {None}
  /\ pc \in [Procs -> {"idle", "waiting", "locked", "reopened"} \cup Final]
  /\ ticket \in [Mutators -> Nat]
  /\ basis \in [Mutators -> Nat]
  /\ asked \in [Replacers -> {"none", "workspace", "gate", "again"}]
  /\ task \in [Procs -> {"none", "ok", "err"} \cup Running]
  /\ vault \in Procs \cup {None}
  /\ unlocked \in BOOLEAN
  /\ mem \in Data
  /\ key \in {"auto", "user"}
  /\ revision \in Nat
  /\ disk \in Data
  /\ pass \in {"auto", "user", "none"}
  /\ reply \in [Procs -> Snapshot \cup {None}]
  /\ ui \in Snapshot \cup {None}
  /\ inbox \subseteq Snapshot
  /\ gens \in Nat
  /\ crashes \in Nat

EmptyConfig(g) == [gen |-> g, edits |-> {}]

(* auto_open opens the file when it carries the internal password and      *)
(* leaves the store locked (NeedsMigration) when it carries the user's.    *)
(* The front end then loads config_snapshot, or shows the migration gate.  *)
Init ==
  /\ epoch = 0 /\ gate = None /\ vault = None
  /\ pc = [p \in Procs |-> "idle"]
  /\ task = [p \in Procs |-> "none"]
  /\ ticket = [m \in Mutators |-> 0]
  /\ basis = [m \in Mutators |-> 0]
  /\ asked = [r \in Replacers |-> "none"]
  /\ gens = 0 /\ crashes = 0 /\ revision = 0
  /\ mem = EmptyConfig(0) /\ disk = EmptyConfig(0)
  /\ pass \in {"auto", "user"}
  /\ unlocked = (pass = "auto")
  /\ key = pass
  /\ reply = [p \in Procs |-> None]
  /\ ui = IF unlocked THEN [rev |-> 0, data |-> mem] ELSE None
  /\ inbox = {}
-----------------------------------------------------------------------------
(* Acceptance and the gate.                                                *)

\* ConfigMutationCoordinator::ticket, the first line of every mutating command.
\* No command is sent while the migration gate covers the workspace.
Accept(m) ==
  /\ pc[m] = "idle"
  /\ ui # None
  /\ pc' = [pc EXCEPT ![m] = "waiting"]
  /\ ticket' = [ticket EXCEPT ![m] = epoch]
  /\ basis' = [basis EXCEPT ![m] = mem.gen]
  /\ UNCHANGED <<epoch, gate, asked, task, vault, store, front, gens, crashes>>

\* seeded fault: only the parity of the epoch is checked
TicketValidParityOnly(m) == Even(epoch)

\* ConfigMutationCoordinator::lock
TicketValid(m) == epoch = ticket[m] /\ Even(epoch)

Lock(m) ==
  /\ pc[m] = "waiting"
  /\ gate = None
  /\ IF TicketValid(m)
     THEN /\ gate' = m
          /\ pc' = [pc EXCEPT ![m] = "locked"]
          /\ task' = [task EXCEPT ![m] = "queued"]
     ELSE /\ pc' = [pc EXCEPT ![m] = "conflict"]
          /\ UNCHANGED <<gate, task>>
  /\ UNCHANGED <<epoch, ticket, basis, asked, vault, store, front, gens, crashes>>

\* a replacement command is called: an import from the workspace, a migration
\* or a fresh start from the migration gate that covers it (App.tsx), whose
\* link to start afresh stays active while an earlier request is unanswered
UnderWay(r) == pc[r] \in {"waiting", "locked", "reopened"}
Unanswered == inbox # {} \/ \E r \in Replacers : UnderWay(r)
Request(r) ==
  /\ pc[r] = "idle"
  /\ pc' = [pc EXCEPT ![r] = "waiting"]
  /\ asked' = [asked EXCEPT ![r] = IF ui # None THEN "workspace"
                                   ELSE IF Unanswered THEN "again" ELSE "gate"]
  /\ UNCHANGED <<coordinator, basis, task, vault, store, front, gens, crashes>>

\* ConfigMutationCoordinator::begin_replacement
BeginReplacement(r) ==
  /\ pc[r] = "waiting"
  /\ gate = None
  /\ gate' = r
  /\ epoch' = epoch + 1
  /\ pc' = [pc EXCEPT ![r] = "locked"]
  /\ task' = [task EXCEPT ![r] = "queued"]
  /\ UNCHANGED <<ticket, basis, asked, vault, store, front, gens, crashes>>

\* the guard is dropped and the snapshot goes to the front end, as the result
\* of the command, as a CONFIG_CHANGED event, or as both
Release(p) ==
  /\ gate' = None
  /\ pc' = [pc EXCEPT ![p] = IF task[p] = "ok" THEN "done" ELSE "failed"]
  /\ inbox' = inbox \cup ({reply[p]} \ {None})
  /\ reply' = [reply EXCEPT ![p] = None]
  /\ UNCHANGED <<epoch, ticket, basis, asked, task, vault, store, ui, gens, crashes>>

\* Drop for ConfigReplacementGuard: the epoch first, the gate after it
FinishEpoch(r) ==
  /\ pc[r] = "locked"
  /\ task[r] \in {"ok", "err"}
  /\ epoch' = epoch + 1
  /\ pc' = [pc EXCEPT ![r] = "reopened"]
  /\ UNCHANGED <<gate, ticket, basis, asked, task, vault, store, front, gens, crashes>>

ReleaseReplacement(r) ==
  /\ pc[r] = "reopened"
  /\ Release(r)

ReleaseMutation(m) ==
  /\ pc[m] = "locked"
  /\ task[m] \in {"ok", "err"}
  /\ Release(m)

\* the HTTP client of a REST command disconnects: its handler is dropped with
\* the guards it holds, a store operation already handed over goes on
Cancel(m) ==
  /\ m \in Cancellable
  /\ pc[m] \in {"waiting", "locked"}
  /\ pc' = [pc EXCEPT ![m] = "cancelled"]
  /\ gate' = IF gate = m THEN None ELSE gate
  /\ reply' = [reply EXCEPT ![m] = None]
  /\ UNCHANGED <<epoch, ticket, basis, asked, task, vault, store, ui, inbox, gens, crashes>>
-----------------------------------------------------------------------------
(* Store operations, under the Mutex<VaultStore>.                          *)

Enter(p) ==
  /\ task[p] = "queued"
  /\ vault = None
  /\ vault' = p
  /\ task' = [task EXCEPT ![p] = "storing"]
  /\ UNCHANGED <<coordinator, pc, basis, asked, store, front, gens, crashes>>

\* the operation returns an error: the store is locked, the input is refused,
\* or the file could not be written; nothing was published
Abort(p) ==
  /\ task[p] \in {"storing", "opened", "removed"}
  /\ task' = [task EXCEPT ![p] = "err"]
  /\ vault' = None
  /\ UNCHANGED <<coordinator, pc, basis, asked, store, front, gens, crashes>>

\* VaultStore::snapshot_for, the value a finished operation returns
Return(p, rev, data) ==
  /\ task' = [task EXCEPT ![p] = "ok"]
  /\ vault' = None
  /\ reply' = [reply EXCEPT ![p] = [rev |-> rev, data |-> data]]
  /\ UNCHANGED <<ui, inbox>>

\* seeded fault: the file is not written
MutateWriteSkipped(m) ==
  /\ task[m] = "storing"
  /\ unlocked
  /\ task' = [task EXCEPT ![m] = "written"]
  /\ UNCHANGED <<coordinator, pc, basis, asked, vault, store, front, gens, crashes>>

\* VaultStore::mutate: clone, update, encrypt, write the file
MutateWrite(m) ==
  /\ task[m] = "storing"
  /\ unlocked
  /\ disk' = [gen |-> mem.gen, edits |-> mem.edits \cup {m}]
  /\ pass' = key
  /\ task' = [task EXCEPT ![m] = "written"]
  /\ UNCHANGED <<coordinator, pc, basis, asked, vault, unlocked, mem, key, revision,
                 front, gens, crashes>>

\* VaultStore::mutate and backup_import_bytes: publish what was written
Commit(p) ==
  /\ task[p] = "written"
  /\ mem' = disk
  /\ revision' = revision + 1
  /\ Return(p, revision + 1, disk)
  /\ UNCHANGED <<coordinator, pc, basis, asked, unlocked, key, disk, pass, gens, crashes>>

\* VaultStore::backup_import_bytes: the backup is a new generation
ImportWrite(r) ==
  /\ task[r] = "storing"
  /\ unlocked
  /\ asked[r] = "workspace"
  /\ gens' = gens + 1
  /\ disk' = EmptyConfig(gens + 1)
  /\ pass' = key
  /\ task' = [task EXCEPT ![r] = "written"]
  /\ UNCHANGED <<coordinator, pc, basis, asked, vault, unlocked, mem, key, revision,
                 front, crashes>>

\* VaultStore::migrate: unlock with the user's old password ...
MigrateUnlock(r) ==
  /\ task[r] = "storing"
  /\ asked[r] # "workspace"
  /\ pass = "user"         \* no other file opens with the old password
  /\ unlocked' = TRUE
  /\ mem' = disk
  /\ task' = [task EXCEPT ![r] = "opened"]
  /\ UNCHANGED <<coordinator, pc, basis, asked, vault, key, revision, disk, pass,
                 front, gens, crashes>>

\* ... write the file again under the internal password ...
MigrateRewrite(r) ==
  /\ task[r] = "opened"
  /\ disk' = mem
  /\ pass' = "auto"
  /\ task' = [task EXCEPT ![r] = "rekeyed"]
  /\ UNCHANGED <<coordinator, pc, basis, asked, vault, unlocked, mem, key, revision,
                 front, gens, crashes>>

\* ... and use the new key from now on; the revision stays
MigrateCommit(r) ==
  /\ task[r] = "rekeyed"
  /\ key' = "auto"
  /\ Return(r, revision, mem)
  /\ UNCHANGED <<coordinator, pc, basis, asked, unlocked, mem, revision, disk, pass,
                 gens, crashes>>

\* vault_skip_migration: delete the old file, begin with a new locked store,
\* whatever the file holds by now ...
SkipRemove(r) ==
  /\ task[r] = "storing"
  /\ asked[r] # "workspace"
  /\ gens' = gens + 1
  /\ disk' = EmptyConfig(gens + 1)
  /\ pass' = "none"
  /\ unlocked' = FALSE
  /\ revision' = 0
  /\ task' = [task EXCEPT ![r] = "removed"]
  /\ UNCHANGED <<coordinator, pc, basis, asked, vault, mem, key, front, crashes>>

\* ... and create it with the default group
SkipCreate(r) ==
  /\ task[r] = "removed"
  /\ mem' = disk
  /\ pass' = "auto" /\ key' = "auto" /\ unlocked' = TRUE
  /\ Return(r, revision, disk)
  /\ UNCHANGED <<coordinator, pc, basis, asked, revision, disk, gens, crashes>>
-----------------------------------------------------------------------------
(* The front end and the process.                                          *)

\* seeded fault: the front end shows whatever arrives last
CurrentAlways(snap) == TRUE

\* isConfigSnapshotCurrent
Current(snap) == ui = None \/ snap.rev >= ui.rev

\* commitConfigSnapshot: results and events arrive in any order
Deliver(snap) ==
  /\ snap \in inbox
  /\ inbox' = inbox \ {snap}
  /\ ui' = IF Current(snap) THEN snap ELSE ui
  /\ UNCHANGED <<coordinator, pc, basis, asked, task, vault, store, reply, gens, crashes>>

\* the process dies at any point and is launched again: auto_open creates a
\* missing file, opens one with the internal password, leaves one with the
\* user's password to the migration gate
Relaunch ==
  /\ crashes < MaxCrashes
  /\ crashes' = crashes + 1
  /\ epoch' = 0 /\ gate' = None /\ vault' = None /\ revision' = 0
  /\ pc' = [p \in Procs |-> IF pc[p] \in {"waiting", "locked", "reopened"} THEN "lost" ELSE pc[p]]
  /\ task' = [p \in Procs |-> IF task[p] \in Running THEN "none" ELSE task[p]]
  /\ asked' = [r \in Replacers |-> "none"]
  /\ pass' = IF pass = "user" THEN "user" ELSE "auto"
  /\ mem' = disk
  /\ key' = pass'
  /\ unlocked' = (pass # "user")
  /\ ui' = IF pass # "user" THEN [rev |-> 0, data |-> disk] ELSE None
  /\ inbox' = {}
  /\ reply' = [p \in Procs |-> None]
  /\ UNCHANGED <<ticket, basis, disk, gens>>

MutatorStep(m) ==
  \/ Accept(m) \/ Lock(m) \/ ReleaseMutation(m) \/ Cancel(m) \/ MutateWrite(m)

ReplacerStep(r) ==
  \/ Request(r) \/ BeginReplacement(r) \/ FinishEpoch(r) \/ ReleaseReplacement(r)
  \/ ImportWrite(r) \/ MigrateUnlock(r) \/ MigrateRewrite(r) \/ MigrateCommit(r)
  \/ SkipRemove(r) \/ SkipCreate(r)

Next ==
  \/ \E m \in Mutators : MutatorStep(m)
  \/ \E r \in Replacers : ReplacerStep(r)
  \/ \E p \in Procs : Enter(p) \/ Abort(p) \/ Commit(p)
  \/ \E snap \in inbox : Deliver(snap)
  \/ Relaunch

Spec == Init /\ [][Next]_vars
-----------------------------------------------------------------------------
(* Properties.                                                             *)

\* An edit found in the configuration, in memory or in the file, was accepted
\* against the very generation it is found in: no command accepted before a
\* restore is applied on top of the restored configuration.  For the commands
\* that hold the gate until their store operation returns.
EditsNeverStale ==
  \A m \in Mutators \ Cancellable :
    /\ m \in mem.edits => basis[m] = mem.gen
    /\ m \in disk.edits => basis[m] = disk.gen

\* An edit reported as saved is in the file, unless the whole configuration was
\* replaced after it.  Crashes do not undo it.
SavedEditsSurvive ==
  \A m \in Mutators :
    pc[m] = "done" => m \in disk.edits \/ disk.gen > basis[m]

\* When nothing runs and nothing is on its way, the front end shows the
\* configuration the store holds, in whatever order results and events came.
\* A REST handler that was dropped announces nothing, and a fresh start asked
\* for behind the gate while a migration is unanswered starts the revisions
\* over under a front end that may already show the migrated configuration.
Quiet ==
  /\ inbox = {}
  /\ \A p \in Procs : reply[p] = None /\ task[p] \notin Running
FrontEndConverges ==
  /\ Quiet /\ unlocked /\ key = "auto"
  /\ \A m \in Mutators : pc[m] # "cancelled"
  /\ \A r \in Replacers : asked[r] # "again"
  => ui # None /\ ui.data = mem

-----------------------------------------------------------------------------
(* Why EditsNeverStale holds: the parts of the inductive invariant.        *)

Exclusive == Mutators \ Cancellable

\* who holds the gate, and that the epoch is odd exactly while a replacement
\* has not dropped its guard
GateInv ==
  /\ \A p \in Procs : pc[p] \in {"locked", "reopened"} => gate = p
  /\ \A r \in Replacers : pc[r] = "locked" => ~Even(epoch)
  /\ (\A r \in Replacers : pc[r] # "locked") => Even(epoch)

\* a store operation runs inside the gate, unless its handler was dropped
TaskInv ==
  /\ \A p \in Exclusive \cup Replacers : task[p] \in Running => pc[p] = "locked"
  /\ \A m \in Mutators : pc[m] \in {"idle", "waiting"} => task[m] = "none"
  /\ \A p \in Procs : task[p] \in Running \ {"queued"} => vault = p

\* a ticket that is still the current, even epoch vouches for the generation
TicketInv ==
  /\ \A m \in Mutators : pc[m] \in {"waiting", "locked"} => ticket[m] <= epoch
  /\ \A m \in Mutators : pc[m] \in {"waiting", "locked"} /\ TicketValid(m)
                           => basis[m] = mem.gen
  /\ \A m \in Exclusive : pc[m] = "locked" => TicketValid(m)

\* an edit is published with the generation it was written for
WriteInv ==
  /\ \A m \in Mutators : task[m] = "written" => disk.gen = mem.gen
  /\ \A m \in Mutators : pc[m] \in {"idle", "waiting"}
                           => m \notin mem.edits /\ m \notin disk.edits

IInv == TypeOK /\ GateInv /\ TaskInv /\ TicketInv /\ WriteInv /\ EditsNeverStale
=============================================================================
