----------------------- MODULE ConfigMutation_proofs -----------------------
(***************************************************************************)
(* For any set of commands and replacements: types are kept, and no edit   *)
(* is ever applied to a configuration other than the one it was accepted   *)
(* against, provided its handler is not dropped half-way.                  *)
(***************************************************************************)
EXTENDS ConfigMutation, TLAPS

USE DEF Procs, Data, Snapshot, Final, Running, EmptyConfig

(* The epoch changes parity with every increment. *)
LEMMA Parity == \A n \in Nat : Even(n + 1) <=> ~Even(n)
BY DEF Even

(* Types: the coordinator's fields, the store's fields and the front end's *)
(* fields keep their types in every step.                                  *)
LEMMA TypeInit == Init => TypeOK
BY CommandsAssumption DEF Init, TypeOK

LEMMA TypeStep == TypeOK /\ [Next]_vars => TypeOK'
<1> SUFFICES ASSUME TypeOK, [Next]_vars PROVE TypeOK'
  OBVIOUS
<1> USE CommandsAssumption DEF TypeOK
<1>1. ASSUME NEW m \in Mutators, Accept(m) PROVE TypeOK'
  BY <1>1 DEF Accept, store, front
<1>2. ASSUME NEW m \in Mutators, Lock(m) PROVE TypeOK'
  BY <1>2 DEF Lock, store, front
<1>3. ASSUME NEW p \in Procs, Release(p) PROVE TypeOK'
  BY <1>3 DEF Release, store
<1>4. ASSUME NEW m \in Mutators, Cancel(m) PROVE TypeOK'
  BY <1>4 DEF Cancel, store
<1>5. ASSUME NEW m \in Mutators, MutateWrite(m) PROVE TypeOK'
  BY <1>5 DEF MutateWrite, coordinator, front
<1>6. ASSUME NEW r \in Replacers, Request(r) PROVE TypeOK'
  BY <1>6 DEF Request, coordinator, store, front
<1>7. ASSUME NEW r \in Replacers, BeginReplacement(r) PROVE TypeOK'
  BY <1>7 DEF BeginReplacement, store, front
<1>8. ASSUME NEW r \in Replacers, FinishEpoch(r) PROVE TypeOK'
  BY <1>8 DEF FinishEpoch, store, front
<1>9. ASSUME NEW r \in Replacers, ImportWrite(r) PROVE TypeOK'
  BY <1>9 DEF ImportWrite, coordinator, front
<1>10. ASSUME NEW r \in Replacers, MigrateUnlock(r) PROVE TypeOK'
  BY <1>10 DEF MigrateUnlock, coordinator, front
<1>11. ASSUME NEW r \in Replacers, MigrateRewrite(r) PROVE TypeOK'
  BY <1>11 DEF MigrateRewrite, coordinator, front
<1>12. ASSUME NEW r \in Replacers, MigrateCommit(r) PROVE TypeOK'
  BY <1>12 DEF MigrateCommit, Return, coordinator
<1>13. ASSUME NEW r \in Replacers, SkipRemove(r) PROVE TypeOK'
  <2>1. disk' \in Data
    BY <1>13 DEF SkipRemove
  <2> QED
    BY <1>13, <2>1 DEF SkipRemove, coordinator, front
<1>14. ASSUME NEW r \in Replacers, SkipCreate(r) PROVE TypeOK'
  BY <1>14 DEF SkipCreate, Return, coordinator
<1>15. ASSUME NEW p \in Procs, Enter(p) PROVE TypeOK'
  BY <1>15 DEF Enter, coordinator, store, front
<1>16. ASSUME NEW p \in Procs, Abort(p) PROVE TypeOK'
  BY <1>16 DEF Abort, coordinator, store, front
<1>17. ASSUME NEW p \in Procs, Commit(p) PROVE TypeOK'
  BY <1>17 DEF Commit, Return, coordinator
<1>18. ASSUME NEW snap \in inbox, Deliver(snap) PROVE TypeOK'
  BY <1>18 DEF Deliver, coordinator, store
<1>19. ASSUME Relaunch PROVE TypeOK'
  BY <1>19 DEF Relaunch
<1>20. ASSUME UNCHANGED vars PROVE TypeOK'
  BY <1>20 DEF vars, coordinator, store, front
<1> QED
  BY <1>1, <1>2, <1>3, <1>4, <1>5, <1>6, <1>7, <1>8, <1>9, <1>10, <1>11, <1>12,
     <1>13, <1>14, <1>15, <1>16, <1>17, <1>18, <1>19, <1>20
     DEF Next, MutatorStep, ReplacerStep, ReleaseMutation, ReleaseReplacement

(* Type correctness of the coordinator and the vault store. *)
THEOREM TypeCorrect == Spec => []TypeOK
<1>1. Init => TypeOK BY TypeInit
<1>2. TypeOK /\ [Next]_vars => TypeOK' BY TypeStep
<1> QED BY <1>1, <1>2, PTL DEF Spec
-----------------------------------------------------------------------------
LEMMA InvInit == Init => IInv
<1> SUFFICES ASSUME Init PROVE IInv
  OBVIOUS
<1>1. TypeOK
  BY TypeInit
<1>2. Even(0)
  BY DEF Even
<1> QED
  BY <1>1, <1>2, CommandsAssumption
     DEF Init, IInv, GateInv, TaskInv, TicketInv, WriteInv, EditsNeverStale, Exclusive, TicketValid

(* One step per action, and the conjuncts it can disturb below it. *)
LEMMA InvStep == IInv /\ [Next]_vars => IInv'
<1> SUFFICES ASSUME IInv, [Next]_vars PROVE IInv'
  OBVIOUS
<1>0. TypeOK /\ TypeOK'
  BY TypeStep DEF IInv
<1> USE <1>0, CommandsAssumption DEF TypeOK, IInv, Exclusive
<1>1. ASSUME NEW m \in Mutators, Accept(m) PROVE IInv'
  <2> USE <1>1 DEF Accept, store, front
  <2>1. GateInv' BY DEF GateInv
  <2>2. TaskInv' BY DEF TaskInv
  <2>3. TicketInv' BY DEF TicketInv, TicketValid
  <2>4. WriteInv' BY DEF WriteInv
  <2>5. EditsNeverStale' BY DEF EditsNeverStale, WriteInv
  <2> QED BY <2>1, <2>2, <2>3, <2>4, <2>5
<1>2. ASSUME NEW m \in Mutators, Lock(m) PROVE IInv'
  <2> USE <1>2 DEF Lock, store, front
  <2>1. GateInv' BY DEF GateInv
  <2>2. TaskInv' BY DEF TaskInv
  <2>3. TicketInv' BY DEF TicketInv, TicketValid
  <2>4. WriteInv' BY DEF WriteInv, TaskInv
  <2>5. EditsNeverStale' BY DEF EditsNeverStale
  <2> QED BY <2>1, <2>2, <2>3, <2>4, <2>5
<1>3. ASSUME NEW m \in Mutators, ReleaseMutation(m) PROVE IInv'
  <2> USE <1>3 DEF ReleaseMutation, Release, store
  <2>1. GateInv' BY DEF GateInv
  <2>2. TaskInv' BY DEF TaskInv
  <2>3. TicketInv' BY DEF TicketInv, TicketValid
  <2>4. WriteInv' BY DEF WriteInv
  <2>5. EditsNeverStale' BY DEF EditsNeverStale
  <2> QED BY <2>1, <2>2, <2>3, <2>4, <2>5
<1>4. ASSUME NEW m \in Mutators, Cancel(m) PROVE IInv'
  <2> USE <1>4 DEF Cancel, store
  <2>1. GateInv' BY DEF GateInv
  <2>2. TaskInv' BY DEF TaskInv
  <2>3. TicketInv' BY DEF TicketInv, TicketValid
  <2>4. WriteInv' BY DEF WriteInv
  <2>5. EditsNeverStale' BY DEF EditsNeverStale
  <2> QED BY <2>1, <2>2, <2>3, <2>4, <2>5
<1>5. ASSUME NEW m \in Mutators, MutateWrite(m) PROVE IInv'
  <2> USE <1>5 DEF MutateWrite, coordinator, front
  <2>1. GateInv' BY DEF GateInv
  <2>2. TaskInv' BY DEF TaskInv
  <2>3. TicketInv' BY DEF TicketInv, TicketValid
  <2>4. WriteInv' BY DEF WriteInv, TaskInv
  <2>5. m \in Exclusive => basis[m] = mem.gen BY DEF TaskInv, TicketInv
  <2>6. EditsNeverStale' BY <2>5 DEF EditsNeverStale
  <2> QED BY <2>1, <2>2, <2>3, <2>4, <2>6
<1>6. ASSUME NEW r \in Replacers, Request(r) PROVE IInv'
  <2> USE <1>6 DEF Request, coordinator, store, front
  <2>1. GateInv' BY DEF GateInv
  <2>2. TaskInv' BY DEF TaskInv
  <2>3. TicketInv' BY DEF TicketInv, TicketValid
  <2>4. WriteInv' BY DEF WriteInv
  <2>5. EditsNeverStale' BY DEF EditsNeverStale
  <2> QED BY <2>1, <2>2, <2>3, <2>4, <2>5
<1>7. ASSUME NEW r \in Replacers, BeginReplacement(r) PROVE IInv'
  <2> USE <1>7 DEF BeginReplacement, store, front
  <2>1. Even(epoch) BY DEF GateInv
  <2>2. ~Even(epoch') BY <2>1, Parity
  <2>3. GateInv' BY <2>2 DEF GateInv
  <2>4. TaskInv' BY DEF TaskInv
  <2>5. \A m \in Mutators : pc'[m] # "locked" BY DEF GateInv
  <2>6. TicketInv' BY <2>5 DEF TicketInv, TicketValid
  <2>7. WriteInv' BY DEF WriteInv
  <2>8. EditsNeverStale' BY DEF EditsNeverStale
  <2> QED BY <2>3, <2>4, <2>6, <2>7, <2>8
<1>8. ASSUME NEW r \in Replacers, FinishEpoch(r) PROVE IInv'
  <2> USE <1>8 DEF FinishEpoch, store, front
  <2>1. ~Even(epoch) BY DEF GateInv
  <2>2. Even(epoch') BY <2>1, Parity
  <2>3. GateInv' BY <2>2 DEF GateInv
  <2>4. TaskInv' BY DEF TaskInv
  <2>5. \A m \in Mutators : pc'[m] # "locked" BY DEF GateInv
  <2>6. TicketInv' BY <2>5 DEF TicketInv, TicketValid
  <2>7. WriteInv' BY DEF WriteInv
  <2>8. EditsNeverStale' BY DEF EditsNeverStale
  <2> QED BY <2>3, <2>4, <2>6, <2>7, <2>8
<1>9. ASSUME NEW r \in Replacers, ReleaseReplacement(r) PROVE IInv'
  <2> USE <1>9 DEF ReleaseReplacement, Release, store
  <2>1. GateInv' BY DEF GateInv
  <2>2. TaskInv' BY DEF TaskInv
  <2>3. TicketInv' BY DEF TicketInv, TicketValid
  <2>4. WriteInv' BY DEF WriteInv
  <2>5. EditsNeverStale' BY DEF EditsNeverStale
  <2> QED BY <2>1, <2>2, <2>3, <2>4, <2>5
<1>10. ASSUME NEW r \in Replacers, ImportWrite(r) PROVE IInv'
  <2> USE <1>10 DEF ImportWrite, coordinator, front
  <2>1. GateInv' BY DEF GateInv
  <2>2. TaskInv' BY DEF TaskInv
  <2>3. TicketInv' BY DEF TicketInv, TicketValid
  <2>4. WriteInv' BY DEF WriteInv, TaskInv
  <2>5. EditsNeverStale' BY DEF EditsNeverStale
  <2> QED BY <2>1, <2>2, <2>3, <2>4, <2>5
<1>11. ASSUME NEW r \in Replacers,
              MigrateUnlock(r) \/ MigrateRewrite(r) \/ MigrateCommit(r)
       PROVE IInv'
  <2> USE <1>11 DEF MigrateUnlock, MigrateRewrite, MigrateCommit, Return, coordinator, front
  <2>1. pc[r] = "locked" /\ vault = r BY DEF TaskInv
  <2>2. ~Even(epoch) BY <2>1 DEF GateInv
  <2>3. GateInv' BY DEF GateInv
  <2>4. TaskInv' BY DEF TaskInv
  <2>5. TicketInv' BY <2>2 DEF TicketInv, TicketValid
  <2>6. WriteInv' BY <2>1 DEF WriteInv, TaskInv
  <2>7. EditsNeverStale' BY DEF EditsNeverStale
  <2> QED BY <2>3, <2>4, <2>5, <2>6, <2>7
<1>12. ASSUME NEW r \in Replacers, SkipRemove(r) \/ SkipCreate(r) PROVE IInv'
  <2> USE <1>12 DEF SkipRemove, SkipCreate, Return, coordinator, front
  <2>1. pc[r] = "locked" /\ vault = r BY DEF TaskInv
  <2>2. ~Even(epoch) BY <2>1 DEF GateInv
  <2>3. GateInv' BY DEF GateInv
  <2>4. TaskInv' BY DEF TaskInv
  <2>5. TicketInv' BY <2>2 DEF TicketInv, TicketValid
  <2>6. WriteInv' BY <2>1 DEF WriteInv, TaskInv
  <2>7. EditsNeverStale' BY DEF EditsNeverStale
  <2> QED BY <2>3, <2>4, <2>5, <2>6, <2>7
<1>13. ASSUME NEW p \in Procs, Enter(p) \/ Abort(p) PROVE IInv'
  <2> USE <1>13 DEF Enter, Abort, coordinator, store, front
  <2>1. GateInv' BY DEF GateInv
  <2>2. TaskInv' BY DEF TaskInv
  <2>3. TicketInv' BY DEF TicketInv, TicketValid
  <2>4. WriteInv' BY DEF WriteInv
  <2>5. EditsNeverStale' BY DEF EditsNeverStale
  <2> QED BY <2>1, <2>2, <2>3, <2>4, <2>5
<1>14. ASSUME NEW p \in Procs, Commit(p) PROVE IInv'
  <2> USE <1>14 DEF Commit, Return, coordinator
  <2>1. vault = p BY DEF TaskInv
  <2>2. \A q \in Procs \ {p} : task'[q] # "written" BY <2>1 DEF TaskInv
  <2>3. GateInv' BY DEF GateInv
  <2>4. TaskInv' BY <2>1 DEF TaskInv
  <2>5. TicketInv'
    <3>1. CASE p \in Mutators
      <4>1. mem'.gen = mem.gen BY <3>1 DEF WriteInv
      <4> QED BY <4>1 DEF TicketInv, TicketValid
    <3>2. CASE p \in Replacers
      <4>1. ~Even(epoch) BY <3>2 DEF TaskInv, GateInv
      <4> QED BY <4>1 DEF TicketInv, TicketValid
    <3> QED BY <3>1, <3>2
  <2>6. WriteInv' BY <2>2 DEF WriteInv
  <2>7. EditsNeverStale' BY DEF EditsNeverStale
  <2> QED BY <2>3, <2>4, <2>5, <2>6, <2>7
<1>15. ASSUME NEW snap \in inbox, Deliver(snap) PROVE IInv'
  BY <1>15 DEF Deliver, coordinator, store, GateInv, TaskInv, TicketInv, TicketValid,
               WriteInv, EditsNeverStale
<1>16. ASSUME Relaunch PROVE IInv'
  <2> USE <1>16 DEF Relaunch
  <2>1. Even(epoch') BY DEF Even
  <2>2. \A p \in Procs : pc'[p] \notin {"waiting", "locked", "reopened"}
    OBVIOUS
  <2>3. \A p \in Procs : task'[p] \notin Running
    OBVIOUS
  <2>4. GateInv' BY <2>1, <2>2 DEF GateInv
  <2>5. TaskInv' BY <2>2, <2>3 DEF TaskInv
  <2>6. TicketInv' BY <2>2 DEF TicketInv
  <2>7. WriteInv' BY <2>2, <2>3 DEF WriteInv
  <2>8. EditsNeverStale' BY DEF EditsNeverStale
  <2> QED BY <2>4, <2>5, <2>6, <2>7, <2>8
<1>17. ASSUME UNCHANGED vars PROVE IInv'
  BY <1>17 DEF vars, coordinator, store, front, GateInv, TaskInv, TicketInv, TicketValid,
               WriteInv, EditsNeverStale
<1> QED
  BY <1>1, <1>2, <1>3, <1>4, <1>5, <1>6, <1>7, <1>8, <1>9, <1>10, <1>11, <1>12,
     <1>13, <1>14, <1>15, <1>16, <1>17
     DEF Next, MutatorStep, ReplacerStep

(* No command whose handler runs to its end is applied to a configuration  *)
(* that replaced the one it was accepted against: the guarantee of the     *)
(* tickets and odd epochs of ConfigMutationCoordinator.                    *)
THEOREM EditsNeverStaleTheorem == Spec => []EditsNeverStale
<1>1. Init => IInv BY InvInit
<1>2. IInv /\ [Next]_vars => IInv' BY InvStep
<1>3. IInv => EditsNeverStale BY DEF IInv
<1> QED BY <1>1, <1>2, <1>3, PTL DEF Spec
-----------------------------------------------------------------------------
(* Why SavedEditsSurvive holds.                                            *)

(* An edit is in the file, or a later generation is.                       *)
Kept(m) == m \in disk.edits \/ disk.gen > basis[m]

(* The file and the memory differ only between the write and its           *)
(* publication, or while a fresh start has left no file (the store is then *)
(* locked); a generation is never used twice, and what a store operation   *)
(* has written is kept.                                                    *)
SavedInv ==
  /\ (\A p \in Procs : task[p] # "written") /\ pass # "none" => mem = disk
  /\ unlocked => pass # "none"
  /\ \A r \in Replacers : task[r] \in {"opened", "rekeyed"} => unlocked
  /\ mem.gen <= gens /\ disk.gen <= gens /\ \A m \in Mutators : basis[m] <= gens
  /\ \A m \in Mutators : task[m] \in {"written", "ok"} => Kept(m)
  /\ \A m \in Mutators : pc[m] = "done" => task[m] = "ok"

LEMMA SavedInit == Init => SavedInv
BY CommandsAssumption DEF Init, SavedInv, Kept

LEMMA SavedStep == IInv /\ SavedInv /\ [Next]_vars => SavedInv'
<1> SUFFICES ASSUME IInv, SavedInv, [Next]_vars PROVE SavedInv'
  OBVIOUS
<1>0. TypeOK /\ TypeOK' /\ TaskInv
  BY TypeStep DEF IInv
<1> USE <1>0, CommandsAssumption DEF TypeOK, SavedInv, Kept
<1>1. ASSUME NEW m \in Mutators, Accept(m) PROVE SavedInv'
  BY <1>1 DEF Accept, store, front, TaskInv
<1>2. ASSUME NEW m \in Mutators, Lock(m) PROVE SavedInv'
  BY <1>2 DEF Lock, store, front, TaskInv
<1>3. ASSUME NEW p \in Procs, ReleaseMutation(p) \/ ReleaseReplacement(p) PROVE SavedInv'
  BY <1>3 DEF ReleaseMutation, ReleaseReplacement, Release, store
<1>4. ASSUME NEW m \in Mutators, Cancel(m) PROVE SavedInv'
  BY <1>4 DEF Cancel, store
<1>5. ASSUME NEW m \in Mutators, MutateWrite(m) PROVE SavedInv'
  <2>1. mem = disk
    BY <1>5 DEF MutateWrite, TaskInv
  <2> QED
    BY <1>5, <2>1 DEF MutateWrite, coordinator, front
<1>6. ASSUME NEW r \in Replacers, Request(r) \/ BeginReplacement(r) \/ FinishEpoch(r) PROVE SavedInv'
  BY <1>6 DEF Request, BeginReplacement, FinishEpoch, coordinator, store, front, TaskInv
<1>7. ASSUME NEW r \in Replacers, ImportWrite(r) PROVE SavedInv'
  BY <1>7 DEF ImportWrite, coordinator, front
<1>8. ASSUME NEW r \in Replacers, MigrateUnlock(r) \/ MigrateRewrite(r) \/ MigrateCommit(r)
      PROVE SavedInv'
  <2>1. mem = disk
    BY <1>8 DEF MigrateUnlock, MigrateRewrite, MigrateCommit, TaskInv
  <2> QED
    BY <1>8, <2>1 DEF MigrateUnlock, MigrateRewrite, MigrateCommit, Return, coordinator, front
<1>9. ASSUME NEW r \in Replacers, SkipRemove(r) \/ SkipCreate(r) PROVE SavedInv'
  <2>1. vault = r /\ \A p \in Procs \ {r} : task[p] \notin Running \ {"queued"}
    BY <1>9 DEF SkipRemove, SkipCreate, TaskInv
  <2>2. CASE SkipRemove(r)
    BY <2>1, <2>2 DEF SkipRemove, coordinator, front
  <2>3. CASE SkipCreate(r)
    BY <2>1, <2>3 DEF SkipCreate, Return, coordinator
  <2> QED
    BY <1>9, <2>2, <2>3
<1>10. ASSUME NEW p \in Procs, Enter(p) \/ Abort(p) PROVE SavedInv'
  BY <1>10 DEF Enter, Abort, coordinator, store, front
<1>11. ASSUME NEW p \in Procs, Commit(p) PROVE SavedInv'
  BY <1>11 DEF Commit, Return, coordinator
<1>12. ASSUME NEW snap \in inbox, Deliver(snap) PROVE SavedInv'
  BY <1>12 DEF Deliver, coordinator, store
<1>13. ASSUME Relaunch PROVE SavedInv'
  BY <1>13 DEF Relaunch
<1>14. ASSUME UNCHANGED vars PROVE SavedInv'
  BY <1>14 DEF vars, coordinator, store, front
<1> QED
  BY <1>1, <1>2, <1>3, <1>4, <1>5, <1>6, <1>7, <1>8, <1>9, <1>10, <1>11, <1>12, <1>13, <1>14
     DEF Next, MutatorStep, ReplacerStep

(* An edit whose command was told "saved" is in the file unless the whole  *)
(* configuration was replaced after it, however many commands, crashes and *)
(* failed writes there are (write_encrypted before the publication, both   *)
(* under the vault mutex).                                                 *)
THEOREM SavedEditsTheorem == Spec => []SavedEditsSurvive
<1>1. Init => IInv /\ SavedInv BY InvInit, SavedInit
<1>2. IInv /\ SavedInv /\ [Next]_vars => IInv' /\ SavedInv' BY InvStep, SavedStep
<1>3. SavedInv => SavedEditsSurvive BY DEF SavedInv, SavedEditsSurvive, Kept
<1> QED BY <1>1, <1>2, <1>3, PTL DEF Spec
-----------------------------------------------------------------------------
(* Why FrontEndConverges holds.                                            *)

Newest == [rev |-> revision, data |-> mem]
Known == ({ui} \cup inbox \cup {reply[p] : p \in Procs}) \ {None}

(* Behind the migration gate nothing is on its way to the front end, and   *)
(* no edit is under way.                                                   *)
GateShown ==
  key = "user" =>
    /\ Known = {} /\ revision = 0
    /\ \A m \in Mutators : pc[m] \notin {"waiting", "locked"} /\ task[m] \notin Running

(* Of the snapshots the front end has or can still get none is newer than  *)
(* the store, those of the current revision show the current data, and     *)
(* one of them is of the current revision.                                 *)
SnapshotInv ==
  /\ \A s \in Known : s.rev <= revision /\ (s.rev = revision => s.data = mem)
  /\ key = "auto" /\ (\A m \in Mutators : pc[m] # "cancelled") => Newest \in Known

(* A request made behind the gate is the only one under way; the file      *)
(* carries the user's password until it has been answered.                 *)
GateAlone ==
  \A r \in Replacers : asked[r] = "gate" /\ UnderWay(r) =>
    /\ \A q \in Replacers : UnderWay(q) => q = r
    /\ ui = None /\ inbox = {}
    /\ task[r] \notin {"ok", "err"} => key = "user"

(* What was asked for is what is done, and an answer that opens the gate   *)
(* is on its way until it has arrived.                                     *)
AskedInv ==
  /\ \A r \in Replacers :
       /\ UnderWay(r) => asked[r] # "none"
       /\ pc[r] = "waiting" => task[r] = "none"
       /\ task[r] = "written" => asked[r] = "workspace"
       /\ task[r] \in {"opened", "rekeyed", "removed"} => asked[r] # "workspace"
       /\ asked[r] = "workspace" => ui # None
  /\ key = "auto" /\ ui = None =>
       inbox # {} \/ \E r \in Replacers : UnderWay(r) /\ reply[r] # None

(* As long as no one asked twice before the answer came.                   *)
Once == \A r \in Replacers : asked[r] # "again"
FrontOnce == GateShown /\ SnapshotInv /\ GateAlone /\ AskedInv
FrontInv ==
  /\ \A r \in Replacers : pc[r] = "idle" => asked[r] = "none" /\ task[r] = "none"
  /\ Once => FrontOnce

LEMMA FrontInit == Init => FrontInv
<1> SUFFICES ASSUME Init PROVE FrontInv
  OBVIOUS
<1>1. Newest \in Snapshot
  BY DEF Init, Newest
<1>2. inbox = {} /\ \A p \in Procs : reply[p] = None
  BY DEF Init
<1>3. /\ key \in {"auto", "user"}
      /\ key = "user" => ui = None
      /\ key = "auto" => ui = Newest
  BY DEF Init, Newest
<1>4. /\ key = "user" => Known = {}
      /\ key = "auto" => Known = {Newest}
  BY <1>1, <1>2, <1>3, NoneAssumption DEF Known
<1>5. \A p \in Procs : pc[p] = "idle" /\ task[p] = "none"
  BY DEF Init
<1>6. revision = 0 /\ \A r \in Replacers : asked[r] = "none"
  BY DEF Init
<1>7. GateShown /\ SnapshotInv
  BY <1>3, <1>4, <1>5, <1>6, CommandsAssumption DEF GateShown, SnapshotInv, Newest
<1>8. GateAlone /\ AskedInv
  BY <1>1, <1>3, <1>5, <1>6, NoneAssumption, CommandsAssumption DEF GateAlone, AskedInv, UnderWay
<1> QED
  BY <1>5, <1>6, <1>7, <1>8, CommandsAssumption DEF FrontInv, FrontOnce

(* A step that adds no snapshot, changes neither the store nor the store   *)
(* operations, and does not wake an edit behind the gate.                  *)
LEMMA FrontSame ==
  ASSUME GateShown, SnapshotInv, Known' = Known, key' = key, revision' = revision, mem' = mem,
         \A m \in Mutators : pc'[m] \in {"waiting", "locked"} => pc[m] \in {"waiting", "locked"} \/ key # "user",
         \A m \in Mutators : task'[m] \in Running => task[m] \in Running \/ key # "user",
         \A m \in Mutators : pc[m] = "cancelled" => pc'[m] = "cancelled"
  PROVE GateShown' /\ SnapshotInv'
BY DEF GateShown, SnapshotInv, Newest

(* A store operation that answers a request made behind the gate runs      *)
(* while the file still carries the user's password.                       *)
LEMMA BehindGate ==
  ASSUME TypeOK, TaskInv, Once, GateAlone, AskedInv,
         NEW r \in Replacers, task[r] \in Running, asked[r] # "workspace"
  PROVE asked[r] = "gate" /\ UnderWay(r) /\ key = "user"
<1>1. pc[r] = "locked"
  BY DEF TaskInv
<1>2. asked[r] = "gate"
  BY <1>1 DEF AskedInv, UnderWay, Once, TypeOK
<1> QED
  BY <1>1, <1>2 DEF GateAlone, UnderWay

(* What the front end can still get keeps up with the store.               *)
LEMMA SnapshotStep ==
  ASSUME IInv, SavedInv, FrontOnce, Once, Next, ~Relaunch
  PROVE (GateShown /\ SnapshotInv)'
<1> DEFINE Front == GateShown /\ SnapshotInv
<1>0. TypeOK /\ TypeOK' /\ TaskInv
  BY TypeStep DEF IInv
<1>a. GateShown /\ SnapshotInv /\ GateAlone /\ AskedInv
  BY DEF FrontOnce
<1> USE <1>0, <1>a, CommandsAssumption, NoneAssumption DEF TypeOK
<1>1. ASSUME NEW m \in Mutators, Accept(m) PROVE Front'
  <2>1. key # "user"
    BY <1>1 DEF Accept, GateShown, Known
  <2>2. Known' = Known
    BY <1>1 DEF Accept, front, Known
  <2> QED
    BY <1>1, <2>1, <2>2, FrontSame DEF Accept, store
<1>2. ASSUME NEW m \in Mutators, Lock(m) PROVE Front'
  <2>1. key # "user"
    BY <1>2 DEF Lock, GateShown
  <2>2. Known' = Known
    BY <1>2 DEF Lock, front, Known
  <2> QED
    BY <1>2, <2>1, <2>2, FrontSame DEF Lock, store
<1>3. ASSUME NEW p \in Procs, ReleaseMutation(p) \/ ReleaseReplacement(p) PROVE Front'
  <2>1. Known' = Known
    BY <1>3 DEF ReleaseMutation, ReleaseReplacement, Release, Known
  <2> QED
    BY <1>3, <2>1, FrontSame DEF ReleaseMutation, ReleaseReplacement, Release, store
<1>4. ASSUME NEW m \in Mutators, Cancel(m) PROVE Front'
  <2>1. Known' \subseteq Known
    BY <1>4 DEF Cancel, Known
  <2>2. pc'[m] = "cancelled"
    BY <1>4 DEF Cancel
  <2> QED
    BY <1>4, <2>1, <2>2 DEF Cancel, store, GateShown, SnapshotInv
<1>5. ASSUME NEW m \in Mutators, MutateWrite(m) PROVE Front'
  <2>1. Known' = Known
    BY <1>5 DEF MutateWrite, front, Known
  <2> QED
    BY <1>5, <2>1, FrontSame DEF MutateWrite
<1>6. ASSUME NEW r \in Replacers, Request(r) \/ BeginReplacement(r) \/ FinishEpoch(r) PROVE Front'
  <2>1. Known' = Known
    BY <1>6 DEF Request, BeginReplacement, FinishEpoch, front, Known
  <2> QED
    BY <1>6, <2>1, FrontSame DEF Request, BeginReplacement, FinishEpoch, store
<1>7. ASSUME NEW r \in Replacers, ImportWrite(r) PROVE Front'
  <2>1. Known' = Known
    BY <1>7 DEF ImportWrite, front, Known
  <2>2. key # "user"
    BY <1>7 DEF ImportWrite, GateShown, AskedInv, Known
  <2> QED
    BY <1>7, <2>1, <2>2, FrontSame DEF ImportWrite
<1>8. ASSUME NEW r \in Replacers, MigrateUnlock(r) \/ MigrateRewrite(r) PROVE Front'
  <2>1. Known' = Known
    BY <1>8 DEF MigrateUnlock, MigrateRewrite, front, Known
  <2>2. mem' = mem
    BY <1>8 DEF MigrateUnlock, MigrateRewrite, SavedInv, TaskInv
  <2> QED
    BY <1>8, <2>1, <2>2, FrontSame DEF MigrateUnlock, MigrateRewrite
<1>9. ASSUME NEW r \in Replacers, SkipRemove(r) PROVE Front'
  <2>1. Known' = Known
    BY <1>9 DEF SkipRemove, front, Known
  <2>2. key = "user"
    BY <1>9, BehindGate DEF SkipRemove
  <2>3. revision' = revision
    BY <1>9, <2>2 DEF SkipRemove, GateShown
  <2> QED
    BY <1>9, <2>1, <2>3, FrontSame DEF SkipRemove
<1>10. ASSUME NEW r \in Replacers, MigrateCommit(r) \/ SkipCreate(r) PROVE Front'
  <2>0. key = "user"
    <3>1. task[r] \in Running /\ asked[r] # "workspace"
      BY <1>10 DEF MigrateCommit, SkipCreate, AskedInv
    <3> QED
      BY <3>1, BehindGate
  <2>1. key = "user" /\ key' = "auto" /\ Known = {}
    BY <1>10, <2>0 DEF MigrateCommit, SkipCreate, GateShown
  <2>2. Known' = {Newest'}
    <3>1. Newest' \in Snapshot
      BY DEF Newest
    <3>2. ui = None /\ inbox \subseteq {None} /\ \A p \in Procs : reply[p] = None
      <4>1. \A s : s \in {ui} \cup inbox \cup {reply[p] : p \in Procs} => s = None
        BY <2>1 DEF Known
      <4>2. ui = None /\ inbox \subseteq {None}
        BY <4>1
      <4>3. \A p \in Procs : reply[p] \in {reply[q] : q \in Procs}
        OBVIOUS
      <4>4. \A p \in Procs : reply[p] = None
        BY <4>1, <4>3
      <4> QED
        BY <4>2, <4>4
    <3>3. /\ ui' = ui /\ inbox' = inbox
          /\ reply' = [reply EXCEPT ![r] = Newest']
      BY <1>10 DEF MigrateCommit, SkipCreate, Return, Newest
    <3>4. \A p \in Procs : reply'[p] = IF p = r THEN Newest' ELSE None
      BY <3>2, <3>3
    <3> QED
      BY <3>1, <3>2, <3>3, <3>4 DEF Known
  <2> QED
    BY <2>1, <2>2 DEF GateShown, SnapshotInv, Newest
<1>11. ASSUME NEW p \in Procs, Enter(p) \/ Abort(p) PROVE Front'
  <2>1. Known' = Known
    BY <1>11 DEF Enter, Abort, front, Known
  <2> QED
    BY <1>11, <2>1, FrontSame DEF Enter, Abort, store
<1>12. ASSUME NEW p \in Procs, Commit(p) PROVE Front'
  <2>1. key = "auto" /\ key' = "auto"
    <3>1. key # "user"
      BY <1>12 DEF Commit, GateShown, AskedInv, Known
    <3> QED
      BY <1>12, <3>1 DEF Commit
  <2>2. Known' \subseteq Known \cup {Newest'} /\ Newest' \in Known'
    BY <1>12 DEF Commit, Return, Known, Newest
  <2>3. revision \in Nat /\ revision' = revision + 1 /\ \A s \in Known : s.rev <= revision /\ s.rev \in Nat
    BY <1>12 DEF Commit, SnapshotInv, Known
  <2> QED
    BY <2>1, <2>2, <2>3 DEF GateShown, SnapshotInv, Newest
<1>13. ASSUME NEW snap \in inbox, Deliver(snap) PROVE Front'
  <2>1. Known' \subseteq Known
    BY <1>13 DEF Deliver, Known
  <2>2. Newest \in Known => Newest \in Known'
    <3>1. ASSUME Newest = ui PROVE ui' = ui
      <4>1. snap \in Known /\ snap \in Snapshot
        BY <1>13 DEF Known
      <4>2. snap.rev >= ui.rev => snap.rev = revision /\ snap.data = mem
        <5>1. ui.rev = revision
          BY <3>1 DEF Newest
        <5>2. snap.rev <= revision /\ (snap.rev = revision => snap.data = mem)
          BY <4>1 DEF SnapshotInv
        <5>3. snap.rev \in Nat /\ revision \in Nat
          BY <4>1
        <5> HIDE <1>0 DEF TypeOK
        <5> QED
          BY <5>1, <5>2, <5>3
      <4>3. snap = [rev |-> snap.rev, data |-> snap.data]
        BY <4>1
      <4> QED
        BY <1>13, <3>1, <4>2, <4>3 DEF Deliver, Current, Newest
    <3>2. ASSUME Newest = snap PROVE ui' = Newest
      <4>1. ui # None => ui.rev <= revision /\ ui.rev \in Nat
        BY DEF SnapshotInv, Known
      <4> QED
        BY <1>13, <3>2, <4>1 DEF Deliver, Current, Newest
    <3> QED
      BY <1>13, <3>1, <3>2 DEF Deliver, Known
  <2> QED
    BY <1>13, <2>1, <2>2 DEF Deliver, coordinator, store, GateShown, SnapshotInv, Newest
<1> QED
  BY <1>1, <1>2, <1>3, <1>4, <1>5, <1>6, <1>7, <1>8, <1>9, <1>10, <1>11, <1>12, <1>13
     DEF Next, MutatorStep, ReplacerStep

(* Requests at the gate stay alone, and every answer is still to come.     *)
LEMMA GateStep ==
  ASSUME IInv, FrontOnce, Once, Once', Next, ~Relaunch,
         \A r \in Replacers : pc[r] = "idle" => task[r] = "none"
  PROVE (GateAlone /\ AskedInv)'
<1> DEFINE Gate == GateAlone /\ AskedInv
<1>0. TypeOK /\ TypeOK' /\ TaskInv /\ GateInv
  BY TypeStep DEF IInv
<1>a. GateShown /\ GateAlone /\ AskedInv
  BY DEF FrontOnce
<1> USE <1>0, <1>a, CommandsAssumption, NoneAssumption DEF TypeOK, UnderWay
<1>1. ASSUME NEW m \in Mutators, Accept(m) \/ Lock(m) PROVE Gate'
  BY <1>1 DEF Accept, Lock, store, front, GateAlone, AskedInv
<1>2. ASSUME NEW p \in Procs,
             (p \in Mutators /\ ReleaseMutation(p)) \/ (p \in Replacers /\ ReleaseReplacement(p))
      PROVE Gate'
  <2>1. gate = p
    BY <1>2 DEF ReleaseMutation, ReleaseReplacement, GateInv
  <2>2. \A r \in Replacers : asked[r] = "gate" /\ UnderWay(r) => r = p
    <3> SUFFICES ASSUME NEW r \in Replacers, asked[r] = "gate", UnderWay(r), r # p PROVE FALSE
      OBVIOUS
    <3>1. p \notin Replacers
      BY <1>2 DEF ReleaseMutation, ReleaseReplacement, GateAlone
    <3>2. pc[r] \notin {"locked", "reopened"}
      BY <2>1 DEF GateInv
    <3>3. key = "user"
      BY <3>2 DEF GateAlone, AskedInv
    <3> QED
      BY <1>2, <3>1, <3>3 DEF ReleaseMutation, ReleaseReplacement, GateShown
  <2>3. GateAlone'
    BY <1>2, <2>2 DEF ReleaseMutation, ReleaseReplacement, Release, store, GateAlone
  <2>4. AskedInv'
    BY <1>2 DEF ReleaseMutation, ReleaseReplacement, Release, store, AskedInv
  <2> QED
    BY <2>3, <2>4
<1>4. ASSUME NEW m \in Mutators, Cancel(m) \/ MutateWrite(m) PROVE Gate'
  BY <1>4 DEF Cancel, MutateWrite, coordinator, store, front, GateAlone, AskedInv
<1>6. ASSUME NEW r \in Replacers, Request(r) PROVE Gate'
  <2>1. asked'[r] = "gate" => ~Unanswered /\ ui = None /\ key = "user"
    BY <1>6 DEF Request, Unanswered, AskedInv
  <2>2. asked'[r] # "gate" => ui # None
    BY <1>6 DEF Request, Once
  <2>3. GateAlone'
    BY <1>6, <2>1, <2>2 DEF Request, coordinator, store, front, Unanswered, GateAlone
  <2>4. AskedInv'
    BY <1>6 DEF Request, coordinator, store, front, AskedInv
  <2> QED
    BY <2>3, <2>4
<1>7. ASSUME NEW r \in Replacers, BeginReplacement(r) PROVE Gate'
  BY <1>7 DEF BeginReplacement, store, front, GateAlone, AskedInv, TaskInv
<1>8. ASSUME NEW r \in Replacers, FinishEpoch(r) PROVE Gate'
  BY <1>8 DEF FinishEpoch, store, front, GateAlone, AskedInv
<1>9. ASSUME NEW r \in Replacers, ImportWrite(r) PROVE Gate'
  BY <1>9 DEF ImportWrite, coordinator, front, GateAlone, AskedInv
<1>10. ASSUME NEW r \in Replacers, MigrateUnlock(r) \/ MigrateRewrite(r) \/ SkipRemove(r) PROVE Gate'
  BY <1>10 DEF MigrateUnlock, MigrateRewrite, SkipRemove, coordinator, front, GateAlone, AskedInv
<1>11. ASSUME NEW r \in Replacers, MigrateCommit(r) \/ SkipCreate(r) PROVE Gate'
  <2>1. task[r] \in Running /\ asked[r] # "workspace"
    BY <1>11 DEF MigrateCommit, SkipCreate, AskedInv
  <2>2. asked[r] = "gate" /\ UnderWay(r)
    BY <2>1, BehindGate
  <2>3. GateAlone'
    BY <1>11, <2>2 DEF MigrateCommit, SkipCreate, Return, coordinator, GateAlone
  <2>4. AskedInv'
    BY <1>11, <2>2 DEF MigrateCommit, SkipCreate, Return, coordinator, AskedInv
  <2> QED
    BY <2>3, <2>4
<1>12. ASSUME NEW p \in Procs, Enter(p) \/ Abort(p) PROVE Gate'
  BY <1>12 DEF Enter, Abort, coordinator, store, front, GateAlone, AskedInv
<1>13. ASSUME NEW p \in Procs, Commit(p) PROVE Gate'
  BY <1>13 DEF Commit, Return, coordinator, GateAlone, AskedInv
<1>14. ASSUME NEW snap \in inbox, Deliver(snap) PROVE Gate'
  BY <1>14 DEF Deliver, Current, coordinator, store, GateAlone, AskedInv
<1>15. ASSUME NEW m \in Mutators, MutatorStep(m) PROVE Gate'
  BY <1>15, <1>1, <1>2, <1>4 DEF MutatorStep
<1>16. ASSUME NEW r \in Replacers, ReplacerStep(r) PROVE Gate'
  BY <1>16, <1>2, <1>6, <1>7, <1>8, <1>9, <1>10, <1>11 DEF ReplacerStep
<1> HIDE DEF Gate, TypeOK, UnderWay
<1>17. Gate'
  BY <1>12, <1>13, <1>14, <1>15, <1>16 DEF Next
<1> QED
  BY <1>17 DEF Gate

LEMMA FrontStep == IInv /\ SavedInv /\ FrontInv /\ [Next]_vars => FrontInv'
<1> SUFFICES ASSUME IInv, SavedInv, FrontInv, [Next]_vars PROVE FrontInv'
  OBVIOUS
<1>0. TypeOK
  BY DEF IInv
<1>a. ASSUME NEW r \in Replacers
      PROVE /\ pc'[r] = "idle" => asked'[r] = "none" /\ task'[r] = "none"
            /\ Relaunch \/ asked'[r] = asked[r] \/ pc[r] = "idle"
  <2> USE <1>0, CommandsAssumption DEF TypeOK, FrontInv
  <2>1. ASSUME NEW q \in Replacers, Request(q) PROVE <1>a!2
    BY <2>1 DEF Request
  <2>2. CASE Relaunch
    BY <2>2 DEF Relaunch
  <2>3. ASSUME asked' = asked, pc'[r] = "idle" => pc[r] = "idle" /\ task'[r] = task[r]
        PROVE <1>a!2
    BY <2>3
  <2>4. TaskInv
    BY DEF IInv
  <2>5. CASE UNCHANGED vars
    BY <2>3, <2>5 DEF vars
  <2>6. ASSUME NEW m \in Mutators, MutatorStep(m) PROVE <1>a!2
    BY <2>3, <2>6 DEF MutatorStep, Accept, Lock, ReleaseMutation, Release, Cancel, MutateWrite
  <2>7. ASSUME NEW q \in Replacers, ReplacerStep(q), ~Request(q) PROVE <1>a!2
    BY <2>3, <2>4, <2>7 DEF ReplacerStep, BeginReplacement, FinishEpoch, ReleaseReplacement, Release,
       ImportWrite, MigrateUnlock, MigrateRewrite, MigrateCommit, SkipRemove, SkipCreate, Return,
       coordinator, TaskInv
  <2>8. ASSUME NEW p \in Procs, Enter(p) \/ Abort(p) \/ Commit(p) PROVE <1>a!2
    BY <2>3, <2>4, <2>8 DEF Enter, Abort, Commit, Return, coordinator, TaskInv
  <2>9. ASSUME NEW snap \in inbox, Deliver(snap) PROVE <1>a!2
    BY <2>3, <2>9 DEF Deliver, coordinator
  <2> QED
    BY <2>1, <2>2, <2>5, <2>6, <2>7, <2>8, <2>9 DEF Next
<1>b. (Once' => FrontOnce') => FrontInv'
  BY <1>a DEF FrontInv
<1> SUFFICES ASSUME Once' PROVE FrontOnce'
  BY <1>b
<1>1. CASE Relaunch
  <2> USE <1>0, <1>1, NoneAssumption, CommandsAssumption DEF TypeOK
  <2>1. /\ key' = "user" => Known' = {}
        /\ key' = "auto" => Known' = {Newest'} /\ ui' # None
    BY DEF Relaunch, Known, Newest
  <2>2. \A p \in Procs : pc'[p] \notin {"waiting", "locked", "reopened"} /\ task'[p] \notin Running
    BY DEF Relaunch
  <2>3. revision' = 0 /\ key' \in {"auto", "user"} /\ \A r \in Replacers : asked'[r] = "none"
    BY DEF Relaunch
  <2>4. GateShown' /\ SnapshotInv'
    BY <2>1, <2>2, <2>3 DEF GateShown, SnapshotInv, Newest
  <2>5. GateAlone' /\ AskedInv'
    BY <2>1, <2>2, <2>3 DEF GateAlone, AskedInv, UnderWay
  <2> QED
    BY <2>4, <2>5 DEF FrontOnce
<1>2. CASE Next /\ ~Relaunch
  <2>1. Once
    BY <1>a, <1>2 DEF Once, FrontInv
  <2> QED
    BY <1>2, <2>1, SnapshotStep, GateStep DEF FrontInv, FrontOnce
<1>3. CASE UNCHANGED vars
  BY <1>3 DEF vars, coordinator, store, front, Once, FrontInv, FrontOnce, GateShown, SnapshotInv,
     Known, Newest, GateAlone, AskedInv, UnderWay
<1> QED
  BY <1>1, <1>2, <1>3

(* Whatever the order in which command results and CONFIG_CHANGED events   *)
(* reach it, the front end ends up with the configuration of the store     *)
(* (isConfigSnapshotCurrent), for any number of commands and replacements. *)
THEOREM FrontEndTheorem == Spec => []FrontEndConverges
<1>1. Init => IInv /\ SavedInv /\ FrontInv BY InvInit, SavedInit, FrontInit
<1>2. IInv /\ SavedInv /\ FrontInv /\ [Next]_vars => IInv' /\ SavedInv' /\ FrontInv'
  BY InvStep, SavedStep, FrontStep
<1>3. FrontInv => FrontEndConverges
  BY CommandsAssumption DEF FrontInv, FrontOnce, Once, SnapshotInv, FrontEndConverges, Quiet, Known, Newest
<1> QED BY <1>1, <1>2, <1>3, PTL DEF Spec
=============================================================================
