---------------------------- MODULE TransferQueue ----------------------------
(***************************************************************************)
(* The life of SFTP transfers in RemoteRuntime: the records that start,    *)
(* pause, resume, cancel, retry, remove and clear work on                  *)
(* (runtime_transfer.rs), the task of each transfer and its way through    *)
(* the slots of its SFTP session (acquire_transfer_capacity), the close of *)
(* the session (close_sftp, cancel_transfers_for_sftp_ids) and the history *)
(* on disk (transfer_history.rs).                                          *)
(*                                                                         *)
(* A command or a task is an actor; it gives up the lock of the records    *)
(* between its steps.  Bytes and staging files are TransferFile's: here    *)
(* cleanup_transfer_staging changes nothing.  A record that is not in the  *)
(* map has status "none"; every id is started once.                        *)
(***************************************************************************)
EXTENDS Naturals, Sequences, FiniteSets, SequencesExt

CONSTANTS
  Ids,          \* transfer ids
  Cmds,         \* commands the front end may have under way at once
  Width,        \* the worker parts of each transfer that does not resume
  Slots,        \* MAX_SFTP_TRANSFER_CONCURRENCY
  MaxPending,   \* MAX_PENDING_TRANSFERS_PER_SFTP
  Scenarios,    \* what may happen, see Scenario
  NoId          \* no transfer

AllUses == {"pause", "cancel", "remove", "retry", "close", "error", "progress"}

(* The staging path of each transfer and MAX_TRANSFER_HISTORY; and, as     *)
(* bounds: what happens at all, how many SFTP sessions are opened one      *)
(* after the other, how often the process dies.                            *)
Scenario(s) ==
  /\ DOMAIN s.path = Ids /\ s.history \in Nat /\ s.uses \subseteq AllUses
  /\ s.sessions \in Nat \ {0} /\ s.crashes \in Nat

ASSUME QueueAssumption ==
  /\ Slots \in Nat \ {0} /\ Width \in [Ids -> 1..Slots] /\ NoId \notin Ids
  /\ MaxPending \in Nat /\ \A s \in Scenarios : Scenario(s)

VARIABLES
  scenario, \* which scenario this is
  rec,      \* TransferInfo.status of every record
  recent,   \* the ids of the records by updated_at, oldest first
  sess,     \* the SFTP session of every transfer
  paused, cancel, started,  \* the flags of a record its task shares
  notified, \* the permit of control_notify
  retryOf,  \* the record a start replaces (transfer_retry)
  pc,       \* where every actor stands
  target,   \* the transfer a command, or the close, waits for
  held,     \* permits a task has
  queue,    \* waiters of transfer_slots
  session,  \* number of the latest SFTP session
  live,     \* it is in sftp_sessions
  todo,     \* transfers the close has still to cancel
  writer,   \* holder of transfer_history_write_lock
  view,     \* the snapshot it writes
  file,     \* the history file
  fileOk,   \* the last write of it succeeded
  loaded,   \* transfer_history_loaded
  crashes

records == <<rec, recent, started>>
flags == <<paused, cancel, notified>>
slots == <<held, queue>>
sftp == <<session, live, todo>>
disk == <<writer, view, file, fileOk>>
life == <<loaded, crashes, scenario>>
vars == <<records, flags, slots, sftp, disk, sess, retryOf, pc, target, life>>

MaxHistory == scenario.history
Uses == scenario.uses

Active == {"queued", "running", "paused"}
Finished == {"completed", "failed", "canceled"}

Task(i) == <<"task", i>>
Start(i) == <<"start", i>>
Cmd(c) == <<"cmd", c>>
Close == <<"close", NoId>>
Actors == {Task(i) : i \in Ids} \cup {Start(i) : i \in Ids}
          \cup {Cmd(c) : c \in Cmds} \cup {Close}

ASSUME ActorAssumption == NoId \notin Actors

Init ==
  /\ scenario \in Scenarios
  /\ rec = [i \in Ids |-> "none"] /\ recent = <<>>
  /\ sess = [i \in Ids |-> 0] /\ retryOf = [i \in Ids |-> NoId]
  /\ paused = [i \in Ids |-> FALSE] /\ cancel = [i \in Ids |-> FALSE]
  /\ started = [i \in Ids |-> FALSE] /\ notified = [i \in Ids |-> FALSE]
  /\ pc = [a \in Actors |-> "idle"] /\ target = [a \in Actors |-> NoId]
  /\ held = [i \in Ids |-> 0] /\ queue = <<>>
  /\ session = 0 /\ live = FALSE /\ todo = {}
  /\ writer = NoId /\ view = {} /\ file = {} /\ fileOk = TRUE
  /\ loaded = FALSE /\ crashes = 0

-----------------------------------------------------------------------------
(* Helpers.                                                                *)

Goto(a, where) == pc' = [pc EXCEPT ![a] = where]

(* The elements of s that are not in ids, in their order.                  *)
Without(s, ids) ==
  LET kept[n \in 0..Len(s)] ==
        IF n = 0 THEN <<>>
        ELSE IF s[n] \in ids THEN kept[n - 1] ELSE Append(kept[n - 1], s[n])
  IN kept[Len(s)]

Touched(i) == Append(Without(recent, {i}), i)

(* updated_at moves with every change of a record.                         *)
SetStatus(i, s) ==
  /\ rec' = [rec EXCEPT ![i] = s] /\ recent' = Touched(i)

RemoveAll(ids) ==
  /\ rec' = [i \in Ids |-> IF i \in ids THEN "none" ELSE rec[i]]
  /\ recent' = Without(recent, ids)
  /\ UNCHANGED started

SessionLive(i) == live /\ sess[i] = session

(* worker_parts: a retry resumes, and a resumed copy has one part.         *)
WorkerParts(i) == IF retryOf[i] # NoId THEN 1 ELSE Width[i]

SumHeld(S) == FoldFunctionOnSet(LAMBDA m, n : m + n, 0, held, S)
Free(n) == Slots - SumHeld({i \in Ids : sess[i] = n})

(* The task future is dropped: its permits and its place in the queue are  *)
(* given back, and the history lock if it has it.                          *)
Dropped(i) ==
  /\ held' = [held EXCEPT ![i] = 0] /\ queue' = Without(queue, {i})

-----------------------------------------------------------------------------
(* The history file.  Pruning removes the oldest finished records, the     *)
(* view keeps the newest records of any status.                            *)

FinishedOldestFirst == SelectSeq(recent, LAMBDA i : rec[i] \in Finished)

PruneTransferHistory(a) ==
  LET f == FinishedOldestFirst
      excess == IF Len(f) <= MaxHistory THEN 0 ELSE Len(f) - MaxHistory
  IN /\ pc[a] = "prune"
     /\ RemoveAll(Range(SubSeq(f, 1, excess)))
     /\ Goto(a, "save")
     /\ UNCHANGED <<flags, slots, sftp, disk, sess, retryOf, target, life>>

TransferHistoryView ==
  LET skip == IF Len(recent) <= MaxHistory THEN 0 ELSE Len(recent) - MaxHistory
  IN {<<i, rec[i]>> : i \in Range(SubSeq(recent, skip + 1, Len(recent)))}

(* persist_transfer_history, up to the write.                              *)
PersistSnapshot(a) ==
  /\ pc[a] \in {"save", "saveStart"} /\ writer = NoId
  /\ writer' = a /\ view' = TransferHistoryView
  /\ Goto(a, IF pc[a] = "save" THEN "write" ELSE "writeStart")
  /\ UNCHANGED <<records, flags, slots, sftp, file, fileOk, sess, retryOf, target, life>>

(* write_atomic_async, which may fail; then the actor goes on.  A task     *)
(* that completed keeps its permit until here.                             *)
PersistWrite(a) ==
  /\ pc[a] \in {"write", "writeStart"} /\ writer = a
  /\ \/ file' = view /\ fileOk' = TRUE
     \/ "error" \in Uses /\ fileOk' = FALSE /\ UNCHANGED file
  /\ writer' = NoId /\ view' = {}
  /\ pc' = [pc EXCEPT ![a] = CASE pc[a] = "writeStart" -> "send"
                               [] a[1] \in {"task", "start"} -> "done"
                               [] OTHER -> "idle"]
  /\ target' = [target EXCEPT ![a] = NoId]
  /\ IF a[1] = "task" THEN Dropped(a[2]) ELSE UNCHANGED slots
  /\ UNCHANGED <<records, flags, sftp, sess, retryOf, life>>

\* seeded fault: an unfinished record is restored as it was
NormalizedNot(s) == s

Normalized(s) == IF s \in Active THEN "canceled" ELSE s

(* ensure_transfer_history_loaded, spawned by setup.  It ends before the   *)
(* first command, as those need a connection, hence an unlocked vault and  *)
(* a network round trip; no lock makes them wait.                          *)
LoadHistory ==
  /\ ~loaded /\ loaded' = TRUE
  /\ rec' = [i \in Ids |-> IF \E s \in Active \cup Finished : <<i, s>> \in file
                           THEN Normalized(CHOOSE s \in Active \cup Finished : <<i, s>> \in file)
                           ELSE "none"]
  /\ \E order \in {q \in UNION {[1..n -> Ids] : n \in 0..Cardinality(Ids)} :
                    IsInjective(q) /\ Range(q) = {e[1] : e \in file}} : recent' = order
  /\ UNCHANGED <<started, flags, slots, sftp, disk, sess, retryOf, pc, target, crashes, scenario>>

-----------------------------------------------------------------------------
(* start_transfer and transfer_retry.                                      *)

StartTransfer(i, r) ==
  /\ loaded /\ live /\ pc[Start(i)] = "idle" /\ pc[Task(i)] = "idle" /\ rec[i] = "none"
  /\ r # NoId => "retry" \in Uses /\ rec[r] \in {"failed", "canceled"} /\ SessionLive(r)
               /\ scenario.path[r] = scenario.path[i]
  /\ sess' = [sess EXCEPT ![i] = session] /\ retryOf' = [retryOf EXCEPT ![i] = r]
  /\ pc' = [pc EXCEPT ![Start(i)] = "insert", ![Task(i)] = "gate"]
  /\ UNCHANGED <<records, flags, slots, sftp, disk, target, life>>

\* seeded fault: the staging paths of active records are not compared
InsertableShared(i) ==
  /\ SessionLive(i)
  /\ Cardinality({j \in Ids : sess[j] = sess[i] /\ rec[j] \in Active}) < MaxPending

\* seeded fault: the session is not looked up again under its lock
InsertableUnchecked(i) ==
  /\ Cardinality({j \in Ids : sess[j] = sess[i] /\ rec[j] \in Active}) < MaxPending
  /\ \A j \in Ids : rec[j] \in Active => scenario.path[j] # scenario.path[i]

(* The checks made while sftp_sessions and transfers are locked.           *)
Insertable(i) ==
  /\ SessionLive(i)
  /\ Cardinality({j \in Ids : sess[j] = sess[i] /\ rec[j] \in Active}) < MaxPending
  /\ \A j \in Ids : rec[j] \in Active => scenario.path[j] # scenario.path[i]

StartInsert(i) ==
  /\ pc[Start(i)] = "insert"
  /\ \/ /\ Insertable(i) /\ SetStatus(i, "queued") /\ Goto(Start(i), "saveStart")
        /\ UNCHANGED <<started, slots>>
     \/ /\ ~Insertable(i)
        /\ pc' = [pc EXCEPT ![Start(i)] = "done", ![Task(i)] = "done"]
        /\ Dropped(i) /\ UNCHANGED records
  /\ UNCHANGED <<flags, sftp, disk, sess, retryOf, target, life>>

(* start_sender.send: it fails when a cancel has aborted the task; the     *)
(* record is taken back.  A retry then drops the record it replaces.       *)
StartSend(i) ==
  /\ pc[Start(i)] = "send"
  /\ \/ /\ pc[Task(i)] = "gate"
        /\ pc' = [pc EXCEPT ![Start(i)] = IF retryOf[i] = NoId THEN "done" ELSE "replace",
                            ![Task(i)] = "check"]
        /\ UNCHANGED records
     \/ pc[Task(i)] = "done" /\ RemoveAll({i}) /\ Goto(Start(i), "save")
  /\ UNCHANGED <<flags, slots, sftp, disk, sess, retryOf, target, life>>

RetryReplace(i) ==
  /\ pc[Start(i)] = "replace" /\ RemoveAll({retryOf[i]}) /\ Goto(Start(i), "save")
  /\ UNCHANGED <<flags, slots, sftp, disk, sess, retryOf, target, life>>

-----------------------------------------------------------------------------
(* The other commands.                                                     *)

(* control_notify.notify_one: the permit waits for the task.               *)
Notify(i) == notified' = [notified EXCEPT ![i] = TRUE]

TransferPause(c, i) ==
  /\ "pause" \in Uses /\ pc[Cmd(c)] = "idle" /\ rec[i] \in {"queued", "running"}
  /\ paused' = [paused EXCEPT ![i] = TRUE] /\ Notify(i) /\ SetStatus(i, "paused")
  /\ Goto(Cmd(c), "save")
  /\ UNCHANGED <<started, cancel, slots, sftp, disk, sess, retryOf, target, life>>

TransferResume(c, i) ==
  /\ pc[Cmd(c)] = "idle" /\ rec[i] = "paused"
  /\ paused' = [paused EXCEPT ![i] = FALSE] /\ Notify(i)
  /\ SetStatus(i, IF started[i] THEN "running" ELSE "queued")
  /\ Goto(Cmd(c), "save")
  /\ UNCHANGED <<started, cancel, slots, sftp, disk, sess, retryOf, target, life>>

\* seeded fault: a task that waits for a slot is not woken
CancelInPlaceSilent(a, i) ==
  /\ rec[i] \in Active
  /\ cancel' = [cancel EXCEPT ![i] = TRUE] /\ SetStatus(i, "canceled")
  /\ pc' = [pc EXCEPT ![a] = "join"] /\ target' = [target EXCEPT ![a] = i]
  /\ UNCHANGED <<started, paused, notified>>

(* cancel_transfer_in_place by actor a: the record is final at once, its   *)
(* task is joined afterwards.                                              *)
CancelInPlace(a, i) ==
  /\ rec[i] \in Active
  /\ cancel' = [cancel EXCEPT ![i] = TRUE] /\ Notify(i) /\ SetStatus(i, "canceled")
  /\ pc' = [pc EXCEPT ![a] = "join"] /\ target' = [target EXCEPT ![a] = i]
  /\ UNCHANGED <<started, paused>>

TransferCancel(c, i) ==
  /\ "cancel" \in Uses /\ pc[Cmd(c)] = "idle"
  /\ \/ CancelInPlace(Cmd(c), i)
     \/ rec[i] \in Finished /\ Goto(Cmd(c), "prune") /\ UNCHANGED <<records, flags, target>>
  /\ UNCHANGED <<slots, sftp, disk, sess, retryOf, life>>

AfterJoin(a) == IF a = Close THEN "cancelNext" ELSE "prune"

(* cancel_and_join_transfer_task: the task ends within the grace time ...  *)
CancelJoined(a) ==
  /\ pc[a] = "join" /\ pc[Task(target[a])] = "done"
  /\ Goto(a, AfterJoin(a)) /\ target' = [target EXCEPT ![a] = NoId]
  /\ UNCHANGED <<records, flags, slots, sftp, disk, sess, retryOf, life>>

(* ... or is aborted wherever it is.                                       *)
GraceExpires(a) ==
  /\ pc[a] = "join" /\ pc[Task(target[a])] # "done"
  /\ pc' = [pc EXCEPT ![a] = AfterJoin(a), ![Task(target[a])] = "done"]
  /\ target' = [target EXCEPT ![a] = NoId]
  /\ Dropped(target[a])
  /\ IF writer = Task(target[a])
       THEN writer' = NoId /\ view' = {} ELSE UNCHANGED <<writer, view>>
  /\ UNCHANGED <<records, flags, sftp, file, fileOk, sess, retryOf, life>>

(* A record that is gone already is no error; the history is written.      *)
TransferRemove(c, i) ==
  /\ "remove" \in Uses /\ loaded /\ pc[Cmd(c)] = "idle" /\ rec[i] \in Finished \cup {"none"}
  /\ RemoveAll({i}) /\ Goto(Cmd(c), "save")
  /\ UNCHANGED <<flags, slots, sftp, disk, sess, retryOf, target, life>>

ClearFinished(c) ==
  /\ "remove" \in Uses /\ loaded /\ pc[Cmd(c)] = "idle"
  /\ RemoveAll({i \in Ids : rec[i] \in Finished}) /\ Goto(Cmd(c), "save")
  /\ UNCHANGED <<flags, slots, sftp, disk, sess, retryOf, target, life>>

-----------------------------------------------------------------------------
(* The SFTP session.                                                       *)

OpenSftp ==
  /\ loaded /\ ~live /\ pc[Close] = "idle" /\ session < scenario.sessions
  /\ session' = session + 1 /\ live' = TRUE
  /\ UNCHANGED <<records, flags, slots, todo, disk, sess, retryOf, pc, target, life>>

(* close_sftp removes the record of the session first ...                  *)
CloseSftp ==
  /\ "close" \in Uses /\ live /\ pc[Close] = "idle"
  /\ live' = FALSE /\ Goto(Close, "collect")
  /\ UNCHANGED <<records, flags, slots, session, todo, disk, sess, retryOf, target, life>>

CloseCollect ==
  /\ pc[Close] = "collect"
  /\ todo' = {i \in Ids : sess[i] = session /\ rec[i] \in Active}
  /\ Goto(Close, "cancelNext")
  /\ UNCHANGED <<records, flags, slots, session, live, disk, sess, retryOf, target, life>>

(* ... and cancels its transfers one after the other.                      *)
CloseCancelNext ==
  /\ pc[Close] = "cancelNext"
  /\ \/ \E i \in todo :
          /\ todo' = todo \ {i}
          /\ \/ CancelInPlace(Close, i)
             \/ rec[i] \notin Active /\ UNCHANGED <<records, flags, pc, target>>
     \/ todo = {} /\ Goto(Close, "prune") /\ UNCHANGED <<records, flags, todo, target>>
  /\ UNCHANGED <<slots, session, live, disk, sess, retryOf, life>>

-----------------------------------------------------------------------------
(* The task of a transfer.                                                 *)

(* The head of the loop of acquire_transfer_capacity.                      *)
AcquireCheck(i) ==
  /\ pc[Task(i)] = "check"
  /\ Goto(Task(i), CASE cancel[i] -> "fail" [] paused[i] -> "parked" [] OTHER -> "select")
  /\ queue' = IF cancel[i] \/ paused[i] THEN queue ELSE Append(queue, i)
  /\ UNCHANGED <<records, flags, held, sftp, disk, sess, retryOf, target, life>>

(* `changed` completes; a place in the queue is given up.                  *)
AcquireNotified(i) ==
  /\ pc[Task(i)] \in {"parked", "select"} /\ notified[i]
  /\ notified' = [notified EXCEPT ![i] = FALSE]
  /\ Goto(Task(i), "check") /\ queue' = Without(queue, {i})
  /\ UNCHANGED <<records, paused, cancel, held, sftp, disk, sess, retryOf, target, life>>

(* tokio's semaphore is first come first served.                           *)
FirstOf(n) == LET q == SelectSeq(queue, LAMBDA i : sess[i] = n)
              IN IF q = <<>> THEN NoId ELSE Head(q)

AcquireGrant(i) ==
  /\ pc[Task(i)] = "select" /\ FirstOf(sess[i]) = i /\ Free(sess[i]) >= WorkerParts(i)
  /\ held' = [held EXCEPT ![i] = WorkerParts(i)] /\ queue' = Without(queue, {i})
  /\ Goto(Task(i), "granted")
  /\ UNCHANGED <<records, flags, sftp, disk, sess, retryOf, target, life>>

(* The flags are read again with the permit in hand; it is dropped when    *)
(* they say no.                                                            *)
AcquireRecheck(i) ==
  /\ pc[Task(i)] = "granted"
  /\ Goto(Task(i), CASE cancel[i] -> "fail" [] paused[i] -> "check" [] OTHER -> "open")
  /\ IF cancel[i] \/ paused[i] THEN Dropped(i) ELSE UNCHANGED slots
  /\ UNCHANGED <<records, flags, sftp, disk, sess, retryOf, target, life>>

\* seeded fault: the mark does not look at the paused flag
RunningStatusBlind(i) == "running"

RunningStatus(i) == IF paused[i] THEN "paused" ELSE "running"

(* run_transfer up to mark_transfer_running: the session must still be     *)
(* there, the source unchanged.                                            *)
RunOpens(i) ==
  /\ pc[Task(i)] = "open" /\ SessionLive(i) /\ Goto(Task(i), "copy")
  /\ IF rec[i] \in Active
       THEN started' = [started EXCEPT ![i] = TRUE] /\ SetStatus(i, RunningStatus(i))
       ELSE UNCHANGED records
  /\ UNCHANGED <<flags, slots, sftp, disk, sess, retryOf, target, life>>

(* The ticker's mark_transfer_progress.                                    *)
MarkProgress(i) ==
  /\ "progress" \in Uses /\ pc[Task(i)] = "copy" /\ ~cancel[i] /\ rec[i] \in Active
  /\ SetStatus(i, RunningStatus(i))
  /\ UNCHANGED <<started, flags, slots, sftp, disk, sess, retryOf, pc, target, life>>

(* The copy loop ends only when neither flag holds it.                     *)
CopyEnds(i) ==
  /\ pc[Task(i)] = "copy" /\ ~cancel[i] /\ ~paused[i] /\ Goto(Task(i), "finish")
  /\ UNCHANGED <<records, flags, slots, sftp, disk, sess, retryOf, target, life>>

CopyCanceled(i) ==
  /\ pc[Task(i)] = "copy" /\ cancel[i]
  /\ Goto(Task(i), "fail") /\ Dropped(i)
  /\ UNCHANGED <<records, flags, sftp, disk, sess, retryOf, target, life>>

(* A part of a parallel copy fails: it sets the flag of the cancel, so that *)
(* the other parts stop, while the record is running or paused still.      *)
PartFails(i) ==
  /\ pc[Task(i)] = "copy" /\ WorkerParts(i) > 1 /\ ~cancel[i]
  /\ cancel' = [cancel EXCEPT ![i] = TRUE]
  /\ UNCHANGED <<records, paused, notified, slots, sftp, disk, sess, retryOf, pc, target, life>>

(* Any other error of run_transfer; its permit is dropped as it returns.   *)
RunFails(i) ==
  /\ pc[Task(i)] \in {"open", "copy", "finish"}
  /\ Goto(Task(i), "fail") /\ Dropped(i)
  /\ UNCHANGED <<records, flags, sftp, disk, sess, retryOf, target, life>>

\* seeded fault: the history is not written
MarkUnsaved(i, s) ==
  /\ Goto(Task(i), "done") /\ Dropped(i)
  /\ IF rec[i] \in Active THEN SetStatus(i, s) /\ UNCHANGED started ELSE UNCHANGED records

(* mark_transfer_completed and mark_transfer_failed return at once when    *)
(* the record is final, and go on to the history when it is gone.          *)
Mark(i, s) ==
  CASE rec[i] \in Active ->
         SetStatus(i, s) /\ Goto(Task(i), "prune") /\ UNCHANGED <<started, slots>>
    [] rec[i] = "none" -> Goto(Task(i), "prune") /\ UNCHANGED <<records, slots>>
    [] OTHER -> Goto(Task(i), "done") /\ Dropped(i) /\ UNCHANGED records

MarkCompleted(i) ==
  /\ pc[Task(i)] = "finish" /\ Mark(i, "completed")
  /\ UNCHANGED <<flags, sftp, disk, sess, retryOf, target, life>>

MarkFailed(i) ==
  /\ pc[Task(i)] = "fail" /\ Mark(i, "failed")
  /\ UNCHANGED <<flags, sftp, disk, sess, retryOf, target, life>>

-----------------------------------------------------------------------------
(* The process dies and starts again with what is on disk.                 *)
Crash ==
  /\ crashes < scenario.crashes /\ loaded /\ crashes' = crashes + 1 /\ loaded' = FALSE
  /\ rec' = [i \in Ids |-> "none"] /\ recent' = <<>>
  /\ started' = [i \in Ids |-> FALSE]
  /\ pc' = [a \in Actors |-> IF a[1] \in {"task", "start"} /\ pc[a] # "idle"
                             THEN "done" ELSE "idle"]
  /\ target' = [a \in Actors |-> NoId]
  /\ held' = [i \in Ids |-> 0] /\ queue' = <<>>
  /\ live' = FALSE /\ todo' = {} /\ writer' = NoId /\ view' = {}
  /\ paused' = [i \in Ids |-> FALSE] /\ cancel' = [i \in Ids |-> FALSE]
  /\ notified' = [i \in Ids |-> FALSE]
  /\ UNCHANGED <<session, file, fileOk, sess, retryOf, scenario>>

StartStep(i) ==
  \/ \E r \in Ids \cup {NoId} : StartTransfer(i, r)
  \/ StartInsert(i) \/ StartSend(i) \/ RetryReplace(i)

CmdStep(c) ==
  \/ \E i \in Ids : TransferPause(c, i) \/ TransferResume(c, i) \/ TransferCancel(c, i)
                    \/ TransferRemove(c, i)
  \/ ClearFinished(c)

HistoryStep(a) == PruneTransferHistory(a) \/ PersistSnapshot(a) \/ PersistWrite(a)

TaskStep(i) ==
  \/ AcquireCheck(i) \/ AcquireNotified(i) \/ AcquireGrant(i) \/ AcquireRecheck(i)
  \/ RunOpens(i) \/ MarkProgress(i) \/ CopyEnds(i) \/ CopyCanceled(i) \/ PartFails(i)
  \/ RunFails(i) \/ MarkCompleted(i) \/ MarkFailed(i)

Next ==
  \/ \E i \in Ids : StartStep(i) \/ TaskStep(i)
  \/ \E c \in Cmds : CmdStep(c)
  \/ \E a \in Actors : HistoryStep(a) \/ CancelJoined(a) \/ GraceExpires(a)
  \/ OpenSftp \/ CloseSftp \/ CloseCollect \/ CloseCancelNext
  \/ LoadHistory \/ Crash

Spec == Init /\ [][Next]_vars

(* What the runtime drives: a task, a start, a command.  Nothing obliges   *)
(* the user to do anything, a copy to fail or a write to succeed, and no   *)
(* task is counted on to be aborted.                                       *)
TaskRuns(i) ==
  \/ AcquireCheck(i) \/ AcquireNotified(i) \/ AcquireGrant(i) \/ AcquireRecheck(i)
  \/ RunOpens(i) \/ (pc[Task(i)] = "open" /\ RunFails(i))
  \/ CopyEnds(i) \/ CopyCanceled(i) \/ MarkCompleted(i) \/ MarkFailed(i)

Runs(a) ==
  \/ a[1] = "task" /\ TaskRuns(a[2])
  \/ a[1] = "start" /\ (StartInsert(a[2]) \/ StartSend(a[2]) \/ RetryReplace(a[2]))
  \/ a = Close /\ (CloseCollect \/ CloseCancelNext)
  \/ PruneTransferHistory(a) \/ PersistWrite(a) \/ CancelJoined(a)

(* Every actor goes on; the mutex of the history serves its waiters in     *)
(* order, so that none is passed over for ever.                            *)
FairSpec ==
  /\ Spec /\ WF_vars(LoadHistory)
  /\ \A a \in Actors : WF_vars(Runs(a)) /\ SF_vars(PersistSnapshot(a))

-----------------------------------------------------------------------------
(* What the user sees of an active transfer is what its task will do: the  *)
(* status and the flags the task reads agree, whatever order pause, resume,*)
(* mark_transfer_running and mark_transfer_progress took, and the flag of  *)
(* the cancel is set only while a copy one of whose parts failed stops.    *)
StatusTellsFlags ==
  \A i \in Ids : rec[i] \in Active =>
    /\ cancel[i] => pc[Task(i)] \in {"copy", "fail"}
    /\ rec[i] = IF paused[i] THEN "paused" ELSE IF started[i] THEN "running" ELSE "queued"

(* Two active transfers never share a staging path, whoever starts or      *)
(* retries them at the same time.                                          *)
OneTransferPerPath ==
  \A i, j \in Ids :
    i # j /\ {rec[i], rec[j]} \subseteq Active => scenario.path[i] # scenario.path[j]

(* An active record has a task that will end it: none ends before its      *)
(* record is in the map ("Tiny files can otherwise finish in the gap       *)
(* between spawn() and insertion and remain queued forever",               *)
(* runtime_transfer.rs), none is aborted under it, and a restart restores  *)
(* no unfinished record.                                                   *)
NoOrphanRecord ==
  \A i \in Ids : rec[i] \in Active =>
    pc[Task(i)] \notin {"idle", "prune", "save", "write", "done"}

(* close_sftp: once it has gone through the transfers of a session, none   *)
(* is active, not even one whose start was under way, and none becomes so. *)
ClosedSessionIsQuiet ==
  \A i \in Ids : rec[i] \in Active =>
    /\ sess[i] = session
    /\ live \/ pc[Close] = "collect" \/ i \in todo

Saving == {"prune", "save", "saveStart", "write", "writeStart", "replace", "join",
           "collect", "cancelNext"}

(* persist_transfer_history: when no actor has a write before it and the   *)
(* last write succeeded, a restart would restore what memory holds, though *)
(* writes and changes interleave and some marks return without a write.    *)
HistorySettled ==
  (\A a \in Actors : pc[a] \notin Saving) /\ fileOk /\ loaded =>
    /\ \A e \in file : Normalized(e[2]) = Normalized(rec[e[1]])
    /\ Len(recent) <= MaxHistory => {e[1] : e \in file} = Range(recent)

(* A transfer ends, unless some transfer stays paused (it may keep the     *)
(* slots), and every command returns, a cancel by joining the task it      *)
(* canceled: no pause, resume, cancel or start leaves a task asleep        *)
(* ("queued_transfer_can_cancel_without_a_free_slot", runtime_transfer.rs) *)
(* and none has to be aborted.                                             *)
TransfersEnd ==
  /\ \A i \in Ids : rec[i] \in Active ~>
       (rec[i] \notin Active \/ \E j \in Ids : rec[j] = "paused")
  /\ \A c \in Cmds : pc[Cmd(c)] # "idle" ~> pc[Cmd(c)] = "idle"

=============================================================================
