------------------------ MODULE TransferQueue_proofs ------------------------
(* What holds of TransferQueue for any number of transfers, commands,      *)
(* sessions and crashes.                                                   *)
EXTENDS TransferQueue, TLAPS, FiniteSetTheorems, SequenceTheorems, WellFoundedInduction

Statuses == Active \cup Finished \cup {"none"}

TaskPcs == {"idle", "gate", "check", "parked", "select", "granted", "open", "copy",
            "finish", "fail", "prune", "save", "write", "done"}
StartPcs == {"idle", "insert", "saveStart", "writeStart", "send", "replace", "save",
             "write", "done"}
CmdPcs == {"idle", "join", "prune", "save", "write"}

Pcs == TaskPcs \cup StartPcs \cup CmdPcs \cup {"collect", "cancelNext"}

(* As much of the types as the proofs need.                                *)
QueueTypes ==
  /\ rec \in [Ids -> Statuses] /\ sess \in [Ids -> Nat] /\ session \in Nat
  /\ paused \in [Ids -> BOOLEAN] /\ cancel \in [Ids -> BOOLEAN]
  /\ started \in [Ids -> BOOLEAN]
  /\ pc \in [Actors -> Pcs] /\ todo \in SUBSET Ids

Working == {"check", "parked", "select", "granted", "open", "copy"}

(* A transfer that has not been inserted is not active, its task has not   *)
(* begun, and nobody has touched its flags.                                *)
FreshUntouched ==
  \A i \in Ids : pc[Start(i)] \in {"idle", "insert"} =>
    /\ rec[i] \notin Active /\ ~paused[i] /\ ~cancel[i] /\ ~started[i]
    /\ pc[Task(i)] \notin Working

(* mark_transfer_running came before the copy.                             *)
CopyStarted == \A i \in Ids : pc[Task(i)] = "copy" /\ rec[i] \in Active => started[i]

(* Outside its loop the close has nothing to cancel.                       *)
TodoOnlyInLoop == pc[Close] \notin {"cancelNext", "join"} => todo = {}

(* The status shows the flags that pause and mark_transfer_running set.    *)
StatusAgrees ==
  \A i \in Ids : rec[i] \in Active =>
    rec[i] = IF paused[i] THEN "paused" ELSE IF started[i] THEN "running" ELSE "queued"

QueueInv ==
  /\ QueueTypes /\ FreshUntouched /\ CopyStarted /\ TodoOnlyInLoop
  /\ StatusAgrees /\ ClosedSessionIsQuiet /\ OneTransferPerPath

-----------------------------------------------------------------------------
(* How a step may treat the actors the invariant looks at: no start goes   *)
(* back to its beginning, no task begins before it is sent for, a copy     *)
(* begins with a started record, the close does not leave its first step   *)
(* or its loop.                                                            *)
PcSteady ==
  /\ pc' \in [Actors -> Pcs]
  /\ \A i \in Ids : pc'[Start(i)] \in {"idle", "insert"} => pc[Start(i)] \in {"idle", "insert"}
  /\ \A i \in Ids : pc'[Task(i)] \in Working =>
       pc[Task(i)] \in Working \/ pc[Start(i)] \notin {"idle", "insert"}
  /\ \A i \in Ids : pc'[Task(i)] = "copy" =>
       pc[Task(i)] = "copy" \/ rec[i] \notin Active \/ started'[i]
  /\ pc[Close] = "collect" => pc'[Close] = "collect"
  /\ pc'[Close] \notin {"cancelNext", "join"} => pc[Close] \notin {"cancelNext", "join"}

(* How it may treat the records: none becomes active, one that stays       *)
(* active agrees with its flags, the flags of the others are left alone.   *)
RecordsSteady ==
  /\ rec' \in [Ids -> Statuses]
  /\ paused' \in [Ids -> BOOLEAN] /\ cancel' \in [Ids -> BOOLEAN]
  /\ started' \in [Ids -> BOOLEAN]
  /\ \A i \in Ids : rec'[i] \in Active =>
       /\ rec[i] \in Active /\ (started[i] => started'[i])
       /\ rec'[i] = IF paused'[i] THEN "paused" ELSE IF started'[i] THEN "running" ELSE "queued"
  /\ \A i \in Ids : rec[i] \notin Active =>
       paused'[i] = paused[i] /\ cancel'[i] = cancel[i] /\ started'[i] = started[i]

LEMMA SteadyStep ==
  ASSUME QueueInv, PcSteady, RecordsSteady, UNCHANGED <<sess, session, live, todo, scenario>>
  PROVE QueueInv'
<1> USE DEF QueueInv, QueueTypes
<1>1. FreshUntouched'
  BY DEF FreshUntouched, PcSteady, RecordsSteady
<1>2. TodoOnlyInLoop'
  BY DEF TodoOnlyInLoop, PcSteady
<1>3. StatusAgrees'
  BY DEF StatusAgrees, RecordsSteady
<1>4. ClosedSessionIsQuiet'
  BY DEF ClosedSessionIsQuiet, RecordsSteady, PcSteady
<1>5. OneTransferPerPath'
  BY DEF OneTransferPerPath, RecordsSteady
<1>6. QueueTypes'
  BY DEF RecordsSteady, PcSteady
<1>7. CopyStarted'
  BY DEF CopyStarted, RecordsSteady, PcSteady
<1> QED BY <1>1, <1>2, <1>3, <1>4, <1>5, <1>6, <1>7

(* The actors are told apart by their tags.                                *)
LEMMA ActorTags ==
  /\ \A i \in Ids : /\ Task(i) \in Actors /\ Task(i)[1] = "task" /\ Task(i)[2] = i
                    /\ Start(i) \in Actors /\ Start(i)[1] = "start" /\ Start(i)[2] = i
  /\ \A c \in Cmds : Cmd(c) \in Actors /\ Cmd(c)[1] = "cmd"
  /\ Close \in Actors /\ Close[1] = "close"
BY DEF Actors, Task, Start, Cmd, Close

LEMMA ActorsIn ==
  /\ \A i \in Ids : Task(i) \in Actors /\ Start(i) \in Actors
  /\ \A c \in Cmds : Cmd(c) \in Actors
  /\ Close \in Actors
BY ActorTags

LEMMA ActorsDiffer ==
  /\ \A i, j \in Ids : /\ Task(i) # Start(j)
                       /\ Task(i) = Task(j) => i = j
                       /\ Start(i) = Start(j) => i = j
  /\ \A i \in Ids, c \in Cmds : Task(i) # Cmd(c) /\ Start(i) # Cmd(c)
  /\ \A i \in Ids : Task(i) # Close /\ Start(i) # Close
BY ActorTags

(* A step that moves one task or one command.                              *)
LEMMA OtherMoves ==
  ASSUME QueueTypes, NEW a \in Actors, NEW p \in Pcs, Goto(a, p),
         a[1] \in {"task", "cmd"}, p # "copy",
         a[1] = "task" /\ p \in Working => pc[a] \in Working
  PROVE PcSteady
BY ActorTags DEF QueueTypes, Goto, PcSteady

(* A step that moves a start on.                                           *)
LEMMA StartMoves ==
  ASSUME QueueTypes, NEW a \in Actors, NEW p \in Pcs \ {"idle", "insert"}, Goto(a, p),
         a[1] = "start"
  PROVE PcSteady
BY ActorTags DEF QueueTypes, Goto, PcSteady

LEMMA SameRecords ==
  ASSUME QueueInv, UNCHANGED <<rec, started, paused, cancel>>
  PROVE RecordsSteady
BY DEF QueueInv, QueueTypes, RecordsSteady, StatusAgrees

LEMMA RemovedRecords ==
  ASSUME QueueInv, NEW S, RemoveAll(S), UNCHANGED <<paused, cancel>>
  PROVE RecordsSteady
BY DEF QueueInv, QueueTypes, RecordsSteady, StatusAgrees, RemoveAll, Statuses, Active, Finished

(* A record that was active gets a final status.                           *)
LEMMA FinishedRecord ==
  ASSUME QueueInv, NEW i \in Ids, NEW s \in Finished, rec[i] \in Active, SetStatus(i, s),
         UNCHANGED <<started, paused, cancel>>
  PROVE RecordsSteady
BY DEF QueueInv, QueueTypes, RecordsSteady, StatusAgrees, SetStatus, Statuses, Active, Finished

-----------------------------------------------------------------------------
(* The history: pruning, snapshot, write, load.                            *)
LEMMA HistorySteps ==
  ASSUME QueueInv, NEW a \in Actors, HistoryStep(a)
  PROVE QueueInv'
<1> USE DEF flags, records, sftp, life, QueueInv
<1>1. CASE PruneTransferHistory(a)
  <2>1. PcSteady
    BY <1>1, ActorTags DEF PruneTransferHistory, QueueTypes, Goto, PcSteady, Pcs, CmdPcs, TaskPcs, StartPcs, Working
  <2>2. RecordsSteady
    BY <1>1, RemovedRecords DEF PruneTransferHistory
  <2> QED BY <1>1, <2>1, <2>2, SteadyStep DEF PruneTransferHistory
<1>2. CASE PersistSnapshot(a)
  <2>1. PcSteady
    BY <1>2, ActorTags DEF PersistSnapshot, QueueTypes, Goto, PcSteady, Pcs, CmdPcs, TaskPcs, StartPcs, Working
  <2> QED BY <1>2, <2>1, SameRecords, SteadyStep DEF PersistSnapshot
<1>3. CASE PersistWrite(a)
  <2>1. PcSteady
    BY <1>3, ActorTags DEF PersistWrite, QueueTypes, PcSteady, Pcs, CmdPcs, TaskPcs, StartPcs, Working
  <2> QED BY <1>3, <2>1, SameRecords, SteadyStep DEF PersistWrite
<1> QED BY <1>1, <1>2, <1>3 DEF HistoryStep

(* A restart restores no record as active.                                 *)
LEMMA LoadRecords == ASSUME LoadHistory PROVE \A i \in Ids : rec'[i] \in Finished \cup {"none"}
<1> SUFFICES ASSUME NEW i \in Ids PROVE rec'[i] \in Finished \cup {"none"}
  OBVIOUS
<1>1. CASE \E s \in Active \cup Finished : <<i, s>> \in file
  <2> DEFINE t == CHOOSE s \in Active \cup Finished : <<i, s>> \in file
  <2>1. t \in Active \cup Finished
    BY <1>1
  <2>2. rec'[i] = Normalized(t)
    BY <1>1 DEF LoadHistory
  <2> QED BY <2>1, <2>2 DEF Normalized, Active, Finished
<1>2. CASE ~\E s \in Active \cup Finished : <<i, s>> \in file
  BY <1>2 DEF LoadHistory
<1> QED BY <1>1, <1>2

LEMMA LoadStep == ASSUME QueueInv, LoadHistory PROVE QueueInv'
<1>1. \A i \in Ids : rec'[i] \in Finished \cup {"none"}
  BY LoadRecords
<1>2. rec' \in [Ids -> Statuses]
  <2>1. rec' = [i \in Ids |-> rec'[i]]
    BY DEF LoadHistory
  <2> QED BY <2>1, <1>1 DEF Statuses
<1>3. RecordsSteady
  BY <1>1, <1>2 DEF LoadHistory, RecordsSteady, QueueInv, QueueTypes, Active, Finished, flags
<1>4. PcSteady
  BY DEF LoadHistory, PcSteady, QueueInv, QueueTypes
<1> QED BY <1>3, <1>4, SteadyStep DEF LoadHistory, sftp

-----------------------------------------------------------------------------
(* Starts.                                                                 *)
LEMMA StartSteps == ASSUME QueueInv, NEW i \in Ids, StartStep(i) PROVE QueueInv'
<1> USE DEF flags, records, sftp, life, QueueInv
<1>1. ASSUME NEW r \in Ids \cup {NoId}, StartTransfer(i, r) PROVE QueueInv'
  <2> USE <1>1 DEF StartTransfer
  <2>1. QueueTypes'
    BY ActorTags DEF QueueTypes, Pcs, TaskPcs, StartPcs
  <2>2. \A j \in Ids : rec[j] \in Active => sess'[j] = sess[j]
    BY DEF QueueTypes, Active
  <2>3. \A j \in Ids : j # i => pc'[Start(j)] = pc[Start(j)]
    BY ActorTags DEF QueueTypes
  <2>4. pc'[Close] = pc[Close]
    BY ActorTags DEF QueueTypes
  <2>5. FreshUntouched'
    BY <2>3, ActorTags DEF FreshUntouched, QueueTypes, Working
  <2>6. TodoOnlyInLoop' /\ StatusAgrees' /\ OneTransferPerPath'
    BY <2>4 DEF TodoOnlyInLoop, StatusAgrees, OneTransferPerPath
  <2>7. ClosedSessionIsQuiet'
    BY <2>2, <2>4 DEF ClosedSessionIsQuiet
  <2>8. CopyStarted'
    BY ActorTags DEF CopyStarted, QueueTypes
  <2> QED BY <2>1, <2>5, <2>6, <2>7, <2>8
<1>2. CASE StartInsert(i) /\ Insertable(i)
  <2>1. /\ rec' = [rec EXCEPT ![i] = "queued"]
        /\ pc' = [pc EXCEPT ![Start(i)] = "saveStart"]
        /\ UNCHANGED <<started, flags, sftp, sess, scenario>>
        /\ pc[Start(i)] = "insert"
    BY <1>2 DEF StartInsert, SetStatus, Goto
  <2>2. QueueTypes'
    BY <2>1, ActorTags DEF QueueTypes, Statuses, Active, Pcs, StartPcs
  <2>3. FreshUntouched'
    BY <2>1, ActorTags DEF FreshUntouched, QueueTypes
  <2>4. pc'[Close] = pc[Close]
    BY <2>1, ActorTags DEF QueueTypes
  <2>5. TodoOnlyInLoop'
    BY <2>1, <2>4 DEF TodoOnlyInLoop
  <2>6. ~paused[i] /\ ~cancel[i] /\ ~started[i]
    BY <2>1 DEF FreshUntouched
  <2>7. StatusAgrees'
    BY <2>1, <2>6 DEF StatusAgrees, QueueTypes
  <2>8. ClosedSessionIsQuiet'
    BY <1>2, <2>1, <2>4 DEF ClosedSessionIsQuiet, QueueTypes, Insertable, SessionLive
  <2>9. OneTransferPerPath'
    BY <1>2, <2>1 DEF OneTransferPerPath, QueueTypes, Insertable
  <2>10. CopyStarted'
    BY <2>1, ActorTags DEF CopyStarted, FreshUntouched, QueueTypes, Working
  <2> QED BY <2>2, <2>3, <2>5, <2>7, <2>8, <2>9, <2>10
<1>3. CASE StartInsert(i) /\ ~Insertable(i)
  <2>1. PcSteady
    BY <1>3, ActorTags DEF StartInsert, PcSteady, QueueTypes, Pcs, StartPcs, TaskPcs, Working
  <2> QED BY <1>3, <2>1, SameRecords, SteadyStep DEF StartInsert
<1>4. CASE StartSend(i) /\ pc[Task(i)] = "gate"
  <2>1. PcSteady
    BY <1>4, ActorTags DEF StartSend, PcSteady, QueueTypes, Pcs, StartPcs, TaskPcs, Working
  <2> QED BY <1>4, <2>1, SameRecords, SteadyStep DEF StartSend
<1>5. CASE StartSend(i) /\ pc[Task(i)] # "gate"
  <2>1. RemoveAll({i}) /\ Goto(Start(i), "save") /\ UNCHANGED <<flags, sftp, sess, scenario>>
    BY <1>5 DEF StartSend
  <2>2. PcSteady
    BY <2>1, StartMoves, ActorTags DEF Pcs, StartPcs
  <2> QED BY <2>1, <2>2, RemovedRecords, SteadyStep
<1>6. CASE RetryReplace(i)
  <2>1. PcSteady
    BY <1>6, StartMoves, ActorTags DEF RetryReplace, Pcs, StartPcs
  <2> QED BY <1>6, <2>1, RemovedRecords, SteadyStep DEF RetryReplace
<1> QED BY <1>1, <1>2, <1>3, <1>4, <1>5, <1>6 DEF StartStep

-----------------------------------------------------------------------------
(* The commands, the cancels and the close.                                *)
LEMMA CancelRecords ==
  ASSUME QueueInv, NEW a \in Actors, NEW i \in Ids, CancelInPlace(a, i)
  PROVE RecordsSteady
BY DEF QueueInv, QueueTypes, RecordsSteady, StatusAgrees, CancelInPlace, SetStatus,
       Statuses, Active, Finished

LEMMA CmdSteps == ASSUME QueueInv, NEW c \in Cmds, CmdStep(c) PROVE QueueInv'
<1> USE DEF flags, records, sftp, life, QueueInv
<1>1. ASSUME NEW i \in Ids, TransferPause(c, i) PROVE QueueInv'
  <2>1. PcSteady
    BY <1>1, OtherMoves, ActorTags DEF TransferPause, Pcs, CmdPcs
  <2>2. RecordsSteady
    BY <1>1 DEF TransferPause, SetStatus, QueueTypes, RecordsSteady, StatusAgrees,
                Statuses, Active
  <2> QED BY <1>1, <2>1, <2>2, SteadyStep DEF TransferPause
<1>2. ASSUME NEW i \in Ids, TransferResume(c, i) PROVE QueueInv'
  <2>1. PcSteady
    BY <1>2, OtherMoves, ActorTags DEF TransferResume, Pcs, CmdPcs
  <2>2. RecordsSteady
    BY <1>2 DEF TransferResume, SetStatus, QueueTypes, RecordsSteady, StatusAgrees,
                Statuses, Active
  <2> QED BY <1>2, <2>1, <2>2, SteadyStep DEF TransferResume
<1>3. ASSUME NEW i \in Ids, TransferCancel(c, i), CancelInPlace(Cmd(c), i) PROVE QueueInv'
  <2>1. PcSteady
    BY <1>3, ActorTags DEF CancelInPlace, PcSteady, QueueTypes, Pcs, CmdPcs
  <2>2. RecordsSteady
    BY <1>3, CancelRecords, ActorTags
  <2> QED BY <1>3, <2>1, <2>2, SteadyStep DEF TransferCancel
<1>4. ASSUME NEW i \in Ids, TransferCancel(c, i), ~CancelInPlace(Cmd(c), i) PROVE QueueInv'
  <2>1. PcSteady
    BY <1>4, OtherMoves, ActorTags DEF TransferCancel, Pcs, CmdPcs, TaskPcs
  <2> QED BY <1>4, <2>1, SameRecords, SteadyStep DEF TransferCancel
<1>5. ASSUME NEW i \in Ids, TransferRemove(c, i) PROVE QueueInv'
  <2>1. PcSteady
    BY <1>5, OtherMoves, ActorTags DEF TransferRemove, Pcs, CmdPcs
  <2> QED BY <1>5, <2>1, RemovedRecords, SteadyStep DEF TransferRemove
<1>6. CASE ClearFinished(c)
  <2>1. PcSteady
    BY <1>6, OtherMoves, ActorTags DEF ClearFinished, Pcs, CmdPcs
  <2> QED BY <1>6, <2>1, RemovedRecords, SteadyStep DEF ClearFinished
<1> QED BY <1>1, <1>2, <1>3, <1>4, <1>5, <1>6 DEF CmdStep

LEMMA JoinSteps ==
  ASSUME QueueInv, NEW a \in Actors, CancelJoined(a) \/ GraceExpires(a)
  PROVE QueueInv'
<1> USE DEF flags, records, sftp, life, QueueInv
<1>1. Task(target[a])[1] = "task"
  BY DEF Task
<1>2. CASE CancelJoined(a)
  <2>1. PcSteady
    BY <1>2, ActorTags DEF CancelJoined, Goto, AfterJoin, PcSteady, QueueTypes, Pcs, CmdPcs, Working
  <2> QED BY <1>2, <2>1, SameRecords, SteadyStep DEF CancelJoined
<1>3. CASE GraceExpires(a)
  <2>1. PcSteady
    BY <1>1, <1>3, ActorTags DEF GraceExpires, AfterJoin, PcSteady, QueueTypes, Pcs, CmdPcs, TaskPcs,
                              Working
  <2> QED BY <1>3, <2>1, SameRecords, SteadyStep DEF GraceExpires
<1> QED BY <1>2, <1>3

LEMMA SessionSteps ==
  ASSUME QueueInv, OpenSftp \/ CloseSftp \/ CloseCollect \/ CloseCancelNext
  PROVE QueueInv'
<1> USE DEF flags, records, sftp, life, QueueInv
<1>1. CASE OpenSftp
  <2>1. \A i \in Ids : rec[i] \notin Active
    BY <1>1 DEF OpenSftp, ClosedSessionIsQuiet, TodoOnlyInLoop
  <2> QED BY <1>1, <2>1 DEF OpenSftp, QueueTypes, FreshUntouched, CopyStarted, TodoOnlyInLoop,
             StatusAgrees, ClosedSessionIsQuiet, OneTransferPerPath
<1>2. CASE CloseSftp
  <2>1. pc' = [pc EXCEPT ![Close] = "collect"]
    BY <1>2 DEF CloseSftp, Goto
  <2>2. QueueTypes' /\ FreshUntouched' /\ CopyStarted'
    BY <1>2, <2>1, ActorTags DEF CloseSftp, QueueTypes, FreshUntouched, CopyStarted, Pcs
  <2>3. TodoOnlyInLoop' /\ StatusAgrees' /\ OneTransferPerPath'
    BY <1>2 DEF CloseSftp, TodoOnlyInLoop, StatusAgrees, OneTransferPerPath
  <2>4. ClosedSessionIsQuiet'
    BY <1>2, <2>1, ActorTags DEF CloseSftp, QueueTypes, ClosedSessionIsQuiet
  <2> QED BY <2>2, <2>3, <2>4
<1>3. CASE CloseCollect
  <2>1. pc' = [pc EXCEPT ![Close] = "cancelNext"]
    BY <1>3 DEF CloseCollect, Goto
  <2>2. QueueTypes' /\ FreshUntouched' /\ CopyStarted'
    BY <1>3, <2>1, ActorTags DEF CloseCollect, QueueTypes, FreshUntouched, CopyStarted, Pcs
  <2>3. TodoOnlyInLoop'
    BY <2>1, ActorTags DEF QueueTypes, TodoOnlyInLoop
  <2>4. StatusAgrees' /\ OneTransferPerPath' /\ ClosedSessionIsQuiet'
    BY <1>3 DEF CloseCollect, StatusAgrees, OneTransferPerPath, ClosedSessionIsQuiet
  <2> QED BY <2>2, <2>3, <2>4
<1>4. ASSUME CloseCancelNext, NEW i \in todo, todo' = todo \ {i}, CancelInPlace(Close, i)
      PROVE QueueInv'
  <2>0. i \in Ids
    BY <1>4 DEF QueueTypes
  <2>1. /\ pc' = [pc EXCEPT ![Close] = "join"] /\ rec[i] \in Active
        /\ rec' = [rec EXCEPT ![i] = "canceled"]
        /\ UNCHANGED <<sess, session, live, scenario>> /\ pc[Close] = "cancelNext"
    BY <1>4 DEF CloseCancelNext, CancelInPlace, SetStatus
  <2>2. RecordsSteady
    BY <1>4, <2>0, CancelRecords, ActorTags
  <2>3. QueueTypes'
    BY <1>4, <2>1, <2>2, ActorTags DEF QueueTypes, RecordsSteady, Pcs, CmdPcs
  <2>4. FreshUntouched'
    BY <2>1, <2>2, ActorTags DEF FreshUntouched, RecordsSteady, QueueTypes
  <2>5. TodoOnlyInLoop'
    BY <2>1, ActorTags DEF TodoOnlyInLoop, QueueTypes
  <2>6. StatusAgrees' /\ OneTransferPerPath'
    BY <2>1, <2>2 DEF StatusAgrees, OneTransferPerPath, RecordsSteady
  <2>7. ClosedSessionIsQuiet'
    BY <1>4, <2>0, <2>1 DEF ClosedSessionIsQuiet, QueueTypes, Active
  <2>8. CopyStarted'
    BY <2>1, <2>2, ActorTags DEF CopyStarted, RecordsSteady, QueueTypes
  <2> QED BY <2>3, <2>4, <2>5, <2>6, <2>7, <2>8
<1>5. ASSUME CloseCancelNext, NEW i \in todo, todo' = todo \ {i}, rec[i] \notin Active,
             UNCHANGED <<records, flags, pc, target>>
      PROVE QueueInv'
  <2>1. UNCHANGED <<sess, session, live, scenario>> /\ pc[Close] = "cancelNext"
    BY <1>5 DEF CloseCancelNext
  <2> QED BY <1>5, <2>1 DEF QueueTypes, FreshUntouched, CopyStarted, TodoOnlyInLoop,
             StatusAgrees, ClosedSessionIsQuiet, OneTransferPerPath
<1>6. ASSUME CloseCancelNext, todo = {}, Goto(Close, "prune"),
             UNCHANGED <<records, flags, todo, target>>
      PROVE QueueInv'
  <2>1. UNCHANGED <<sess, session, live, scenario>> /\ pc[Close] = "cancelNext"
    BY <1>6 DEF CloseCancelNext
  <2>2. pc' = [pc EXCEPT ![Close] = "prune"]
    BY <1>6 DEF Goto
  <2>3. QueueTypes' /\ FreshUntouched' /\ CopyStarted'
    BY <1>6, <2>1, <2>2, ActorTags DEF QueueTypes, FreshUntouched, CopyStarted, Pcs, CmdPcs
  <2> QED BY <1>6, <2>1, <2>3 DEF TodoOnlyInLoop, StatusAgrees, ClosedSessionIsQuiet,
             OneTransferPerPath
<1>7. CASE CloseCancelNext
  BY <1>4, <1>5, <1>6, <1>7 DEF CloseCancelNext
<1> QED BY <1>1, <1>2, <1>3, <1>7

-----------------------------------------------------------------------------
(* The tasks.                                                              *)
LEMMA TaskSteps == ASSUME QueueInv, NEW i \in Ids, TaskStep(i) PROVE QueueInv'
<1> USE ActorTags DEF flags, records, sftp, life, QueueInv, Pcs, TaskPcs, Working
<1>1. CASE AcquireCheck(i)
  <2>1. PcSteady
    BY <1>1 DEF AcquireCheck, Goto, QueueTypes, PcSteady
  <2> QED BY <1>1, <2>1, SameRecords, SteadyStep DEF AcquireCheck
<1>2. CASE AcquireNotified(i)
  BY <1>2, OtherMoves, SameRecords, SteadyStep DEF AcquireNotified
<1>3. CASE AcquireGrant(i)
  BY <1>3, OtherMoves, SameRecords, SteadyStep DEF AcquireGrant
<1>4. CASE AcquireRecheck(i)
  <2>1. PcSteady
    BY <1>4 DEF AcquireRecheck, Goto, QueueTypes, PcSteady
  <2> QED BY <1>4, <2>1, SameRecords, SteadyStep DEF AcquireRecheck
<1>5. CASE RunOpens(i)
  <2>1. PcSteady
    BY <1>5 DEF RunOpens, Goto, PcSteady, QueueTypes, Working
  <2>2. CASE rec[i] \in Active
    <3>1. /\ started' = [started EXCEPT ![i] = TRUE]
          /\ rec' = [rec EXCEPT ![i] = RunningStatus(i)]
          /\ UNCHANGED <<paused, cancel>>
      BY <1>5, <2>2 DEF RunOpens, SetStatus
    <3>2. RunningStatus(i) = (IF paused[i] THEN "paused" ELSE "running")
      BY DEF RunningStatus
    <3>3. started'[i] /\ rec'[i] = RunningStatus(i) /\ RunningStatus(i) \in Statuses
      BY <3>1, <3>2 DEF QueueTypes, Statuses, Active
    <3>4. \A j \in Ids : j # i => rec'[j] = rec[j] /\ (started'[j] <=> started[j])
      BY <3>1 DEF QueueTypes
    <3>5. rec' \in [Ids -> Statuses] /\ started' \in [Ids -> BOOLEAN]
      BY <3>1, <3>3 DEF QueueTypes
    <3>6. ASSUME NEW j \in Ids, rec'[j] \in Active
          PROVE /\ rec[j] \in Active /\ (started[j] => started'[j])
                /\ rec'[j] = IF paused'[j] THEN "paused"
                            ELSE IF started'[j] THEN "running" ELSE "queued"
      <4>1. CASE j = i
        BY <2>2, <3>1, <3>2, <3>3, <4>1 DEF StatusAgrees
      <4>2. CASE j # i
        BY <3>1, <3>4, <3>6, <4>2 DEF StatusAgrees
      <4> QED BY <4>1, <4>2
    <3>7. ASSUME NEW j \in Ids, rec[j] \notin Active
          PROVE paused'[j] = paused[j] /\ cancel'[j] = cancel[j] /\ started'[j] = started[j]
      <4>1. j # i
        BY <2>2, <3>7
      <4> QED BY <3>1, <4>1 DEF QueueTypes
    <3>8. RecordsSteady
      BY <3>1, <3>5, <3>6, <3>7 DEF QueueTypes, RecordsSteady
    <3> QED BY <1>5, <2>1, <3>8, SteadyStep DEF RunOpens
  <2>3. CASE rec[i] \notin Active
    BY <1>5, <2>1, <2>3, SameRecords, SteadyStep DEF RunOpens
  <2> QED BY <2>2, <2>3
<1>6. CASE MarkProgress(i)
  <2>1. PcSteady
    BY <1>6 DEF MarkProgress, PcSteady, QueueTypes
  <2>2. started[i]
    BY <1>6 DEF MarkProgress, CopyStarted
  <2>3. RecordsSteady
    BY <1>6, <2>2 DEF MarkProgress, SetStatus, RunningStatus, QueueTypes, RecordsSteady,
                      StatusAgrees, Statuses, Active
  <2> QED BY <1>6, <2>1, <2>3, SteadyStep DEF MarkProgress
<1>7. CASE CopyEnds(i)
  BY <1>7, OtherMoves, SameRecords, SteadyStep DEF CopyEnds
<1>8. CASE CopyCanceled(i)
  BY <1>8, OtherMoves, SameRecords, SteadyStep DEF CopyCanceled
<1>9. CASE RunFails(i)
  BY <1>9, OtherMoves, SameRecords, SteadyStep DEF RunFails
<1>13. CASE PartFails(i)
  <2>1. PcSteady
    BY <1>13 DEF PartFails, PcSteady, QueueTypes
  <2>2. CASE rec[i] \in Active
    <3>1. RecordsSteady
      BY <1>13, <2>2 DEF PartFails, QueueTypes, RecordsSteady, StatusAgrees
    <3> QED BY <1>13, <2>1, <3>1, SteadyStep DEF PartFails
  <2>3. CASE rec[i] \notin Active
    BY <1>13, <2>3 DEF PartFails, QueueTypes, FreshUntouched, CopyStarted, TodoOnlyInLoop,
                       StatusAgrees, ClosedSessionIsQuiet, OneTransferPerPath
  <2> QED BY <2>2, <2>3
<1>10. ASSUME NEW s \in Finished, Mark(i, s), UNCHANGED <<flags, sftp, sess, scenario>>
       PROVE QueueInv'
  <2>1. CASE rec[i] \in Active
    <3>1. SetStatus(i, s) /\ Goto(Task(i), "prune") /\ UNCHANGED started
      BY <1>10, <2>1 DEF Mark, Active
    <3> QED BY <1>10, <2>1, <3>1, OtherMoves, FinishedRecord, SteadyStep
  <2>2. CASE rec[i] = "none"
    <3>1. Goto(Task(i), "prune") /\ UNCHANGED records
      BY <1>10, <2>2 DEF Mark, Active
    <3> QED BY <1>10, <3>1, OtherMoves, SameRecords, SteadyStep
  <2>3. CASE rec[i] \notin Active \cup {"none"}
    <3>1. Goto(Task(i), "done") /\ UNCHANGED records
      BY <1>10, <2>3 DEF Mark
    <3> QED BY <1>10, <3>1, OtherMoves, SameRecords, SteadyStep
  <2> QED BY <2>1, <2>2, <2>3
<1>11. CASE MarkCompleted(i)
  BY <1>10, <1>11 DEF MarkCompleted, Finished
<1>12. CASE MarkFailed(i)
  BY <1>10, <1>12 DEF MarkFailed, Finished
<1> QED BY <1>1, <1>2, <1>3, <1>4, <1>5, <1>6, <1>7, <1>8, <1>9, <1>11, <1>12, <1>13 DEF TaskStep

-----------------------------------------------------------------------------
LEMMA CrashStep == ASSUME QueueInv, Crash PROVE QueueInv'
<1> USE ActorTags DEF Crash, QueueInv
<1>1. /\ \A i \in Ids : rec'[i] = "none" /\ ~paused'[i] /\ ~cancel'[i] /\ ~started'[i]
      /\ \A a \in Actors : pc'[a] \in {"idle", "done"}
      /\ pc'[Close] = "idle" /\ todo' = {}
  OBVIOUS
<1>2. QueueTypes'
  BY DEF QueueTypes, Statuses, Pcs, TaskPcs
<1>3. FreshUntouched' /\ CopyStarted' /\ TodoOnlyInLoop'
  BY <1>1 DEF FreshUntouched, CopyStarted, TodoOnlyInLoop, Working, Active
<1>4. StatusAgrees' /\ ClosedSessionIsQuiet' /\ OneTransferPerPath'
  BY <1>1 DEF StatusAgrees, ClosedSessionIsQuiet, OneTransferPerPath, Active
<1> QED BY <1>2, <1>3, <1>4

LEMMA QueueInit == Init => QueueInv
<1> SUFFICES ASSUME Init PROVE QueueInv
  OBVIOUS
<1> USE ActorTags DEF Init
<1>1. QueueTypes
  BY DEF QueueTypes, Statuses, Pcs, TaskPcs
<1>2. FreshUntouched /\ CopyStarted /\ TodoOnlyInLoop
  BY DEF FreshUntouched, CopyStarted, TodoOnlyInLoop, Working, Active
<1>3. StatusAgrees /\ ClosedSessionIsQuiet /\ OneTransferPerPath
  BY DEF StatusAgrees, ClosedSessionIsQuiet, OneTransferPerPath, Active
<1> QED BY <1>1, <1>2, <1>3 DEF QueueInv

LEMMA QueueStep == QueueInv /\ [Next]_vars => QueueInv'
<1> SUFFICES ASSUME QueueInv, [Next]_vars PROVE QueueInv'
  OBVIOUS
<1>1. ASSUME NEW i \in Ids, StartStep(i) \/ TaskStep(i) PROVE QueueInv'
  BY <1>1, StartSteps, TaskSteps
<1>2. ASSUME NEW c \in Cmds, CmdStep(c) PROVE QueueInv'
  BY <1>2, CmdSteps
<1>3. ASSUME NEW a \in Actors, HistoryStep(a) \/ CancelJoined(a) \/ GraceExpires(a)
      PROVE QueueInv'
  BY <1>3, HistorySteps, JoinSteps
<1>4. CASE OpenSftp \/ CloseSftp \/ CloseCollect \/ CloseCancelNext
  BY <1>4, SessionSteps
<1>5. CASE LoadHistory \/ Crash
  BY <1>5, LoadStep, CrashStep
<1>6. CASE UNCHANGED vars
  <2>1. PcSteady /\ UNCHANGED <<sess, session, live, todo, scenario>>
    BY <1>6 DEF vars, sftp, life, PcSteady, QueueInv, QueueTypes
  <2>2. UNCHANGED <<rec, started, paused, cancel>>
    BY <1>6 DEF vars, records, flags
  <2> QED BY <2>1, <2>2, SameRecords, SteadyStep
<1> QED BY <1>1, <1>2, <1>3, <1>4, <1>5, <1>6 DEF Next

(* QueueInv is inductive.                                                  *)
THEOREM QueueInvariant == Spec => []QueueInv
BY QueueInit, QueueStep, PTL DEF Spec

(* close_sftp leaves no active transfer behind, and start_transfer adds    *)
(* none to a session that is closed.                                       *)
THEOREM ClosedSessionTheorem == Spec => []ClosedSessionIsQuiet
<1>1. QueueInv => ClosedSessionIsQuiet
  BY DEF QueueInv
<1> QED BY <1>1, QueueInvariant, PTL

(* start_transfer and transfer_retry never make two active transfers of    *)
(* one staging path.                                                       *)
THEOREM OnePerPathTheorem == Spec => []OneTransferPerPath
<1>1. QueueInv => OneTransferPerPath
  BY DEF QueueInv
<1> QED BY <1>1, QueueInvariant, PTL

-----------------------------------------------------------------------------
(* Why NoOrphanRecord holds.                                               *)

Ending == {"idle", "prune", "save", "write", "done"}

(* A start that has not inserted its record has its task wait at the gate, *)
(* and who joins a task has made its record final before.                  *)
OwnedTypes ==
  /\ \A i \in Ids : pc[Task(i)] \in TaskPcs /\ pc[Start(i)] \in StartPcs
  /\ target \in [Actors -> Ids \cup {NoId}]
GateWaits == \A i \in Ids : pc[Start(i)] = "insert" => pc[Task(i)] = "gate"
JoinersFinal ==
  \A a \in Actors : pc[a] = "join" =>
    /\ target[a] \in Ids /\ rec[target[a]] \notin Active
    /\ pc[Start(target[a])] \notin {"idle", "insert"}
OwnedInv == OwnedTypes /\ GateWaits /\ JoinersFinal /\ NoOrphanRecord

NoneActivated == \A i \in Ids : rec'[i] \in Active => rec[i] \in Active

(* What a step that moves actor a to p has to respect: it ends a task only *)
(* when the record is final, and moves none that waits at the gate.        *)
MayMove(a, p) ==
  /\ p \notin {"join", "insert"}
  /\ \A i \in Ids : a = Task(i) => /\ p \in TaskPcs /\ pc[a] # "gate"
                                   /\ p \in Ending => rec'[i] \notin Active
  /\ \A i \in Ids : a = Start(i) => p \in StartPcs \ {"idle"}
TargetsKept(a) == target' = target \/ target' = [target EXCEPT ![a] = NoId]

LEMMA OneMoves ==
  ASSUME QueueTypes, OwnedInv, NoneActivated, NEW a \in Actors, NEW p, Goto(a, p),
         MayMove(a, p), TargetsKept(a)
  PROVE OwnedInv'
<1> USE ActorsIn DEF OwnedInv
<1>1. \A b \in Actors : pc'[b] = IF b = a THEN p ELSE pc[b]
  BY DEF Goto, QueueTypes
<1>2. OwnedTypes'
  <2>1. target' \in [Actors -> Ids \cup {NoId}]
    BY DEF OwnedTypes, TargetsKept
  <2>2. ASSUME NEW i \in Ids PROVE pc'[Task(i)] \in TaskPcs /\ pc'[Start(i)] \in StartPcs
    <3>1. Task(i) \in Actors /\ Start(i) \in Actors
      OBVIOUS
    <3>2. pc[Task(i)] \in TaskPcs /\ pc[Start(i)] \in StartPcs
      BY DEF OwnedTypes
    <3>3. (a = Task(i) => p \in TaskPcs) /\ (a = Start(i) => p \in StartPcs)
      BY DEF MayMove
    <3> QED BY <1>1, <3>1, <3>2, <3>3
  <2> QED BY <2>1, <2>2 DEF OwnedTypes
<1>3. GateWaits'
  <2> SUFFICES ASSUME NEW i \in Ids, pc'[Start(i)] = "insert" PROVE pc'[Task(i)] = "gate"
    BY DEF GateWaits
  <2>1. Start(i) # a /\ pc[Start(i)] = "insert"
    BY <1>1 DEF MayMove
  <2>2. pc[Task(i)] = "gate" /\ Task(i) # a
    BY <2>1 DEF GateWaits, MayMove
  <2> QED BY <1>1, <2>2
<1>4. JoinersFinal'
  <2> SUFFICES ASSUME NEW b \in Actors, pc'[b] = "join"
               PROVE /\ target'[b] \in Ids /\ rec'[target'[b]] \notin Active
                     /\ pc'[Start(target'[b])] \notin {"idle", "insert"}
    BY DEF JoinersFinal
  <2>1. b # a /\ pc[b] = "join"
    BY <1>1 DEF MayMove
  <2>2. target'[b] = target[b]
    BY <2>1 DEF OwnedTypes, TargetsKept
  <2>3. /\ target[b] \in Ids /\ rec[target[b]] \notin Active
        /\ pc[Start(target[b])] \notin {"idle", "insert"}
    BY <2>1 DEF JoinersFinal
  <2> QED BY <1>1, <2>2, <2>3 DEF NoneActivated, MayMove
<1>5. NoOrphanRecord'
  <2> SUFFICES ASSUME NEW i \in Ids, rec'[i] \in Active PROVE pc'[Task(i)] \notin Ending
    BY DEF NoOrphanRecord, Ending
  <2>1. pc[Task(i)] \notin Ending
    BY DEF NoOrphanRecord, NoneActivated, Ending
  <2>2. a = Task(i) => p \notin Ending
    BY DEF MayMove
  <2> QED BY <1>1, <2>1, <2>2
<1> QED BY <1>2, <1>3, <1>4, <1>5

(* A step that moves a start and its task.                                 *)
PairGoto(i, s, t) == pc' = [pc EXCEPT ![Start(i)] = s, ![Task(i)] = t]

LEMMA PairMoves ==
  ASSUME QueueTypes, NEW i \in Ids, NEW s, NEW t, s # "join", t # "join", PairGoto(i, s, t)
  PROVE /\ \A j \in Ids : /\ pc'[Start(j)] = IF j = i THEN s ELSE pc[Start(j)]
                          /\ pc'[Task(j)] = IF j = i THEN t ELSE pc[Task(j)]
        /\ \A a \in Actors : pc'[a] = "join" => pc[a] = "join"
<1>1. \A a \in Actors : pc'[a] = IF a = Start(i) THEN s ELSE IF a = Task(i) THEN t ELSE pc[a]
  BY ActorsIn, ActorsDiffer DEF QueueTypes, PairGoto
<1>2. ASSUME NEW j \in Ids
      PROVE /\ pc'[Start(j)] = IF j = i THEN s ELSE pc[Start(j)]
            /\ pc'[Task(j)] = IF j = i THEN t ELSE pc[Task(j)]
  <2>1. Start(j) \in Actors /\ Start(j) # Task(i) /\ (Start(j) = Start(i) <=> j = i)
    BY ActorsIn, ActorsDiffer
  <2>2. Task(j) \in Actors /\ Task(j) # Start(i) /\ (Task(j) = Task(i) <=> j = i)
    BY ActorsIn, ActorsDiffer
  <2> QED BY <1>1, <2>1, <2>2
<1> QED BY <1>1, <1>2

LEMMA SteadyNone == ASSUME RecordsSteady PROVE NoneActivated
BY DEF RecordsSteady, NoneActivated
LEMMA SameNone == ASSUME rec' = rec PROVE NoneActivated
BY DEF NoneActivated
LEMMA RemovedNone == ASSUME QueueTypes, NEW S, RemoveAll(S) PROVE NoneActivated
BY DEF RemoveAll, NoneActivated, QueueTypes, Active

LEMMA OwnedHistory ==
  ASSUME QueueInv, OwnedInv, NEW a \in Actors, HistoryStep(a)
  PROVE OwnedInv'
<1>0. QueueTypes
  BY DEF QueueInv
<1>1. CASE PruneTransferHistory(a)
  <2>1. NoneActivated
    BY <1>0, <1>1, RemovedNone DEF PruneTransferHistory
  <2>2. pc' = [pc EXCEPT ![a] = "save"] /\ target' = target /\ pc[a] = "prune"
    BY <1>1 DEF PruneTransferHistory, Goto
  <2>3. \A i \in Ids : a = Task(i) => rec'[i] \notin Active
    BY <2>1, <2>2 DEF OwnedInv, NoOrphanRecord, NoneActivated
  <2>4. MayMove(a, "save") /\ Goto(a, "save") /\ TargetsKept(a)
    BY <2>2, <2>3 DEF MayMove, TargetsKept, Goto, TaskPcs, StartPcs
  <2> QED BY <1>0, <2>1, <2>4, OneMoves
<1>2. CASE PersistSnapshot(a)
  <2>1. NoneActivated
    BY <1>2, SameNone DEF PersistSnapshot, records
  <2>2. /\ pc' = [pc EXCEPT ![a] = IF pc[a] = "save" THEN "write" ELSE "writeStart"]
        /\ target' = target /\ pc[a] \in {"save", "saveStart"}
    BY <1>2 DEF PersistSnapshot, Goto
  <2>3. \A i \in Ids : a = Task(i) => pc[a] = "save" /\ rec'[i] \notin Active
    BY <2>1, <2>2 DEF OwnedInv, OwnedTypes, NoOrphanRecord, NoneActivated, TaskPcs
  <2> DEFINE p == IF pc[a] = "save" THEN "write" ELSE "writeStart"
  <2>4. MayMove(a, p) /\ Goto(a, p) /\ TargetsKept(a)
    BY <2>2, <2>3 DEF MayMove, TargetsKept, Goto, TaskPcs, StartPcs
  <2> QED BY <1>0, <2>1, <2>4, OneMoves
<1>3. CASE PersistWrite(a)
  <2>1. NoneActivated
    BY <1>3, SameNone DEF PersistWrite, records
  <2> DEFINE p == CASE pc[a] = "writeStart" -> "send"
                    [] a[1] \in {"task", "start"} -> "done"
                    [] OTHER -> "idle"
  <2>2. /\ pc' = [pc EXCEPT ![a] = p]
        /\ target' = [target EXCEPT ![a] = NoId] /\ pc[a] \in {"write", "writeStart"}
    BY <1>3 DEF PersistWrite
  <2>3. \A i \in Ids : a = Task(i) => pc[a] = "write" /\ p = "done" /\ rec'[i] \notin Active
    BY <2>1, <2>2, ActorTags DEF OwnedInv, OwnedTypes, NoOrphanRecord, NoneActivated, TaskPcs
  <2>4. \A i \in Ids : a = Start(i) => p \in {"send", "done"}
    BY ActorTags
  <2>5. p \in {"send", "done", "idle"}
    OBVIOUS
  <2>6. MayMove(a, p) /\ Goto(a, p) /\ TargetsKept(a)
    BY <2>2, <2>3, <2>4, <2>5 DEF MayMove, TargetsKept, Goto, TaskPcs, StartPcs
  <2> QED BY <1>0, <2>1, <2>6, OneMoves
<1> QED BY <1>1, <1>2, <1>3 DEF HistoryStep

LEMMA OwnedStart == ASSUME QueueInv, OwnedInv, NEW i \in Ids, StartStep(i) PROVE OwnedInv'
<1> USE ActorsIn
<1>0. QueueTypes
  BY DEF QueueInv
<1>1. ASSUME NEW r \in Ids \cup {NoId}, StartTransfer(i, r) PROVE OwnedInv'
  <2>1. /\ pc' = [pc EXCEPT ![Start(i)] = "insert", ![Task(i)] = "gate"]
        /\ rec' = rec /\ target' = target /\ pc[Start(i)] = "idle" /\ pc[Task(i)] = "idle"
    BY <1>1 DEF StartTransfer, records
  <2>2. /\ \A j \in Ids : /\ pc'[Start(j)] = IF j = i THEN "insert" ELSE pc[Start(j)]
                          /\ pc'[Task(j)] = IF j = i THEN "gate" ELSE pc[Task(j)]
        /\ \A a \in Actors : pc'[a] = "join" => pc[a] = "join"
    BY <1>0, <2>1, PairMoves DEF PairGoto
  <2>3. OwnedTypes' /\ GateWaits'
    <3>1. "insert" \in StartPcs /\ "gate" \in TaskPcs
      BY DEF TaskPcs, StartPcs
    <3> QED BY <2>1, <2>2, <3>1 DEF OwnedInv, OwnedTypes, GateWaits
  <2>4. JoinersFinal'
    BY <2>1, <2>2 DEF OwnedInv, JoinersFinal
  <2>5. NoOrphanRecord'
    BY <2>1, <2>2 DEF OwnedInv, NoOrphanRecord
  <2> QED BY <2>3, <2>4, <2>5 DEF OwnedInv
<1>2. CASE StartInsert(i) /\ Insertable(i)
  <2>1. /\ rec' = [rec EXCEPT ![i] = "queued"]
        /\ pc' = [pc EXCEPT ![Start(i)] = "saveStart"]
        /\ pc[Start(i)] = "insert" /\ target' = target
    BY <1>2 DEF StartInsert, SetStatus, Goto
  <2>2. /\ \A a \in Actors : pc'[a] = IF a = Start(i) THEN "saveStart" ELSE pc[a]
        /\ \A j \in Ids : /\ pc'[Start(j)] = IF j = i THEN "saveStart" ELSE pc[Start(j)]
                          /\ pc'[Task(j)] = pc[Task(j)]
    BY <1>0, <2>1, ActorsDiffer DEF QueueTypes
  <2>3. pc[Task(i)] = "gate"
    BY <2>1 DEF OwnedInv, GateWaits
  <2>4. OwnedTypes' /\ GateWaits'
    BY <2>1, <2>2 DEF OwnedInv, OwnedTypes, GateWaits, StartPcs
  <2>5. \A a \in Actors : pc'[a] = "join" => pc[a] = "join" /\ target[a] \in Ids /\ target[a] # i
    BY <2>1, <2>2 DEF OwnedInv, JoinersFinal
  <2>6. JoinersFinal'
    BY <1>0, <2>1, <2>2, <2>5 DEF OwnedInv, JoinersFinal, QueueTypes
  <2>7. NoOrphanRecord'
    BY <1>0, <2>1, <2>2, <2>3 DEF OwnedInv, NoOrphanRecord, QueueTypes
  <2> QED BY <2>4, <2>6, <2>7 DEF OwnedInv
<1>3. ASSUME NEW s \in StartPcs \ {"idle", "insert"}, NEW t \in TaskPcs, NoneActivated, target' = target,
             PairGoto(i, s, t),
             t \in Ending => rec'[i] \notin Active
      PROVE OwnedInv'
  <2>1. /\ \A j \in Ids : /\ pc'[Start(j)] = IF j = i THEN s ELSE pc[Start(j)]
                          /\ pc'[Task(j)] = IF j = i THEN t ELSE pc[Task(j)]
        /\ \A a \in Actors : pc'[a] = "join" => pc[a] = "join"
    BY <1>0, <1>3, PairMoves DEF StartPcs, TaskPcs
  <2>2. OwnedTypes' /\ GateWaits'
    BY <1>3, <2>1 DEF OwnedInv, OwnedTypes, GateWaits
  <2>4. JoinersFinal'
    BY <1>3, <2>1 DEF OwnedInv, JoinersFinal, NoneActivated
  <2>5. NoOrphanRecord'
    BY <1>3, <2>1 DEF OwnedInv, NoOrphanRecord, NoneActivated, Ending
  <2> QED BY <2>2, <2>4, <2>5 DEF OwnedInv
<1>4. CASE StartInsert(i) /\ ~Insertable(i)
  <2>1. rec[i] \notin Active
    BY <1>4 DEF StartInsert, QueueInv, FreshUntouched
  <2>2. /\ pc' = [pc EXCEPT ![Start(i)] = "done", ![Task(i)] = "done"]
        /\ rec' = rec /\ target' = target
    BY <1>4 DEF StartInsert, records
  <2> QED BY <1>3, <2>1, <2>2, SameNone DEF StartPcs, TaskPcs, PairGoto
<1>5. CASE StartSend(i) /\ pc[Task(i)] = "gate"
  <2>1. /\ pc' = [pc EXCEPT ![Start(i)] = IF retryOf[i] = NoId THEN "done" ELSE "replace",
                            ![Task(i)] = "check"]
        /\ rec' = rec /\ target' = target
    BY <1>5 DEF StartSend, records
  <2> DEFINE s == IF retryOf[i] = NoId THEN "done" ELSE "replace"
  <2>2. s \in StartPcs \ {"idle", "insert"} /\ "check" \in TaskPcs \ Ending
    BY DEF StartPcs, TaskPcs, Ending
  <2> HIDE DEF s
  <2> QED BY <1>3, <2>1, <2>2, SameNone DEF s, PairGoto
<1>6. CASE (StartSend(i) /\ pc[Task(i)] # "gate") \/ RetryReplace(i)
  <2>1. \E S : RemoveAll(S)
    BY <1>6 DEF StartSend, RetryReplace
  <2>2. pc' = [pc EXCEPT ![Start(i)] = "save"] /\ target' = target
    BY <1>6 DEF StartSend, RetryReplace, Goto
  <2>3. NoneActivated
    BY <1>0, <2>1, RemovedNone
  <2>4. MayMove(Start(i), "save") /\ Goto(Start(i), "save") /\ TargetsKept(Start(i))
    BY <2>2, ActorsDiffer DEF MayMove, TargetsKept, Goto, StartPcs
  <2> QED BY <1>0, <2>3, <2>4, OneMoves
<1> QED BY <1>1, <1>2, <1>4, <1>5, <1>6 DEF StartStep

(* cancel_transfer_in_place: the record is final when the join begins.     *)
LEMMA OwnedCancel ==
  ASSUME QueueInv, OwnedInv, NEW a \in Actors, NEW i \in Ids, CancelInPlace(a, i),
         a[1] \notin {"task", "start"}
  PROVE OwnedInv'
<1> USE ActorTags, ActorsDiffer
<1>0. QueueTypes
  BY DEF QueueInv
<1>1. NoneActivated
  BY CancelRecords, SteadyNone
<1>2. /\ rec[i] \in Active /\ rec' = [rec EXCEPT ![i] = "canceled"]
      /\ pc' = [pc EXCEPT ![a] = "join"] /\ target' = [target EXCEPT ![a] = i]
  BY DEF CancelInPlace, SetStatus
<1>3. \A b \in Actors : pc'[b] = IF b = a THEN "join" ELSE pc[b]
  BY <1>0, <1>2 DEF QueueTypes
<1>4. \A b \in Actors : target'[b] = IF b = a THEN i ELSE target[b]
  BY <1>2 DEF OwnedInv, OwnedTypes
<1>5. OwnedTypes' /\ GateWaits'
  BY <1>2, <1>3 DEF OwnedInv, OwnedTypes, GateWaits
<1>6. rec'[i] \notin Active /\ pc[Start(i)] \notin {"idle", "insert"}
  BY <1>0, <1>2 DEF QueueTypes, QueueInv, FreshUntouched, Active
<1>7. JoinersFinal'
  BY <1>1, <1>3, <1>4, <1>6 DEF OwnedInv, JoinersFinal, NoneActivated
<1>8. NoOrphanRecord'
  BY <1>1, <1>3 DEF OwnedInv, NoOrphanRecord, NoneActivated
<1> QED BY <1>5, <1>7, <1>8 DEF OwnedInv

LEMMA OwnedCmd == ASSUME QueueInv, OwnedInv, NEW c \in Cmds, CmdStep(c) PROVE OwnedInv'
<1> USE ActorTags, ActorsDiffer
<1>0. QueueTypes
  BY DEF QueueInv
<1>1. ASSUME NEW p \in {"save", "prune"}, Goto(Cmd(c), p), target' = target, NoneActivated
      PROVE OwnedInv'
  <2>1. MayMove(Cmd(c), p) /\ TargetsKept(Cmd(c))
    BY <1>1 DEF MayMove, TargetsKept
  <2> QED BY <1>0, <1>1, <2>1, OneMoves
<1>2. ASSUME NEW i \in Ids, TransferPause(c, i) \/ TransferResume(c, i) PROVE OwnedInv'
  <2>1. NoneActivated
    BY <1>0, <1>2 DEF TransferPause, TransferResume, SetStatus, NoneActivated, QueueTypes, Active
  <2> QED BY <1>1, <1>2, <2>1 DEF TransferPause, TransferResume
<1>3. ASSUME NEW i \in Ids, TransferCancel(c, i) PROVE OwnedInv'
  <2>1. CASE CancelInPlace(Cmd(c), i)
    BY <2>1, OwnedCancel
  <2>2. CASE ~CancelInPlace(Cmd(c), i)
    BY <1>1, <1>3, <2>2, SameNone DEF TransferCancel, records
  <2> QED BY <2>1, <2>2
<1>4. ASSUME NEW i \in Ids, TransferRemove(c, i) PROVE OwnedInv'
  BY <1>0, <1>1, <1>4, RemovedNone DEF TransferRemove
<1>5. CASE ClearFinished(c)
  BY <1>0, <1>1, <1>5, RemovedNone DEF ClearFinished
<1> QED BY <1>2, <1>3, <1>4, <1>5 DEF CmdStep

LEMMA OwnedJoin ==
  ASSUME QueueInv, OwnedInv, NEW a \in Actors, CancelJoined(a) \/ GraceExpires(a)
  PROVE OwnedInv'
<1> USE ActorTags, ActorsDiffer
<1>0. QueueTypes
  BY DEF QueueInv
<1>1. \A i \in Ids : a # Task(i) /\ a # Start(i)
  BY DEF OwnedInv, OwnedTypes, TaskPcs, StartPcs, CancelJoined, GraceExpires
<1>2. rec' = rec /\ NoneActivated
  BY SameNone DEF CancelJoined, GraceExpires, records
<1>3. AfterJoin(a) \in {"cancelNext", "prune"}
  BY DEF AfterJoin
<1>4. CASE CancelJoined(a)
  <2>1. pc' = [pc EXCEPT ![a] = AfterJoin(a)] /\ target' = [target EXCEPT ![a] = NoId]
    BY <1>4 DEF CancelJoined, Goto
  <2>2. MayMove(a, AfterJoin(a)) /\ Goto(a, AfterJoin(a)) /\ TargetsKept(a)
    BY <1>1, <1>3, <2>1 DEF MayMove, TargetsKept, Goto
  <2> QED BY <1>0, <1>2, <2>2, OneMoves
<1>5. CASE GraceExpires(a)
  <2> DEFINE t == target[a]
  <2>1. t \in Ids /\ rec[t] \notin Active /\ pc[Start(t)] \notin {"idle", "insert"}
    BY <1>5 DEF GraceExpires, OwnedInv, JoinersFinal
  <2>2. /\ pc' = [pc EXCEPT ![a] = AfterJoin(a), ![Task(t)] = "done"]
        /\ target' = [target EXCEPT ![a] = NoId]
    BY <1>5 DEF GraceExpires
  <2>3. \A b \in Actors : pc'[b] = IF b = Task(t) THEN "done" ELSE IF b = a THEN AfterJoin(a) ELSE pc[b]
    BY <1>0, <1>1, <2>1, <2>2 DEF QueueTypes
  <2>4. OwnedTypes' /\ GateWaits'
    <3>1. ASSUME NEW i \in Ids
          PROVE /\ pc'[Start(i)] = pc[Start(i)]
                /\ pc'[Task(i)] = IF i = t THEN "done" ELSE pc[Task(i)]
      BY <1>1, <2>1, <2>3
    <3>2. "done" \in TaskPcs
      BY DEF TaskPcs
    <3>3. target' \in [Actors -> Ids \cup {NoId}]
      BY <2>2 DEF OwnedInv, OwnedTypes
    <3> QED BY <2>1, <3>1, <3>2, <3>3 DEF OwnedInv, OwnedTypes, GateWaits
  <2>5. \A b \in Actors : pc'[b] = "join" => pc[b] = "join" /\ b # a
    BY <1>3, <2>3
  <2>6. \A b \in Actors : b # a => target'[b] = target[b]
    BY <2>2 DEF OwnedInv, OwnedTypes
  <2>7. JoinersFinal'
    BY <1>1, <1>2, <2>3, <2>5, <2>6 DEF OwnedInv, JoinersFinal
  <2>8. NoOrphanRecord'
    BY <1>1, <1>2, <2>1, <2>3 DEF OwnedInv, NoOrphanRecord
  <2> QED BY <2>4, <2>7, <2>8 DEF OwnedInv
<1> QED BY <1>4, <1>5

LEMMA OwnedSession ==
  ASSUME QueueInv, OwnedInv, OpenSftp \/ CloseSftp \/ CloseCollect \/ CloseCancelNext
  PROVE OwnedInv'
<1> USE ActorTags, ActorsDiffer
<1>0. QueueTypes
  BY DEF QueueInv
<1>1. ASSUME NEW p \in {"collect", "cancelNext", "prune"}, Goto(Close, p), target' = target, rec' = rec
      PROVE OwnedInv'
  <2>1. MayMove(Close, p) /\ TargetsKept(Close)
    BY <1>1 DEF MayMove, TargetsKept
  <2> QED BY <1>0, <1>1, <2>1, SameNone, OneMoves
<1>2. ASSUME UNCHANGED <<pc, target, rec>> PROVE OwnedInv'
  BY <1>2 DEF OwnedInv, OwnedTypes, GateWaits, JoinersFinal, NoOrphanRecord
<1>3. CASE OpenSftp
  BY <1>2, <1>3 DEF OpenSftp, records
<1>4. CASE CloseSftp \/ CloseCollect
  BY <1>1, <1>4 DEF CloseSftp, CloseCollect, records
<1>5. CASE CloseCancelNext
  <2>1. ASSUME NEW i \in todo, CancelInPlace(Close, i) PROVE OwnedInv'
    BY <1>0, <2>1, OwnedCancel DEF QueueTypes
  <2> QED BY <1>1, <1>2, <1>5, <2>1 DEF CloseCancelNext, records
<1> QED BY <1>3, <1>4, <1>5

LEMMA OwnedTask == ASSUME QueueInv, OwnedInv, NEW i \in Ids, TaskStep(i) PROVE OwnedInv'
<1> USE ActorTags, ActorsDiffer
<1>0. QueueTypes
  BY DEF QueueInv
<1>1. ASSUME NEW p \in TaskPcs \ Ending, Goto(Task(i), p), target' = target, pc[Task(i)] # "gate",
             NoneActivated
      PROVE OwnedInv'
  <2>1. MayMove(Task(i), p) /\ TargetsKept(Task(i))
    BY <1>1 DEF MayMove, TargetsKept, TaskPcs
  <2> QED BY <1>0, <1>1, <2>1, OneMoves
<1>2. ASSUME NEW p \in TaskPcs, Goto(Task(i), p), target' = target, pc[Task(i)] # "gate",
             NoneActivated, rec'[i] \notin Active
      PROVE OwnedInv'
  <2>1. MayMove(Task(i), p) /\ TargetsKept(Task(i))
    BY <1>2 DEF MayMove, TargetsKept, TaskPcs
  <2> QED BY <1>0, <1>2, <2>1, OneMoves
<1>3. CASE AcquireCheck(i) \/ AcquireNotified(i) \/ AcquireGrant(i) \/ AcquireRecheck(i)
           \/ CopyEnds(i) \/ CopyCanceled(i) \/ RunFails(i)
  <2>1. NoneActivated /\ target' = target /\ pc[Task(i)] # "gate"
    BY <1>3, SameNone DEF AcquireCheck, AcquireNotified, AcquireGrant, AcquireRecheck, CopyEnds,
                          CopyCanceled, RunFails, records
  <2>2. \E p \in {"fail", "parked", "select", "check", "granted", "open", "finish"} : Goto(Task(i), p)
    BY <1>3 DEF AcquireCheck, AcquireNotified, AcquireGrant, AcquireRecheck, CopyEnds,
                CopyCanceled, RunFails
  <2> QED BY <1>1, <2>1, <2>2 DEF TaskPcs, Ending
<1>4. CASE RunOpens(i) \/ MarkProgress(i)
  <2>1. NoneActivated
    BY <1>0, <1>4 DEF RunOpens, MarkProgress, SetStatus, NoneActivated, QueueTypes, records
  <2>2. target' = target /\ pc[Task(i)] # "gate"
    BY <1>4 DEF RunOpens, MarkProgress
  <2>3. CASE RunOpens(i)
    BY <1>1, <2>1, <2>2, <2>3 DEF RunOpens, TaskPcs, Ending
  <2>4. CASE MarkProgress(i)
    BY <2>1, <2>2, <2>4 DEF MarkProgress, OwnedInv, OwnedTypes, GateWaits, JoinersFinal,
                            NoOrphanRecord, NoneActivated
  <2> QED BY <1>4, <2>3, <2>4
<1>7. CASE PartFails(i)
  BY <1>7 DEF PartFails, records, OwnedInv, OwnedTypes, GateWaits, JoinersFinal, NoOrphanRecord
<1>5. ASSUME NEW s \in Finished, Mark(i, s), target' = target, pc[Task(i)] # "gate"
      PROVE OwnedInv'
  <2>1. NoneActivated /\ rec'[i] \notin Active
    BY <1>0, <1>5 DEF Mark, SetStatus, NoneActivated, QueueTypes, records, Active, Finished
  <2>2. Goto(Task(i), "prune") \/ Goto(Task(i), "done")
    BY <1>5 DEF Mark
  <2> QED BY <1>2, <1>5, <2>1, <2>2 DEF TaskPcs
<1>6. CASE MarkCompleted(i) \/ MarkFailed(i)
  BY <1>5, <1>6 DEF MarkCompleted, MarkFailed, Finished
<1> QED BY <1>3, <1>4, <1>6, <1>7 DEF TaskStep

LEMMA OwnedLoad == ASSUME QueueInv, OwnedInv, LoadHistory \/ Crash PROVE OwnedInv'
<1> USE ActorTags, ActorsDiffer
<1>1. CASE LoadHistory
  <2>1. NoneActivated
    BY <1>1, LoadRecords DEF NoneActivated, Active, Finished
  <2> QED BY <1>1, <2>1 DEF LoadHistory, OwnedInv, OwnedTypes, GateWaits, JoinersFinal,
                            NoOrphanRecord, NoneActivated
<1>2. CASE Crash
  <2>1. /\ \A i \in Ids : rec'[i] \notin Active
        /\ \A a \in Actors : pc'[a] \in {"idle", "done"}
        /\ target' \in [Actors -> {NoId}]
    BY <1>2 DEF Crash, Active
  <2> QED BY <2>1 DEF OwnedInv, OwnedTypes, GateWaits, JoinersFinal, NoOrphanRecord, TaskPcs, StartPcs
<1> QED BY <1>1, <1>2

LEMMA OwnedStep == QueueInv /\ OwnedInv /\ [Next]_vars => OwnedInv'
<1> SUFFICES ASSUME QueueInv, OwnedInv, [Next]_vars PROVE OwnedInv'
  OBVIOUS
<1>1. ASSUME UNCHANGED vars PROVE OwnedInv'
  BY <1>1 DEF vars, records, OwnedInv, OwnedTypes, GateWaits, JoinersFinal, NoOrphanRecord
<1> QED BY <1>1, OwnedHistory, OwnedStart, OwnedCmd, OwnedJoin, OwnedSession, OwnedTask, OwnedLoad
           DEF Next

LEMMA OwnedInit == Init => OwnedInv
BY ActorTags DEF Init, OwnedInv, OwnedTypes, GateWaits, JoinersFinal, NoOrphanRecord, TaskPcs,
                 StartPcs, Active

(* An active record has a task that will end it: no task of start_transfer *)
(* ends before its record is in the map, none is aborted under an active   *)
(* record, and a restart restores none, for any number of transfers.       *)
THEOREM NoOrphanTheorem == Spec => []NoOrphanRecord
<1>1. OwnedInv => NoOrphanRecord
  BY DEF OwnedInv
<1> QED BY <1>1, QueueInit, QueueStep, OwnedInit, OwnedStep, PTL DEF Spec

-----------------------------------------------------------------------------
(* The flag of the cancel of an active record is set only by a part of a   *)
(* copy that failed, and only the end of its task lies ahead of that copy. *)
CancelInv ==
  \A i \in Ids : rec[i] \in Active /\ cancel[i] => pc[Task(i)] \in {"copy", "fail"}

(* A step that sets no such flag and takes no task out of its failing copy.*)
CancelKept ==
  \A i \in Ids : rec'[i] \in Active /\ cancel'[i] =>
    /\ rec[i] \in Active /\ cancel[i]
    /\ pc[Task(i)] \in {"copy", "fail"} => pc'[Task(i)] \in {"copy", "fail"}

LEMMA CancelKeeps == ASSUME CancelInv, CancelKept PROVE CancelInv'
BY DEF CancelInv, CancelKept

(* A step that moves one actor, no task that copies or fails.              *)
LEMMA CancelMoves ==
  ASSUME QueueTypes, NEW a \in Actors, NEW p, Goto(a, p), cancel' = cancel, NoneActivated,
         \A i \in Ids : a # Task(i) \/ pc[a] \notin {"copy", "fail"}
  PROVE  CancelKept
BY ActorsIn DEF QueueTypes, Goto, NoneActivated, CancelKept

LEMMA CancelHistory ==
  ASSUME QueueInv, NEW a \in Actors, HistoryStep(a)
  PROVE  CancelKept
<1>0. QueueTypes BY DEF QueueInv
<1>1. cancel' = cancel
  BY DEF HistoryStep, PruneTransferHistory, PersistSnapshot, PersistWrite, flags
<1>2. NoneActivated
  BY <1>0, RemovedNone, SameNone DEF HistoryStep, PruneTransferHistory, PersistSnapshot,
     PersistWrite, records
<1>3. pc[a] \notin {"copy", "fail"} /\ \E p : pc' = [pc EXCEPT ![a] = p]
  BY DEF HistoryStep, PruneTransferHistory, PersistSnapshot, PersistWrite, Goto
<1> QED BY <1>0, <1>1, <1>2, <1>3, CancelMoves DEF Goto

LEMMA CancelStart ==
  ASSUME QueueInv, OwnedInv, NEW i \in Ids, StartStep(i)
  PROVE  CancelKept
<1> USE ActorsIn, ActorsDiffer
<1>0. QueueTypes BY DEF QueueInv
<1>1. cancel' = cancel
  BY DEF StartStep, StartTransfer, StartInsert, StartSend, RetryReplace, flags
<1>2. ASSUME NEW j \in Ids, rec'[j] \in Active, cancel[j] PROVE rec[j] \in Active
  <2>1. CASE StartInsert(i)
    <3>1. rec' = rec \/ (rec' = [rec EXCEPT ![i] = "queued"] /\ pc[Start(i)] = "insert")
      BY <2>1 DEF StartInsert, SetStatus, records
    <3>2. pc[Start(i)] = "insert" => ~cancel[i] BY DEF QueueInv, FreshUntouched
    <3> QED BY <1>0, <1>2, <3>1, <3>2 DEF QueueTypes
  <2>2. CASE ~StartInsert(i)
    <3>1. rec' = rec \/ \E S : RemoveAll(S)
      BY <2>2 DEF StartStep, StartTransfer, StartSend, RetryReplace, records
    <3> QED BY <1>0, <1>2, <3>1, RemovedNone DEF NoneActivated
  <2> QED BY <2>1, <2>2
<1>3. ASSUME NEW j \in Ids, pc[Task(j)] \in {"copy", "fail"}, rec'[j] \in Active, cancel[j]
      PROVE  pc'[Task(j)] = pc[Task(j)]
  <2>1. CASE \E r \in Ids \cup {NoId} : StartTransfer(i, r)
    BY <1>0, <1>3, <2>1 DEF StartTransfer, QueueTypes
  <2>2. CASE StartInsert(i)
    <3>1. pc[Task(i)] = "gate" BY <2>2 DEF StartInsert, OwnedInv, GateWaits
    <3>2. j # i BY <1>3, <3>1
    <3> QED BY <1>0, <2>2, <3>2 DEF StartInsert, QueueTypes, Goto
  <2>3. CASE StartSend(i)
    BY <1>0, <1>3, <2>3 DEF StartSend, QueueTypes, Goto
  <2>4. CASE RetryReplace(i)
    BY <1>0, <2>4 DEF RetryReplace, QueueTypes, Goto
  <2> QED BY <2>1, <2>2, <2>3, <2>4 DEF StartStep
<1> QED BY <1>1, <1>2, <1>3 DEF CancelKept

(* A cancel makes the record final with the flag.                          *)
LEMMA CancelCanceled ==
  ASSUME QueueTypes, NEW a \in Actors \ {Task(i) : i \in Ids}, NEW i \in Ids, CancelInPlace(a, i)
  PROVE  CancelKept
<1>1. \A j \in Ids : pc'[Task(j)] = pc[Task(j)]
  BY ActorsIn DEF CancelInPlace, QueueTypes
<1>2. /\ rec'[i] = "canceled"
      /\ \A j \in Ids : j # i => rec'[j] = rec[j] /\ cancel'[j] = cancel[j]
  BY DEF CancelInPlace, SetStatus, QueueTypes
<1> QED BY <1>1, <1>2 DEF CancelKept, Active

LEMMA CancelCmd ==
  ASSUME QueueInv, NEW c \in Cmds, CmdStep(c)
  PROVE  CancelKept
<1> USE ActorsIn, ActorsDiffer
<1>0. QueueTypes BY DEF QueueInv
<1>1. CASE \E i \in Ids : TransferCancel(c, i) /\ CancelInPlace(Cmd(c), i)
  BY <1>0, <1>1, CancelCanceled
<1>2. CASE ~\E i \in Ids : TransferCancel(c, i) /\ CancelInPlace(Cmd(c), i)
  <2>1. cancel' = cancel /\ \E p : Goto(Cmd(c), p)
    BY <1>2 DEF CmdStep, TransferPause, TransferResume, TransferCancel, TransferRemove, ClearFinished,
                flags
  <2>2. NoneActivated
    <3>1. \/ rec' = rec \/ \E S : RemoveAll(S)
          \/ \E i \in Ids : \E s : rec[i] \in Active /\ SetStatus(i, s)
      BY <1>2 DEF CmdStep, TransferPause, TransferResume, TransferCancel, TransferRemove,
                  ClearFinished, Active, records
    <3> QED BY <1>0, <3>1, RemovedNone, SameNone DEF SetStatus, NoneActivated, QueueTypes
  <2> QED BY <1>0, <2>1, <2>2, CancelMoves
<1> QED BY <1>1, <1>2

LEMMA CancelJoin ==
  ASSUME QueueInv, OwnedInv, NEW a \in Actors, CancelJoined(a) \/ GraceExpires(a)
  PROVE  CancelKept
<1> USE ActorsIn, ActorsDiffer
<1>0. QueueTypes BY DEF QueueInv
<1>1. cancel' = cancel /\ rec' = rec /\ pc[a] = "join"
  BY DEF CancelJoined, GraceExpires, records, flags
<1>2. target[a] \in Ids /\ rec[target[a]] \notin Active
  BY <1>1 DEF OwnedInv, JoinersFinal
<1>3. ASSUME NEW j \in Ids, rec[j] \in Active, pc[Task(j)] \in {"copy", "fail"}
      PROVE  pc'[Task(j)] = pc[Task(j)]
  <2>1. j # target[a] /\ Task(j) # a BY <1>1, <1>2, <1>3
  <2>2. Task(j) # Task(target[a]) BY <1>2, <2>1
  <2> QED BY <1>0, <2>1, <2>2 DEF CancelJoined, GraceExpires, Goto, QueueTypes
<1> QED BY <1>1, <1>3 DEF CancelKept

LEMMA CancelSession ==
  ASSUME QueueInv, OpenSftp \/ CloseSftp \/ CloseCollect \/ CloseCancelNext
  PROVE  CancelKept
<1> USE ActorsIn, ActorsDiffer
<1>0. QueueTypes BY DEF QueueInv
<1>1. CASE \E i \in todo : CancelInPlace(Close, i)
  <2>1. Close \in Actors \ {Task(i) : i \in Ids} OBVIOUS
  <2> QED BY <1>0, <1>1, <2>1, CancelCanceled DEF QueueTypes
<1>2. CASE ~\E i \in todo : CancelInPlace(Close, i)
  <2>1. cancel' = cancel /\ rec' = rec /\ (pc' = pc \/ \E p : Goto(Close, p))
    BY <1>2 DEF OpenSftp, CloseSftp, CloseCollect, CloseCancelNext, records, flags
  <2> QED BY <1>0, <2>1 DEF CancelKept, Goto, QueueTypes
<1> QED BY <1>1, <1>2

LEMMA CancelTask ==
  ASSUME QueueInv, CancelInv, NEW i \in Ids, TaskStep(i)
  PROVE  CancelInv'
<1> USE ActorsIn, ActorsDiffer
<1>0. QueueTypes BY DEF QueueInv
<1>1. CASE PartFails(i)
  BY <1>0, <1>1 DEF PartFails, records, QueueTypes, CancelInv
<1>2. CASE CopyCanceled(i) \/ RunFails(i)
  <2>1. rec' = rec /\ cancel' = cancel /\ Goto(Task(i), "fail")
    BY <1>2 DEF CopyCanceled, RunFails, records, flags
  <2> QED BY <1>0, <2>1 DEF CancelInv, Goto, QueueTypes
<1>3. CASE CopyEnds(i)
  <2>1. rec' = rec /\ cancel' = cancel /\ Goto(Task(i), "finish") /\ ~cancel[i]
    BY <1>3 DEF CopyEnds, records, flags
  <2> QED BY <1>0, <2>1 DEF CancelInv, Goto, QueueTypes
<1>4. CASE MarkProgress(i)
  <2>1. cancel' = cancel /\ pc' = pc /\ NoneActivated
    BY <1>0, <1>4 DEF MarkProgress, SetStatus, NoneActivated, QueueTypes, flags
  <2> QED BY <2>1 DEF CancelInv, NoneActivated
<1>5. CASE AcquireCheck(i) \/ AcquireNotified(i) \/ AcquireGrant(i) \/ AcquireRecheck(i)
           \/ RunOpens(i)
  <2>1. cancel' = cancel /\ pc[Task(i)] \notin {"copy", "fail"} /\ \E p : Goto(Task(i), p)
    BY <1>5 DEF AcquireCheck, AcquireNotified, AcquireGrant, AcquireRecheck, RunOpens, flags
  <2>2. NoneActivated
    BY <1>0, <1>5 DEF AcquireCheck, AcquireNotified, AcquireGrant, AcquireRecheck, RunOpens,
                      SetStatus, NoneActivated, QueueTypes, records
  <2> QED BY <1>0, <2>1, <2>2, CancelMoves, CancelKeeps
<1>6. CASE MarkCompleted(i) \/ MarkFailed(i)
  <2>1. cancel' = cancel /\ \E s \in Finished : Mark(i, s)
    BY <1>6 DEF MarkCompleted, MarkFailed, Finished, flags
  <2>2. rec'[i] \notin Active /\ \A j \in Ids : j # i => rec'[j] = rec[j]
    BY <1>0, <2>1 DEF Mark, SetStatus, QueueTypes, records, Active, Finished
  <2>3. \A j \in Ids : j # i => pc'[Task(j)] = pc[Task(j)]
    BY <1>0, <2>1 DEF Mark, Goto, QueueTypes
  <2> QED BY <2>1, <2>2, <2>3 DEF CancelInv
<1> QED BY <1>1, <1>2, <1>3, <1>4, <1>5, <1>6 DEF TaskStep

LEMMA CancelStep == QueueInv /\ OwnedInv /\ CancelInv /\ [Next]_vars => CancelInv'
<1> SUFFICES ASSUME QueueInv, OwnedInv, CancelInv, [Next]_vars PROVE CancelInv'
  OBVIOUS
<1>1. CASE LoadHistory \/ Crash
  <2>1. \A i \in Ids : rec'[i] \notin Active
    BY <1>1, LoadRecords DEF Crash, Active, Finished
  <2> QED BY <2>1 DEF CancelInv
<1>2. CASE UNCHANGED vars
  BY <1>2 DEF vars, records, flags, CancelInv
<1> QED BY <1>1, <1>2, CancelHistory, CancelStart, CancelCmd, CancelJoin, CancelSession, CancelTask,
           CancelKeeps DEF Next

(* For any number of transfers, commands and sessions: the status shown    *)
(* for an active transfer agrees with the flags its task reads, whatever   *)
(* order pause, resume, cancel, the marks of the task and failing parts    *)
(* came in.                                                                *)
THEOREM StatusTellsFlagsTheorem == Spec => []StatusTellsFlags
<1>1. Init => CancelInv
  BY DEF Init, CancelInv, Active
<1>2. QueueInv /\ CancelInv => StatusTellsFlags
  BY DEF QueueInv, StatusAgrees, CancelInv, StatusTellsFlags
<1> QED BY <1>1, <1>2, QueueInit, QueueStep, OwnedInit, OwnedStep, CancelStep, PTL DEF Spec

-----------------------------------------------------------------------------
(* Why HistorySettled holds.                                               *)

Writing == {"write", "writeStart"}
Due == Saving \ Writing

(* The order of the records names each of them once.                       *)
Listed ==
  /\ recent \in Seq(Ids) /\ IsInjective(recent)
  /\ Range(recent) = {i \in Ids : rec[i] # "none"}

(* A file, or a snapshot, has one status of a transfer.                    *)
Entered(X) ==
  /\ X \subseteq Ids \X (Active \cup Finished)
  /\ \A e, f \in X : e[1] = f[1] => e[2] = f[2]

(* A restart from X would restore what memory holds.                       *)
Match(X) ==
  /\ \A e \in X : Normalized(e[2]) = Normalized(rec[e[1]])
  /\ Len(recent) <= MaxHistory => {e[1] : e \in X} = Range(recent)

(* Before the history is loaded nothing goes on.                           *)
Quiet ==
  ~loaded => /\ ~live /\ \A a \in Actors : pc[a] \in {"idle", "done"}
             /\ \A i \in Ids : rec[i] = "none"

OneWriter == \A a \in Actors : pc[a] \in Writing => writer = a

(* Someone has a snapshot to take, or someone writes one that is still     *)
(* right, or the file is right unless the last write failed.               *)
Settling ==
  loaded => \/ \E a \in Actors : pc[a] \in Due
            \/ (\E a \in Actors : pc[a] \in Writing) /\ Match(view)
            \/ (\A a \in Actors : pc[a] \notin Writing) /\ (fileOk => Match(file))

SettledInv ==
  /\ scenario \in Scenarios /\ Listed /\ Entered(file) /\ Entered(view)
  /\ Quiet /\ OneWriter /\ Settling

-----------------------------------------------------------------------------
(* What Without keeps.                                                     *)

(* A set of numbers has a least one; induction over sequences rests on it. *)
LEMMA Least ==
  ASSUME NEW S \in SUBSET Nat, S # {}
  PROVE  \E x \in S : \A y \in S : x <= y
<1> DEFINE R == {ss \in Nat \X Nat : ss[1] < ss[2]}
<1>1. IsWellFoundedOn(R, Nat) BY NatLessThanWellFounded, Zenon DEF OpToRel
<1>2. PICK x \in S : \A y \in S : ~(<<y, x>> \in R)
  <2> HIDE DEF R
  <2> QED BY <1>1, WFMin
<1>3. ASSUME NEW y \in S PROVE x <= y
  <2>1. ~(<<y, x>> \in R) BY <1>2
  <2>2. <<y, x>> \in Nat \X Nat OBVIOUS
  <2> QED BY <2>1, <2>2
<1> QED BY <1>3

(* u is the table of kept, up to n.                                        *)
KeptUpto(s, S, n, u) ==
  /\ u \in [0..n -> Seq(Ids)] /\ u[0] = <<>>
  /\ \A k \in 1..n : u[k] = IF s[k] \in S THEN u[k - 1] ELSE Append(u[k - 1], s[k])

LEMMA KeptExists ==
  ASSUME NEW s \in Seq(Ids), NEW S
  PROVE  \E u : KeptUpto(s, S, Len(s), u)
<1> DEFINE N == {n \in Nat : n <= Len(s) /\ ~\E u : KeptUpto(s, S, n, u)}
<1>0. Len(s) \in Nat OBVIOUS
<1>1. \A n \in Nat : n <= Len(s) /\ n \notin N => \E u : KeptUpto(s, S, n, u) OBVIOUS
<1>2. SUFFICES N = {} BY <1>0, <1>1
<1>3. SUFFICES ASSUME N # {} PROVE FALSE OBVIOUS
<1>4. \A n \in N : n \in Nat /\ n <= Len(s) /\ ~\E u : KeptUpto(s, S, n, u) OBVIOUS
<1>5. N \in SUBSET Nat OBVIOUS
<1> HIDE DEF N
<1>6. PICK n \in N : \A m \in N : n <= m BY <1>3, <1>5, Least
<1>7. n \in Nat /\ n <= Len(s) /\ ~\E u : KeptUpto(s, S, n, u) BY <1>4
<1>8. CASE n = 0
  <2>1. KeptUpto(s, S, 0, [k \in 0..0 |-> <<>>]) BY DEF KeptUpto
  <2> QED BY <1>7, <1>8, <2>1
<1>9. CASE n # 0
  <2>1. n - 1 \in Nat /\ n - 1 <= Len(s) BY <1>0, <1>7, <1>9
  <2>2. n - 1 \notin N BY <1>6, <1>7
  <2>3. PICK u : KeptUpto(s, S, n - 1, u) BY <1>1, <2>1, <2>2
  <2> DEFINE new == IF s[n] \in S THEN u[n - 1] ELSE Append(u[n - 1], s[n])
             w == [k \in 0..n |-> IF k = n THEN new ELSE u[k]]
  <2>4. s[n] \in Ids BY <1>7, <1>9
  <2>5. u[n - 1] \in Seq(Ids) /\ \A k \in 0..(n - 1) : u[k] \in Seq(Ids)
    <3>1. u \in [0..(n - 1) -> Seq(Ids)] BY <2>3 DEF KeptUpto
    <3>2. n - 1 \in 0..(n - 1) BY <2>1
    <3> QED BY <3>1, <3>2
  <2>6. new \in Seq(Ids) BY <2>4, <2>5
  <2>7. new = IF s[n] \in S THEN u[n - 1] ELSE Append(u[n - 1], s[n]) OBVIOUS
  <2> HIDE DEF new
  <2>8. w \in [0..n -> Seq(Ids)]
    <3>1. \A k \in 0..n : k # n => k \in 0..(n - 1) BY <1>7
    <3> QED BY <2>5, <2>6, <3>1
  <2>9. w[0] = <<>> BY <1>7, <1>9, <2>3 DEF KeptUpto
  <2>10. ASSUME NEW k \in 1..n
         PROVE  w[k] = IF s[k] \in S THEN w[k - 1] ELSE Append(w[k - 1], s[k])
    <3>1. k \in 0..n /\ k - 1 \in 0..n /\ k - 1 # n BY <1>7
    <3>2. w[k - 1] = u[k - 1] BY <3>1
    <3>3. CASE k = n BY <2>7, <3>1, <3>2, <3>3
    <3>4. CASE k # n
      <4>1. k \in 1..(n - 1) BY <1>7, <3>4
      <4>2. u[k] = IF s[k] \in S THEN u[k - 1] ELSE Append(u[k - 1], s[k])
        BY <2>3, <4>1 DEF KeptUpto
      <4> QED BY <3>1, <3>2, <3>4, <4>2
    <3> QED BY <3>3, <3>4
  <2> HIDE DEF w
  <2>11. KeptUpto(s, S, n, w) BY <2>8, <2>9, <2>10 DEF KeptUpto
  <2> QED BY <1>7, <2>11
<1> QED BY <1>8, <1>9

LEMMA AppendFresh ==
  ASSUME NEW q \in Seq(Ids), IsInjective(q), NEW x \in Ids, x \notin Range(q)
  PROVE  /\ Append(q, x) \in Seq(Ids) /\ IsInjective(Append(q, x))
         /\ Range(Append(q, x)) = Range(q) \cup {x}
<1> DEFINE r == Append(q, x)
           L == Len(q)
<1>1. /\ L \in Nat /\ r \in Seq(Ids) /\ DOMAIN r = 1..(L + 1) /\ DOMAIN q = 1..L
      /\ r[L + 1] = x /\ \A k \in 1..L : r[k] = q[k]
  OBVIOUS
<1> HIDE DEF r, L
<1>2. \A k \in 1..(L + 1) : k = L + 1 \/ k \in 1..L BY <1>1
<1>3. \A k \in 1..L : k \in 1..(L + 1) BY <1>1
<1>4. L + 1 \in 1..(L + 1) BY <1>1
<1>5. IsInjective(r) BY <1>1, <1>2 DEF IsInjective, Range
<1>6. Range(r) = Range(q) \cup {x}
  <2>1. Range(r) \subseteq Range(q) \cup {x} BY <1>1, <1>2 DEF Range
  <2>2. Range(q) \cup {x} \subseteq Range(r) BY <1>1, <1>3, <1>4 DEF Range
  <2> QED BY <2>1, <2>2
<1> QED BY <1>1, <1>5, <1>6 DEF r

(* Without keeps the elements that are not in S, each once.                *)
LEMMA WithoutKeeps ==
  ASSUME NEW s \in Seq(Ids), IsInjective(s), NEW S
  PROVE  /\ Without(s, S) \in Seq(Ids) /\ IsInjective(Without(s, S))
         /\ Range(Without(s, S)) = Range(s) \ S
<1> DEFINE L == Len(s)
           F(u) == [k \in 0..L |-> IF k = 0 THEN <<>>
                                   ELSE IF s[k] \in S THEN u[k - 1] ELSE Append(u[k - 1], s[k])]
<1>0. L \in Nat /\ DOMAIN s = 1..L /\ \A k \in 1..L : s[k] \in Ids OBVIOUS
<1>1. PICK u : KeptUpto(s, S, L, u) BY KeptExists
<1>2. u = F(u)
  <2>1. \A k \in 0..L : u[k] = IF k = 0 THEN <<>>
                               ELSE IF s[k] \in S THEN u[k - 1] ELSE Append(u[k - 1], s[k])
    <3> SUFFICES ASSUME NEW k \in 0..L
                 PROVE  u[k] = IF k = 0 THEN <<>>
                               ELSE IF s[k] \in S THEN u[k - 1] ELSE Append(u[k - 1], s[k])
      OBVIOUS
    <3> HIDE DEF L
    <3>1. CASE k = 0 BY <1>1, <3>1 DEF KeptUpto
    <3>2. CASE k # 0
      <4>1. k \in 1..L BY <1>0, <3>2
      <4> QED BY <1>1, <3>2, <4>1 DEF KeptUpto
    <3> QED BY <3>1, <3>2
  <2>2. DOMAIN u = 0..L /\ u = [k \in DOMAIN u |-> u[k]] BY <1>1 DEF KeptUpto
  <2> QED BY <2>1, <2>2
<1>3. PICK w : w = F(w) /\ Without(s, S) = w[L] BY <1>2 DEF Without
<1> HIDE DEF L
<1> DEFINE Seen(n) == {s[k] : k \in 1..n}
           Good(n) == /\ w[n] \in Seq(Ids) /\ IsInjective(w[n])
                      /\ Range(w[n]) = Seen(n) \ S
           N == {n \in Nat : n <= L /\ ~Good(n)}
<1>4. N = {}
  <2> SUFFICES ASSUME N # {} PROVE FALSE OBVIOUS
  <2>1. \A n \in Nat : n <= L /\ n \notin N => Good(n) OBVIOUS
  <2>2. \A n \in N : n \in Nat /\ n <= L /\ ~Good(n) OBVIOUS
  <2>3. N \in SUBSET Nat OBVIOUS
  <2> HIDE DEF N
  <2>4. PICK n \in N : \A m \in N : n <= m BY <2>3, Least
  <2>5. n \in 0..L /\ n \in Nat /\ ~Good(n) BY <1>0, <2>2
  <2>6. w[n] = IF n = 0 THEN <<>>
               ELSE IF s[n] \in S THEN w[n - 1] ELSE Append(w[n - 1], s[n]) BY <1>3, <2>5
  <2>7. CASE n = 0
    <3>1. w[n] = <<>> BY <2>6, <2>7
    <3>2. <<>> \in Seq(Ids) /\ IsInjective(<<>>) /\ Range(<<>>) = {} BY DEF IsInjective, Range
    <3>3. Seen(n) = {} BY <2>7
    <3> QED BY <2>5, <3>1, <3>2, <3>3
  <2>8. CASE n # 0
    <3>1. n - 1 \in Nat /\ n - 1 <= L /\ n \in 1..L BY <1>0, <2>5, <2>8
    <3>2. n - 1 \notin N BY <2>4, <2>5
    <3>3. Good(n - 1) BY <2>1, <3>1, <3>2
    <3>4. Seen(n) = Seen(n - 1) \cup {s[n]}
      <4>1. \A k \in 1..n : k = n \/ k \in 1..(n - 1) BY <2>5
      <4>2. n \in 1..n /\ \A k \in 1..(n - 1) : k \in 1..n BY <2>5, <2>8
      <4> QED BY <4>1, <4>2
    <3>5. s[n] \notin Seen(n - 1)
      <4>1. \A k \in 1..(n - 1) : k \in 1..L /\ k # n BY <1>0, <3>1
      <4> QED BY <1>0, <3>1, <4>1 DEF IsInjective
    <3> HIDE DEF Seen
    <3>6. CASE s[n] \in S
      <4>1. w[n] = w[n - 1] BY <2>6, <2>8, <3>6
      <4>2. Seen(n) \ S = Seen(n - 1) \ S BY <3>4, <3>6
      <4> QED BY <2>5, <3>3, <4>1, <4>2
    <3>7. CASE s[n] \notin S
      <4>1. w[n] = Append(w[n - 1], s[n]) BY <2>6, <2>8, <3>7
      <4>2. Seen(n) \ S = (Seen(n - 1) \ S) \cup {s[n]} BY <3>4, <3>7
      <4>3. s[n] \in Ids /\ s[n] \notin Range(w[n - 1]) BY <1>0, <3>1, <3>3, <3>5
      <4>4. /\ Append(w[n - 1], s[n]) \in Seq(Ids) /\ IsInjective(Append(w[n - 1], s[n]))
            /\ Range(Append(w[n - 1], s[n])) = Range(w[n - 1]) \cup {s[n]}
        BY <3>3, <4>3, AppendFresh
      <4> QED BY <2>5, <3>3, <4>1, <4>2, <4>4
    <3> QED BY <3>6, <3>7
  <2> QED BY <2>7, <2>8
<1>5. Good(L)
  <2>1. \A n \in Nat : n <= L /\ n \notin N => Good(n) OBVIOUS
  <2> HIDE DEF N, Good
  <2> QED BY <1>0, <1>4, <2>1
<1>6. Seen(L) = Range(s) BY <1>0 DEF Range
<1> QED BY <1>3, <1>5, <1>6

(* Two orders of the same records are equally long.                        *)
LEMMA SameLength ==
  ASSUME NEW s \in Seq(Ids), NEW t \in Seq(Ids), IsInjective(s), IsInjective(t),
         Range(s) = Range(t)
  PROVE  Len(s) = Len(t)
<1>1. ASSUME NEW q \in Seq(Ids), IsInjective(q) PROVE Cardinality(Range(q)) = Len(q)
  <2>1. Len(q) \in Nat /\ DOMAIN q = 1..Len(q) OBVIOUS
  <2>2. q \in [1..Len(q) -> Range(q)] BY <2>1 DEF Range
  <2>3. q \in Bijection(1..Len(q), Range(q))
    BY <1>1, <2>1, <2>2 DEF Bijection, Injection, Surjection, IsInjective, Range
  <2>4. ExistsBijection(1..Len(q), Range(q)) BY <2>3 DEF ExistsBijection
  <2> QED BY <2>1, <2>4, FS_CountingElements
<1> QED BY <1>1

LEMMA ListedRemove ==
  ASSUME QueueTypes, Listed, NEW S, RemoveAll(S)
  PROVE  Listed'
<1>1. /\ recent' \in Seq(Ids) /\ IsInjective(recent') /\ Range(recent') = Range(recent) \ S
  BY WithoutKeeps DEF Listed, RemoveAll
<1>2. \A i \in Ids : rec'[i] = IF i \in S THEN "none" ELSE rec[i] BY DEF RemoveAll
<1>3. {i \in Ids : rec'[i] # "none"} = {i \in Ids : rec[i] # "none"} \ S BY <1>2
<1> QED BY <1>1, <1>3 DEF Listed

LEMMA ListedSet ==
  ASSUME QueueTypes, Listed, NEW i \in Ids, NEW s \in Active \cup Finished, SetStatus(i, s)
  PROVE  Listed' /\ (rec[i] # "none" => Range(recent') = Range(recent) /\ Len(recent') = Len(recent))
<1> DEFINE q == Without(recent, {i})
<1>1. recent \in Seq(Ids) /\ IsInjective(recent) BY DEF Listed
<1>2. /\ q \in Seq(Ids) /\ IsInjective(q) /\ Range(q) = Range(recent) \ {i}
  BY <1>1, WithoutKeeps
<1>3. recent' = Append(q, i) BY DEF SetStatus, Touched
<1> HIDE DEF q
<1>4. /\ recent' \in Seq(Ids) /\ IsInjective(recent') /\ Range(recent') = Range(recent) \cup {i}
  BY <1>2, <1>3, AppendFresh
<1>5. \A j \in Ids : rec'[j] = IF j = i THEN s ELSE rec[j] BY DEF SetStatus, QueueTypes
<1>6. {j \in Ids : rec'[j] # "none"} = {j \in Ids : rec[j] # "none"} \cup {i}
  BY <1>5 DEF Active, Finished
<1>7. Listed' BY <1>4, <1>6 DEF Listed
<1>8. rec[i] # "none" => Range(recent') = Range(recent) BY <1>4 DEF Listed
<1> QED BY <1>1, <1>4, <1>7, <1>8, SameLength

-----------------------------------------------------------------------------
(* The steps that do not touch the history.                                *)

NoneWrites == \A a \in Actors : pc'[a] \in Writing => pc[a] \in Writing

(* A step after which someone has a snapshot to take.                      *)
LEMMA DueStep ==
  ASSUME SettledInv, loaded, UNCHANGED <<disk, loaded, scenario>>, Listed', NoneWrites,
         NEW a \in Actors, pc'[a] \in Due
  PROVE  SettledInv'
<1>1. UNCHANGED <<writer, view, file, fileOk, loaded, scenario>> BY DEF disk
<1>2. Entered(file)' /\ Entered(view)' BY <1>1 DEF SettledInv, Entered
<1>3. Quiet' BY <1>1 DEF Quiet
<1>4. OneWriter' BY <1>1 DEF SettledInv, OneWriter, NoneWrites
<1>5. Settling' BY DEF Settling
<1> QED BY <1>1, <1>2, <1>3, <1>4, <1>5 DEF SettledInv

(* A step that leaves all that a restart would restore, and all who save.  *)
Restored ==
  /\ \A i \in Ids : Normalized(rec'[i]) = Normalized(rec[i])
  /\ Range(recent') = Range(recent) /\ Len(recent') = Len(recent)
SaversKept ==
  \A a \in Actors : /\ pc[a] \in Due => pc'[a] \in Due
                    /\ pc'[a] \in Writing <=> pc[a] \in Writing

LEMMA KeepStep ==
  ASSUME SettledInv, loaded, UNCHANGED <<disk, loaded, scenario>>, Listed', Restored, SaversKept
  PROVE  SettledInv'
<1>1. UNCHANGED <<writer, view, file, fileOk, loaded, scenario>> BY DEF disk
<1>2. Entered(file)' /\ Entered(view)' BY <1>1 DEF SettledInv, Entered
<1>3. Quiet' BY <1>1 DEF Quiet
<1>4. OneWriter' BY <1>1 DEF SettledInv, OneWriter, SaversKept
<1>5. ASSUME NEW X, Entered(X), Match(X)
      PROVE  /\ \A e \in X : Normalized(e[2]) = Normalized(rec'[e[1]])
             /\ Len(recent') <= MaxHistory' => {e[1] : e \in X} = Range(recent')
  <2>1. \A e \in X : e[1] \in Ids BY <1>5 DEF Entered
  <2>2. MaxHistory' = MaxHistory BY <1>1 DEF MaxHistory
  <2> QED BY <1>5, <2>1, <2>2 DEF Match, Restored
<1>6. (Match(view) => Match(view)') /\ (Match(file) => Match(file)')
  <2>1. Entered(view) /\ Entered(file) BY DEF SettledInv
  <2>2. ASSUME Match(view) PROVE Match(view)' BY <1>1, <1>5, <2>1, <2>2 DEF Match
  <2>3. ASSUME Match(file) PROVE Match(file)' BY <1>1, <1>5, <2>1, <2>3 DEF Match
  <2> QED BY <2>2, <2>3
<1>7. Settling'
  <2>1. Settling BY DEF SettledInv
  <2>2. CASE \E a \in Actors : pc[a] \in Due BY <2>2 DEF SaversKept, Settling
  <2>3. CASE (\E a \in Actors : pc[a] \in Writing) /\ Match(view)
    BY <1>6, <2>3 DEF SaversKept, Settling
  <2>4. CASE (\A a \in Actors : pc[a] \notin Writing) /\ (fileOk => Match(file))
    BY <1>1, <1>6, <2>4 DEF SaversKept, Settling
  <2> QED BY <2>1, <2>2, <2>3, <2>4 DEF Settling
<1> QED BY <1>1, <1>2, <1>3, <1>4, <1>7 DEF SettledInv

LEMMA SameRestored ==
  ASSUME Listed, UNCHANGED <<rec, recent>>
  PROVE  Listed' /\ Restored
BY DEF Listed, Restored

(* An active record stays active: a restart would restore it as canceled.  *)
LEMMA ActiveRestored ==
  ASSUME QueueTypes, Listed, NEW i \in Ids, NEW s \in Active, rec[i] \in Active, SetStatus(i, s)
  PROVE  Listed' /\ Restored
<1>1. rec[i] # "none" /\ s \in Active \cup Finished BY DEF Active
<1>2. Listed' /\ Range(recent') = Range(recent) /\ Len(recent') = Len(recent)
  BY <1>1, ListedSet
<1>3. \A j \in Ids : rec'[j] = IF j = i THEN s ELSE rec[j] BY DEF SetStatus, QueueTypes
<1> QED BY <1>2, <1>3 DEF Restored, Normalized

LEMMA GotoSaves ==
  ASSUME QueueTypes, NEW a \in Actors, NEW p \in Due, Goto(a, p)
  PROVE  NoneWrites /\ pc'[a] \in Due
BY DEF QueueTypes, Goto, NoneWrites, Due

LEMMA GotoKeeps ==
  ASSUME QueueTypes, NEW a \in Actors, NEW p, Goto(a, p), pc[a] \notin Saving, p \notin Writing
  PROVE  SaversKept
<1>1. \A b \in Actors : pc'[b] = IF b = a THEN p ELSE pc[b] BY DEF QueueTypes, Goto
<1>2. pc[a] \notin Due /\ pc[a] \notin Writing BY DEF Due, Saving, Writing
<1> QED BY <1>1, <1>2 DEF SaversKept

-----------------------------------------------------------------------------
LEMMA SettledStart ==
  ASSUME QueueInv, OwnedInv, SettledInv, loaded, NEW i \in Ids, StartStep(i)
  PROVE  SettledInv'
<1> USE ActorsIn, ActorsDiffer
<1>0. QueueTypes /\ Listed BY DEF QueueInv, SettledInv
<1>1. ASSUME NEW s, NEW t, PairGoto(i, s, t), pc[Start(i)] \notin Saving, pc[Task(i)] \notin Saving,
             s \notin Writing, t \notin Writing, UNCHANGED <<records, disk, loaded, scenario>>
      PROVE  SettledInv'
  <2>1. \A a \in Actors : pc'[a] = IF a = Start(i) THEN s ELSE IF a = Task(i) THEN t ELSE pc[a]
    BY <1>0, <1>1 DEF QueueTypes, PairGoto
  <2>2. SaversKept BY <1>1, <2>1 DEF SaversKept, Due, Saving, Writing
  <2> QED BY <1>0, <1>1, <2>2, SameRestored, KeepStep DEF records
<1>2. ASSUME NEW r \in Ids \cup {NoId}, StartTransfer(i, r) PROVE SettledInv'
  <2>1. /\ PairGoto(i, "insert", "gate") /\ UNCHANGED <<records, disk, life>>
        /\ pc[Start(i)] = "idle" /\ pc[Task(i)] = "idle"
    BY <1>2 DEF StartTransfer, PairGoto
  <2> QED BY <1>1, <2>1 DEF Saving, Writing, life
<1>3. CASE StartInsert(i) /\ Insertable(i)
  <2>1. SetStatus(i, "queued") /\ Goto(Start(i), "saveStart") /\ UNCHANGED <<disk, life>>
    BY <1>3 DEF StartInsert
  <2>2. Listed' BY <1>0, <2>1, ListedSet DEF Active
  <2>3. "saveStart" \in Due BY DEF Due, Saving, Writing
  <2> QED BY <1>0, <2>1, <2>2, <2>3, GotoSaves, DueStep DEF life
<1>4. CASE StartInsert(i) /\ ~Insertable(i)
  <2>1. PairGoto(i, "done", "done") /\ pc[Start(i)] = "insert" /\ UNCHANGED <<records, disk, life>>
    BY <1>4 DEF StartInsert, PairGoto
  <2>2. pc[Task(i)] = "gate" BY <2>1 DEF OwnedInv, GateWaits
  <2> QED BY <1>1, <2>1, <2>2 DEF Saving, Writing, life
<1>5. CASE StartSend(i) /\ pc[Task(i)] = "gate"
  <2> DEFINE s == IF retryOf[i] = NoId THEN "done" ELSE "replace"
  <2>1. PairGoto(i, s, "check") /\ pc[Start(i)] = "send" /\ UNCHANGED <<records, disk, life>>
    BY <1>5 DEF StartSend, PairGoto
  <2>2. s \notin Writing BY DEF Writing
  <2> HIDE DEF s
  <2> QED BY <1>1, <1>5, <2>1, <2>2 DEF Saving, Writing, life
<1>6. CASE (StartSend(i) /\ pc[Task(i)] # "gate") \/ RetryReplace(i)
  <2>1. PICK S : RemoveAll(S) BY <1>6 DEF StartSend, RetryReplace
  <2>2. Goto(Start(i), "save") /\ UNCHANGED <<disk, life>> BY <1>6 DEF StartSend, RetryReplace
  <2>3. Listed' BY <1>0, <2>1, ListedRemove
  <2>4. "save" \in Due BY DEF Due, Saving, Writing
  <2> QED BY <1>0, <2>2, <2>3, <2>4, GotoSaves, DueStep DEF life
<1> QED BY <1>2, <1>3, <1>4, <1>5, <1>6 DEF StartStep

(* cancel_transfer_in_place: who cancels will save.                        *)
LEMMA SettledCancel ==
  ASSUME QueueTypes, SettledInv, loaded, NEW a \in Actors, NEW i \in Ids, CancelInPlace(a, i),
         UNCHANGED <<disk, loaded, scenario>>
  PROVE  SettledInv'
<1>1. SetStatus(i, "canceled") /\ Goto(a, "join") BY DEF CancelInPlace, Goto
<1>2. Listed' BY <1>1, ListedSet DEF SettledInv, Finished
<1>3. "join" \in Due BY DEF Due, Saving, Writing
<1> QED BY <1>1, <1>2, <1>3, GotoSaves, DueStep

LEMMA SettledCmd ==
  ASSUME QueueInv, SettledInv, loaded, NEW c \in Cmds, CmdStep(c)
  PROVE  SettledInv'
<1> USE ActorsIn
<1>0. QueueTypes /\ Listed BY DEF QueueInv, SettledInv
<1>1. ASSUME NEW p \in {"save", "prune"}, Goto(Cmd(c), p), Listed', UNCHANGED <<disk, life>>
      PROVE  SettledInv'
  <2>1. p \in Due BY DEF Due, Saving, Writing
  <2> QED BY <1>0, <1>1, <2>1, GotoSaves, DueStep DEF life
<1>2. ASSUME NEW i \in Ids, TransferPause(c, i) \/ TransferResume(c, i) PROVE SettledInv'
  <2>1. \E s \in Active : SetStatus(i, s)
    BY <1>2 DEF TransferPause, TransferResume, Active
  <2>2. Listed' BY <1>0, <2>1, ListedSet
  <2> QED BY <1>1, <1>2, <2>2 DEF TransferPause, TransferResume
<1>3. ASSUME NEW i \in Ids, TransferCancel(c, i) PROVE SettledInv'
  <2>1. CASE CancelInPlace(Cmd(c), i)
    BY <1>0, <1>3, <2>1, SettledCancel DEF TransferCancel, life
  <2>2. CASE ~CancelInPlace(Cmd(c), i)
    <3>1. Goto(Cmd(c), "prune") /\ UNCHANGED <<records, disk, life>>
      BY <1>3, <2>2 DEF TransferCancel
    <3> QED BY <1>0, <1>1, <3>1, SameRestored DEF records
  <2> QED BY <2>1, <2>2
<1>4. ASSUME NEW i \in Ids, TransferRemove(c, i) PROVE SettledInv'
  BY <1>0, <1>1, <1>4, ListedRemove DEF TransferRemove
<1>5. CASE ClearFinished(c)
  BY <1>0, <1>1, <1>5, ListedRemove DEF ClearFinished
<1> QED BY <1>2, <1>3, <1>4, <1>5 DEF CmdStep

LEMMA SettledJoin ==
  ASSUME QueueInv, OwnedInv, SettledInv, loaded, NEW a \in Actors,
         CancelJoined(a) \/ GraceExpires(a)
  PROVE  SettledInv'
<1> USE ActorsIn, ActorsDiffer
<1>0. QueueTypes /\ Listed BY DEF QueueInv, SettledInv
<1>1. AfterJoin(a) \in Due BY DEF AfterJoin, Due, Saving, Writing
<1>2. Listed' /\ Restored
  BY <1>0, SameRestored DEF CancelJoined, GraceExpires, records
<1>3. CASE CancelJoined(a)
  BY <1>0, <1>1, <1>2, <1>3, GotoSaves, DueStep DEF CancelJoined, life
<1>4. CASE GraceExpires(a)
  <2> DEFINE t == Task(target[a])
  <2>1. t \in Actors /\ a # t
    BY <1>4, ActorTags DEF GraceExpires, OwnedInv, OwnedTypes, JoinersFinal, TaskPcs
  <2>2. /\ pc' = [pc EXCEPT ![a] = AfterJoin(a), ![t] = "done"]
        /\ UNCHANGED <<file, fileOk, loaded, scenario>>
        /\ IF writer = t THEN writer' = NoId /\ view' = {} ELSE UNCHANGED <<writer, view>>
    BY <1>4 DEF GraceExpires, life
  <2> HIDE DEF t
  <2>3. \A b \in Actors : pc'[b] = IF b = t THEN "done" ELSE IF b = a THEN AfterJoin(a) ELSE pc[b]
    BY <1>0, <2>1, <2>2 DEF QueueTypes
  <2>4. Entered(file)' /\ Entered(view)' BY <2>2 DEF SettledInv, Entered
  <2>5. OneWriter'
    <3>1. ASSUME NEW b \in Actors, pc'[b] \in Writing PROVE writer' = b
      <4>1. b # t /\ pc[b] \in Writing BY <1>1, <2>3, <3>1 DEF Writing, Due
      <4>2. writer = b BY <4>1 DEF SettledInv, OneWriter
      <4> QED BY <2>2, <4>1, <4>2
    <3> QED BY <3>1 DEF OneWriter
  <2>6. Quiet' BY <2>2 DEF Quiet
  <2>7. Settling' BY <1>1, <2>1, <2>3 DEF Settling
  <2> QED BY <1>2, <2>2, <2>4, <2>5, <2>6, <2>7 DEF SettledInv
<1> QED BY <1>3, <1>4

LEMMA SettledSession ==
  ASSUME QueueInv, SettledInv, loaded, OpenSftp \/ CloseSftp \/ CloseCollect \/ CloseCancelNext
  PROVE  SettledInv'
<1> USE ActorsIn
<1>0. QueueTypes /\ Listed BY DEF QueueInv, SettledInv
<1>1. ASSUME NEW p \in {"collect", "cancelNext", "prune"}, Goto(Close, p),
             UNCHANGED <<records, disk, life>>
      PROVE  SettledInv'
  <2>1. p \in Due BY DEF Due, Saving, Writing
  <2> QED BY <1>0, <1>1, <2>1, SameRestored, GotoSaves, DueStep DEF life, records
<1>2. ASSUME UNCHANGED <<pc, records, disk, life>> PROVE SettledInv'
  <2>1. SaversKept BY <1>2 DEF SaversKept
  <2> QED BY <1>0, <1>2, <2>1, SameRestored, KeepStep DEF life, records
<1>3. CASE OpenSftp BY <1>2, <1>3 DEF OpenSftp
<1>4. CASE CloseSftp \/ CloseCollect BY <1>1, <1>4 DEF CloseSftp, CloseCollect
<1>5. CASE CloseCancelNext
  <2>1. ASSUME NEW i \in todo, CancelInPlace(Close, i) PROVE SettledInv'
    <3>1. i \in Ids /\ UNCHANGED <<disk, loaded, scenario>>
      BY <1>0, <1>5 DEF QueueTypes, CloseCancelNext, life
    <3> QED BY <1>0, <2>1, <3>1, SettledCancel
  <2> QED BY <1>1, <1>2, <1>5, <2>1 DEF CloseCancelNext
<1> QED BY <1>3, <1>4, <1>5

LEMMA SettledTask ==
  ASSUME QueueInv, SettledInv, loaded, NEW i \in Ids, TaskStep(i)
  PROVE  SettledInv'
<1> USE ActorsIn
<1>0. QueueTypes /\ Listed BY DEF QueueInv, SettledInv
<1>1. ASSUME NEW p, Goto(Task(i), p), pc[Task(i)] \notin Saving, p \notin Writing, Listed', Restored,
             UNCHANGED <<disk, life>>
      PROVE  SettledInv'
  BY <1>0, <1>1, GotoKeeps, KeepStep DEF life
<1>2. CASE AcquireCheck(i) \/ AcquireNotified(i) \/ AcquireGrant(i) \/ AcquireRecheck(i)
           \/ CopyEnds(i) \/ CopyCanceled(i) \/ RunFails(i)
  <2>1. UNCHANGED <<records, disk, life>> /\ pc[Task(i)] \notin Saving
    BY <1>2 DEF AcquireCheck, AcquireNotified, AcquireGrant, AcquireRecheck, CopyEnds,
                CopyCanceled, RunFails, Saving
  <2>2. \E p \in {"fail", "parked", "select", "check", "granted", "open", "finish"} : Goto(Task(i), p)
    BY <1>2 DEF AcquireCheck, AcquireNotified, AcquireGrant, AcquireRecheck, CopyEnds,
                CopyCanceled, RunFails
  <2> QED BY <1>0, <1>1, <2>1, <2>2, SameRestored DEF records, Writing
<1>3. CASE RunOpens(i) \/ MarkProgress(i)
  <2>1. /\ pc[Task(i)] \in {"open", "copy"} /\ UNCHANGED <<disk, life>>
        /\ \/ rec[i] \in Active /\ SetStatus(i, RunningStatus(i))
           \/ UNCHANGED <<rec, recent>>
    BY <1>3 DEF RunOpens, MarkProgress, records
  <2>2. RunningStatus(i) \in Active BY DEF RunningStatus, Active
  <2>3. Listed' /\ Restored BY <1>0, <2>1, <2>2, SameRestored, ActiveRestored
  <2>4. SaversKept
    <3>1. CASE RunOpens(i)
      BY <1>0, <2>1, <3>1, GotoKeeps DEF RunOpens, Saving, Writing
    <3>2. CASE MarkProgress(i) BY <3>2 DEF MarkProgress, SaversKept
    <3> QED BY <1>3, <3>1, <3>2
  <2> QED BY <2>1, <2>3, <2>4, KeepStep DEF life
<1>4. ASSUME NEW s \in Finished, Mark(i, s), pc[Task(i)] \in {"finish", "fail"},
             UNCHANGED <<disk, life>>
      PROVE  SettledInv'
  <2>1. CASE Goto(Task(i), "prune")
    <3>1. "prune" \in Due BY DEF Due, Saving, Writing
    <3>2. Listed'
      BY <1>0, <1>4, ListedSet, SameRestored DEF Mark, records
    <3> QED BY <1>0, <1>4, <2>1, <3>1, <3>2, GotoSaves, DueStep DEF life
  <2>2. CASE Goto(Task(i), "done") /\ UNCHANGED records
    BY <1>0, <1>1, <1>4, <2>2, SameRestored DEF records, Saving, Writing
  <2> QED BY <1>4, <2>1, <2>2 DEF Mark
<1>5. CASE MarkCompleted(i) \/ MarkFailed(i)
  BY <1>4, <1>5 DEF MarkCompleted, MarkFailed, Finished
<1>6. CASE PartFails(i)
  <2>1. UNCHANGED <<records, disk, life, pc>> BY <1>6 DEF PartFails
  <2>2. SaversKept BY <2>1 DEF SaversKept
  <2> QED BY <1>0, <2>1, <2>2, SameRestored, KeepStep DEF records, life
<1> QED BY <1>2, <1>3, <1>5, <1>6 DEF TaskStep

-----------------------------------------------------------------------------
(* The history: the snapshot is right when it is taken, and no one else    *)
(* writes until it is on disk.                                             *)

LEMMA ViewMatches ==
  ASSUME QueueTypes, Listed, scenario \in Scenarios
  PROVE  Entered(TransferHistoryView) /\ Match(TransferHistoryView)
<1> DEFINE skip == IF Len(recent) <= MaxHistory THEN 0 ELSE Len(recent) - MaxHistory
           kept == SubSeq(recent, skip + 1, Len(recent))
<1>1. TransferHistoryView = {<<i, rec[i]>> : i \in Range(kept)} BY DEF TransferHistoryView
<1>2. recent \in Seq(Ids) /\ MaxHistory \in Nat
  BY QueueAssumption DEF Listed, MaxHistory, Scenario
<1>3. Range(kept) \subseteq Range(recent)
  <2>1. CASE Len(recent) <= MaxHistory
    <3>1. kept = recent BY <1>2, <2>1
    <3> QED BY <3>1
  <2>2. CASE ~(Len(recent) <= MaxHistory)
    <3> DEFINE L == Len(recent)
    <3>1. L \in Nat /\ skip \in Nat /\ skip <= L BY <1>2, <2>2
    <3>2. \A k \in 1..L : recent[k] \in Range(recent) BY <1>2 DEF Range
    <3>3. DOMAIN kept = 1..(L - skip) /\ \A k \in 1..(L - skip) : kept[k] = recent[k + skip]
      <4> HIDE DEF skip
      <4> QED BY <1>2, <3>1
    <3>4. \A k \in 1..(L - skip) : k + skip \in 1..L
      <4> HIDE DEF skip, L
      <4> QED BY <3>1
    <3> HIDE DEF skip, L, kept
    <3> QED BY <3>2, <3>3, <3>4 DEF Range
  <2> QED BY <2>1, <2>2
<1>4. Len(recent) <= MaxHistory => kept = recent BY <1>2
<1> HIDE DEF kept
<1>5. \A i \in Range(kept) : i \in Ids /\ rec[i] \in Active \cup Finished
  BY <1>3 DEF Listed, QueueTypes, Statuses
<1>6. \A e \in TransferHistoryView : e[1] \in Range(kept) /\ e = <<e[1], rec[e[1]]>> BY <1>1
<1>7. Entered(TransferHistoryView) BY <1>5, <1>6 DEF Entered
<1>8. {e[1] : e \in TransferHistoryView} = Range(kept)
  <2>1. {e[1] : e \in TransferHistoryView} \subseteq Range(kept) BY <1>6
  <2>2. ASSUME NEW i \in Range(kept) PROVE i \in {e[1] : e \in TransferHistoryView}
    <3>1. <<i, rec[i]>> \in TransferHistoryView /\ <<i, rec[i]>>[1] = i BY <1>1
    <3> QED BY <3>1
  <2> QED BY <2>1, <2>2
<1> QED BY <1>4, <1>6, <1>7, <1>8 DEF Match

LEMMA SettledHistory ==
  ASSUME QueueInv, SettledInv, loaded, NEW a \in Actors, HistoryStep(a)
  PROVE  SettledInv'
<1>0. QueueTypes /\ Listed BY DEF QueueInv, SettledInv
<1>1. CASE PruneTransferHistory(a)
  <2>1. PICK S : RemoveAll(S) BY <1>1 DEF PruneTransferHistory
  <2>2. Goto(a, "save") /\ UNCHANGED <<disk, life>> BY <1>1 DEF PruneTransferHistory
  <2>3. Listed' BY <1>0, <2>1, ListedRemove
  <2>4. "save" \in Due BY DEF Due, Saving, Writing
  <2> QED BY <1>0, <2>2, <2>3, <2>4, GotoSaves, DueStep DEF life
<1>2. CASE PersistSnapshot(a)
  <2>1. /\ writer = NoId /\ writer' = a /\ view' = TransferHistoryView
        /\ UNCHANGED <<rec, recent, file, fileOk, loaded, scenario>>
    BY <1>2 DEF PersistSnapshot, records, life
  <2>2. \A b \in Actors : pc'[b] = IF b # a THEN pc[b] ELSE IF pc[a] = "save" THEN "write" ELSE "writeStart"
    BY <1>0, <1>2 DEF PersistSnapshot, Goto, QueueTypes
  <2>3. pc'[a] \in Writing BY <2>2 DEF Writing
  <2>4. \A b \in Actors : pc[b] \notin Writing
    BY <2>1, ActorAssumption DEF SettledInv, OneWriter
  <2>5. OneWriter' BY <2>1, <2>2, <2>4 DEF OneWriter
  <2>6. Listed' BY <1>0, <2>1, SameRestored
  <2>7. Entered(TransferHistoryView) /\ Match(TransferHistoryView) BY <1>0, ViewMatches DEF SettledInv
  <2>8. Entered(file)' /\ Entered(view)' BY <2>1, <2>7 DEF SettledInv, Entered
  <2>9. Match(view)' BY <2>1, <2>7 DEF Match, MaxHistory
  <2>10. Settling' /\ Quiet' BY <2>1, <2>3, <2>9 DEF Settling, Quiet
  <2> QED BY <2>1, <2>5, <2>6, <2>8, <2>10 DEF SettledInv
<1>3. CASE PersistWrite(a)
  <2>1. /\ pc[a] \in Writing /\ writer = a /\ writer' = NoId /\ view' = {}
        /\ (file' = view /\ fileOk' = TRUE) \/ (fileOk' = FALSE /\ file' = file)
        /\ UNCHANGED <<rec, recent, loaded, scenario>>
    BY <1>3 DEF PersistWrite, Writing, records, life
  <2>2. \A b \in Actors : b # a => pc'[b] = pc[b] BY <1>0, <1>3 DEF PersistWrite, QueueTypes
  <2>3. pc'[a] \in {"send", "done", "idle"} BY <1>0, <1>3 DEF PersistWrite, QueueTypes
  <2>4. \A b \in Actors : pc'[b] \notin Writing
    BY <2>1, <2>2, <2>3 DEF SettledInv, OneWriter, Writing
  <2>5. OneWriter' BY <2>4 DEF OneWriter
  <2>6. Listed' BY <1>0, <2>1, SameRestored
  <2>7. Entered(file)' /\ Entered(view)' BY <2>1 DEF SettledInv, Entered
  <2>8. Quiet' BY <2>1 DEF Quiet
  <2>9. Settling'
    <3>1. CASE \E b \in Actors : pc[b] \in Due
      <4>1. PICK b \in Actors : pc[b] \in Due BY <3>1
      <4>2. b # a BY <2>1, <4>1 DEF Due
      <4> QED BY <2>2, <4>1, <4>2 DEF Settling
    <3>2. CASE Match(view)
      <4>1. ASSUME fileOk' PROVE Match(file)'
        <5>1. file' = view BY <2>1, <4>1
        <5> QED BY <2>1, <3>2, <5>1 DEF Match, MaxHistory
      <4> QED BY <2>4, <4>1 DEF Settling
    <3> QED BY <2>1, <3>1, <3>2 DEF SettledInv, Settling
  <2> QED BY <2>1, <2>5, <2>6, <2>7, <2>8, <2>9 DEF SettledInv
<1> QED BY <1>1, <1>2, <1>3 DEF HistoryStep

(* ensure_transfer_history_loaded makes memory what the file says.         *)
LEMMA SettledLoad == ASSUME QueueInv, SettledInv, LoadHistory PROVE SettledInv'
<1> DEFINE S == Active \cup Finished
           st(i) == CHOOSE s \in S : <<i, s>> \in file
<1>1. /\ ~loaded /\ UNCHANGED <<writer, view, file, fileOk, live, pc, scenario>> /\ loaded'
      /\ rec' = [i \in Ids |-> IF \E s \in S : <<i, s>> \in file THEN Normalized(st(i)) ELSE "none"]
  BY DEF LoadHistory, disk, sftp
<1>2. /\ recent' \in UNION {[1..n -> Ids] : n \in 0..Cardinality(Ids)} /\ IsInjective(recent')
      /\ Range(recent') = {e[1] : e \in file}
  BY DEF LoadHistory
<1>3. Entered(file) BY DEF SettledInv
<1>4. ASSUME NEW e \in file
      PROVE  /\ e[1] \in Ids /\ e[2] \in S /\ rec'[e[1]] = Normalized(e[2])
             /\ rec'[e[1]] # "none" /\ Normalized(rec'[e[1]]) = Normalized(e[2])
  <2>1. e[1] \in Ids /\ e[2] \in S /\ e = <<e[1], e[2]>> BY <1>3 DEF Entered
  <2>2. st(e[1]) \in S /\ <<e[1], st(e[1])>> \in file BY <2>1
  <2> HIDE DEF st
  <2>3. st(e[1]) = e[2] BY <1>3, <2>2 DEF Entered
  <2>4. rec'[e[1]] = Normalized(e[2]) BY <1>1, <2>1, <2>3
  <2> QED BY <2>1, <2>4 DEF Normalized, Active, Finished
<1>5. ASSUME NEW i \in Ids, rec'[i] # "none" PROVE \E e \in file : e[1] = i
  <2>1. PICK s \in S : <<i, s>> \in file BY <1>1, <1>5
  <2> QED BY <2>1
<1>6. Range(recent') = {i \in Ids : rec'[i] # "none"} BY <1>2, <1>4, <1>5
<1>7. recent' \in Seq(Ids)
  <2>1. PICK n \in 0..Cardinality(Ids) : recent' \in [1..n -> Ids] BY <1>2
  <2>2. CASE n \in Nat BY <2>1, <2>2, SeqDef
  <2> QED BY <2>1, <2>2
<1>8. Listed' BY <1>2, <1>6, <1>7 DEF Listed
<1>9. Entered(file)' /\ Entered(view)' BY <1>1 DEF SettledInv, Entered
<1>10. Quiet' /\ OneWriter' BY <1>1 DEF SettledInv, Quiet, OneWriter
<1>11. \A a \in Actors : pc'[a] \notin Writing BY <1>1 DEF SettledInv, Quiet, Writing
<1>12. Match(file)' BY <1>1, <1>2, <1>4 DEF Match
<1>13. Settling' BY <1>11, <1>12 DEF Settling
<1> QED BY <1>1, <1>8, <1>9, <1>10, <1>13 DEF SettledInv

LEMMA SettledCrash == ASSUME SettledInv, Crash PROVE SettledInv'
<1>1. /\ ~loaded' /\ ~live' /\ recent' = <<>> /\ view' = {} /\ file' = file /\ scenario' = scenario
      /\ \A a \in Actors : pc'[a] \in {"idle", "done"}
      /\ \A i \in Ids : rec'[i] = "none"
  BY DEF Crash
<1>2. Listed' BY <1>1 DEF Listed, IsInjective, Range
<1>3. Entered(file)' /\ Entered(view)' BY <1>1 DEF SettledInv, Entered
<1>4. Quiet' /\ OneWriter' /\ Settling' BY <1>1 DEF Quiet, OneWriter, Settling, Writing
<1> QED BY <1>1, <1>2, <1>3, <1>4 DEF SettledInv

(* Only the load happens before the load.                                  *)
LEMMA LoadFirst ==
  ASSUME SettledInv, ~loaded, Next
  PROVE  LoadHistory
<1> USE ActorsIn
<1>1. /\ ~live /\ \A a \in Actors : pc[a] \in {"idle", "done"}
      /\ \A i \in Ids : rec[i] = "none"
  BY DEF SettledInv, Quiet
<1>2. ASSUME NEW i \in Ids, StartStep(i) PROVE FALSE
  BY <1>1, <1>2 DEF StartStep, StartTransfer, StartInsert, StartSend, RetryReplace
<1>3. ASSUME NEW i \in Ids, TaskStep(i) PROVE FALSE
  <2>1. pc[Task(i)] \in {"idle", "done"} BY <1>1
  <2> QED BY <1>3, <2>1 DEF TaskStep, AcquireCheck, AcquireNotified, AcquireGrant, AcquireRecheck,
             RunOpens, MarkProgress, CopyEnds, CopyCanceled, PartFails, RunFails, MarkCompleted,
             MarkFailed
<1>4. ASSUME NEW c \in Cmds, CmdStep(c) PROVE FALSE
  BY <1>1, <1>4 DEF CmdStep, TransferPause, TransferResume, TransferCancel, CancelInPlace,
                    TransferRemove, ClearFinished, Active, Finished
<1>5. ASSUME NEW a \in Actors, HistoryStep(a) \/ CancelJoined(a) \/ GraceExpires(a) PROVE FALSE
  BY <1>1, <1>5 DEF HistoryStep, PruneTransferHistory, PersistSnapshot, PersistWrite, CancelJoined,
                    GraceExpires
<1>6. ~(OpenSftp \/ CloseSftp \/ CloseCollect \/ CloseCancelNext \/ Crash)
  BY <1>1 DEF OpenSftp, CloseSftp, CloseCollect, CloseCancelNext, Crash
<1> QED BY <1>2, <1>3, <1>4, <1>5, <1>6 DEF Next

LEMMA SettledStep == QueueInv /\ OwnedInv /\ SettledInv /\ [Next]_vars => SettledInv'
<1> SUFFICES ASSUME QueueInv, OwnedInv, SettledInv, [Next]_vars PROVE SettledInv'
  OBVIOUS
<1>1. CASE UNCHANGED vars
  <2>1. UNCHANGED <<rec, recent, pc, loaded, live, writer, view, file, fileOk, scenario>>
    BY <1>1 DEF vars, records, sftp, disk, life
  <2> QED BY <2>1 DEF SettledInv, Listed, Entered, Quiet, OneWriter, Settling, Match, MaxHistory
<1>2. CASE Next /\ ~loaded BY <1>2, LoadFirst, SettledLoad
<1>3. CASE Next /\ loaded
  BY <1>3, SettledStart, SettledTask, SettledCmd, SettledHistory, SettledJoin, SettledSession,
     SettledLoad, SettledCrash DEF Next
<1> QED BY <1>1, <1>2, <1>3

(* For any number of transfers, commands, failed writes and crashes: when  *)
(* no actor has a write of transfer-history.json before it and the last    *)
(* one succeeded, ensure_transfer_history_loaded would restore what memory *)
(* holds, though persist_transfer_history writes a snapshot that records   *)
(* may have left behind when it reaches the disk.                          *)
THEOREM HistorySettledTheorem == Spec => []HistorySettled
<1>1. Init => SettledInv
  <2> SUFFICES ASSUME Init PROVE SettledInv
    OBVIOUS
  <2>1. Listed BY DEF Init, Listed, IsInjective, Range
  <2>2. Entered(file) /\ Entered(view) BY DEF Init, Entered
  <2>3. scenario \in Scenarios /\ Quiet /\ OneWriter /\ Settling
    BY DEF Init, Quiet, OneWriter, Settling, Writing
  <2> QED BY <2>1, <2>2, <2>3 DEF SettledInv
<1>2. SettledInv => HistorySettled
  BY DEF SettledInv, Settling, HistorySettled, Match, Due, Saving, Writing
<1> QED BY <1>1, <1>2, QueueInit, QueueStep, OwnedInit, OwnedStep, SettledStep, PTL DEF Spec
=============================================================================
