---------------------------- MODULE TransferFile ----------------------------
(***************************************************************************)
(* What an SFTP transfer does to files (run_transfer, run_parallel_upload, *)
(* run_parallel_download and the staging helpers of transfer.rs, with the  *)
(* start, cancel and clean-up of runtime_transfer.rs).                     *)
(*                                                                         *)
(* A transfer copies its source into a staging file and moves that over    *)
(* the target.  The name of the staging file is a function of the paths    *)
(* and of the size and time stamp of the source, so that a later attempt   *)
(* can resume it: the length of what it finds is taken for the prefix that *)
(* is already there.  A large file is copied by several parts at once.     *)
(*                                                                         *)
(* A part counts a block when it hands it over: to the pipeline of the     *)
(* SFTP client, which learns later whether the server wrote it, or to the  *)
(* one background write of a local file.  What was handed over may still   *)
(* land, or be lost, when the part has returned.                           *)
(*                                                                         *)
(* A file is a sequence of blocks, a block the version of the source it    *)
(* was read from or a hole.  A file that is created anew has another       *)
(* inode; writes through a handle of an old inode are lost.                *)
(***************************************************************************)
EXTENDS Naturals, Sequences, FiniteSets, FiniteSetsExt

CONSTANTS
  Attempts,     \* transfer records, one use each
  Size,         \* blocks of the source
  Parts,        \* PARALLEL_UPLOAD_PARTS, PARALLEL_DOWNLOAD_PARTS
  MaxVersion,   \* how often the source may change, plus one
  MaxFaults,    \* bound: lost writes, deaths of the process and changes of the source
  EarlyRetry    \* TRUE: the user may repeat a transfer whose cancel has not returned

ASSUME FileAssumption ==
  /\ Size \in Nat \ {0} /\ Parts \in 1..Size
  /\ MaxVersion \in Nat \ {0} /\ MaxFaults \in Nat
  /\ EarlyRetry \in BOOLEAN

Versions == 1..MaxVersion
Hole == 0
Old == <<>>

\* what may leave a staging file that is not a prefix of its source: the process died
\* during a parallel copy; the file of one that failed or was aborted could be neither cut
\* nor removed; it was cut to what was counted, not to what was acknowledged; a write of
\* an interrupted copy, or one after a write that failed, landed behind a gap
Lapses == {"killed", "left", "ahead", "gap"}

VARIABLES
  upload,   \* the direction
  large,    \* the file is at least PARALLEL_UPLOAD_THRESHOLD, PARALLEL_DOWNLOAD_THRESHOLD long
  ver,      \* version of the source
  staging,  \* the staging file of each source version
  there,    \* versions whose staging file exists
  inode,    \* its inode
  torn,     \* the lapses it has met since it was created or truncated
  target,   \* the target file
  spoiled,  \* the lapses of the file that became the target
  status,   \* TransferInfo.status of each record
  pc,       \* progress of its task
  want,     \* expected_source
  resume,   \* request.resume
  parts,    \* worker_parts
  base,     \* resume_from
  handle,   \* inode the parts have open
  done,     \* part_progress
  flight,   \* blocks handed over by each part that have not landed, with their places
  lost,     \* parts of which a block was lost
  broken,   \* parts that returned an error
  cancel,   \* the cancel flag
  joining,  \* a cancel command waits for the task
  faults

kind == <<upload, large>>
stagings == <<staging, there, inode, torn>>
files == <<stagings, target, spoiled>>
locals == <<base, done, lost, broken, cancel>>
task == <<want, resume, parts, handle, flight, locals>>
vars == <<kind, ver, files, status, pc, task, joining, faults>>

Live == {"prepare", "open", "copy", "verify", "replace"}
AllParts == 0..(Parts - 1)

Init ==
  /\ upload \in BOOLEAN /\ large \in BOOLEAN /\ ver = 1
  /\ staging = [v \in Versions |-> <<>>] /\ there = {} /\ inode = [v \in Versions |-> 0]
  /\ torn = [v \in Versions |-> {}]
  /\ target = Old /\ spoiled = {}
  /\ status = [a \in Attempts |-> "none"] /\ pc = [a \in Attempts |-> "none"]
  /\ want = [a \in Attempts |-> 1] /\ resume = [a \in Attempts |-> FALSE]
  /\ parts = [a \in Attempts |-> 1] /\ base = [a \in Attempts |-> 0]
  /\ handle = [a \in Attempts |-> 0]
  /\ done = [a \in Attempts |-> [i \in AllParts |-> 0]]
  /\ flight = [a \in Attempts |-> [i \in AllParts |-> <<>>]]
  /\ lost = [a \in Attempts |-> {}] /\ broken = [a \in Attempts |-> {}]
  /\ cancel = [a \in Attempts |-> FALSE] /\ joining = {} /\ faults = 0

-----------------------------------------------------------------------------
(* Files.                                                                  *)

SetLen(f, n) == [i \in 1..n |-> IF i <= Len(f) THEN f[i] ELSE Hole]
WriteAt(f, k, b) == [SetLen(f, Max({Len(f), k})) EXCEPT ![k] = b]
Whole(v) == [i \in 1..Size |-> v]

Unlink(v) ==
  /\ staging' = [staging EXCEPT ![v] = <<>>]
  /\ there' = there \ {v}
  /\ torn' = [torn EXCEPT ![v] = {}]
  /\ UNCHANGED inode
Tear(v, lapses) == torn' = [torn EXCEPT ![v] = @ \cup lapses]
Attached(a) == want[a] \in there /\ handle[a] = inode[want[a]]

\* one of the lost writes, deaths and changes that MaxFaults bounds
Fault == faults < MaxFaults /\ faults' = faults + 1

-----------------------------------------------------------------------------
(* The parts of a copy.  A sequential copy is one part that begins at      *)
(* resume_from.                                                            *)

\* seeded fault: the last part is as long as the others
PartRangeShort(a, i) ==
  LET chunk == Size \div parts[a]
  IN IF parts[a] = 1 THEN [start |-> base[a], len |-> Size - base[a]]
     ELSE [start |-> i * chunk, len |-> chunk]

PartRange(a, i) ==
  LET chunk == Size \div parts[a]
  IN IF parts[a] = 1 THEN [start |-> base[a], len |-> Size - base[a]]
     ELSE [start |-> i * chunk,
           len |-> IF i = parts[a] - 1 THEN Size - i * chunk ELSE chunk]

PartsOf(a) == 0..(parts[a] - 1)
Finished(a, i) == done[a][i] = PartRange(a, i).len

\* seeded fault: the bytes of all parts are counted, not the leading ones
ContiguousPrefixTotal(a) == SumSet({done[a][i] : i \in PartsOf(a)})

(* Everything up to the first part that is not complete.                   *)
ContiguousPrefix(a) ==
  LET full == {k \in 0..parts[a] : \A i \in PartsOf(a) : i < k => Finished(a, i)}
      k == Max(full)
  IN IF k = parts[a] THEN Size ELSE PartRange(a, k).start + done[a][k]

-----------------------------------------------------------------------------
(* start_transfer refuses a second active record with the same staging     *)
(* path; a record whose cancel has begun no longer counts.                 *)
Start(a, again) ==
  /\ status[a] = "none"
  /\ \A b \in Attempts : want[b] = ver => status[b] # "active"
  /\ EarlyRetry \/ joining = {}
  /\ again => \E b \in Attempts : status[b] \in {"failed", "canceled"}
  /\ status' = [status EXCEPT ![a] = "active"]
  /\ pc' = [pc EXCEPT ![a] = "prepare"]
  /\ want' = [want EXCEPT ![a] = ver]
  /\ resume' = [resume EXCEPT ![a] = again]
  /\ parts' = [parts EXCEPT ![a] = IF again \/ ~large THEN 1 ELSE Parts]
  /\ UNCHANGED <<kind, ver, files, handle, flight, locals, joining, faults>>

\* the tasks ends are over, and their locals gone; what they handed over is on its way
Ended(ends) ==
  /\ pc' = [a \in Attempts |-> IF a \in ends THEN "ended" ELSE pc[a]]
  /\ base' = [a \in Attempts |-> IF a \in ends THEN 0 ELSE base[a]]
  /\ done' = [a \in Attempts |-> IF a \in ends THEN [i \in AllParts |-> 0] ELSE done[a]]
  /\ lost' = [a \in Attempts |-> IF a \in ends THEN {} ELSE lost[a]]
  /\ broken' = [a \in Attempts |-> IF a \in ends THEN {} ELSE broken[a]]
  /\ cancel' = [a \in Attempts |-> cancel[a] /\ a \notin ends]

EndTask(a, how) ==
  /\ Ended({a})
  /\ status' = [status EXCEPT ![a] = IF @ = "active" THEN how ELSE @]

(* prepare_local_staging, prepare_remote_staging: the staging file is kept *)
(* and its length trusted, or it is removed.                               *)
Prepare(a) ==
  /\ pc[a] = "prepare" /\ ver = want[a]
  /\ IF resume[a] /\ Len(staging[want[a]]) <= Size
     THEN base' = [base EXCEPT ![a] = Len(staging[want[a]])] /\ UNCHANGED stagings
     ELSE base' = [base EXCEPT ![a] = 0] /\ Unlink(want[a])
  /\ pc' = [pc EXCEPT ![a] = "open"]
  /\ UNCHANGED <<kind, ver, target, spoiled, status, want, resume, parts, handle, flight, done, lost,
                 broken, cancel, joining, faults>>

(* The staging file is opened: created and truncated unless it is resumed, *)
(* and extended to its final length by a parallel download.                *)
Open(a) ==
  LET v == want[a] IN
  /\ pc[a] = "open"
  /\ there' = there \cup {v}
  /\ inode' = [inode EXCEPT ![v] = IF v \in there THEN @ ELSE @ + 1]
  /\ handle' = [handle EXCEPT ![a] = inode'[v]]
  /\ IF base[a] > 0 THEN UNCHANGED <<staging, torn>>
     ELSE /\ staging' = [staging EXCEPT ![v] =
                           SetLen(<<>>, IF parts[a] > 1 /\ ~upload THEN Size ELSE 0)]
          /\ torn' = [torn EXCEPT ![v] = {}]
  /\ pc' = [pc EXCEPT ![a] = "copy"]
  /\ UNCHANGED <<kind, ver, target, spoiled, status, want, resume, parts, flight, locals,
                 joining, faults>>

(* A part has found no cancel, reads its next block, hands it over and     *)
(* counts it.  A local file takes the next write when the last is through, *)
(* and reports one that failed then.                                       *)
PartWrite(a, i) ==
  /\ pc[a] = "copy" /\ ~cancel[a]
  /\ i \in PartsOf(a) \ broken[a] /\ ~Finished(a, i)
  /\ upload \/ (flight[a][i] = <<>> /\ i \notin lost[a])
  /\ flight' = [flight EXCEPT ![a][i] =
                   Append(@, [at |-> PartRange(a, i).start + done[a][i] + 1, block |-> ver])]
  /\ done' = [done EXCEPT ![a][i] = @ + 1]
  /\ UNCHANGED <<kind, ver, files, status, pc, want, resume, parts, base, handle, lost, broken,
                 cancel, joining, faults>>

(* The first of the blocks on their way is written, even when its part has *)
(* returned or its task is gone.                                           *)
Land(a, i) ==
  LET v == want[a] w == Head(flight[a][i]) IN
  /\ flight[a][i] # <<>>
  /\ flight' = [flight EXCEPT ![a][i] = Tail(@)]
  /\ IF Attached(a)
     THEN /\ staging' = [staging EXCEPT ![v] = WriteAt(@, w.at, w.block)]
          /\ Tear(v, IF w.at > Len(staging[v]) + 1 /\ (parts[a] = 1 \/ pc[a] # "copy")
                     THEN {"gap"} ELSE {})
     ELSE UNCHANGED <<staging, torn>>
  /\ UNCHANGED <<kind, ver, there, inode, target, spoiled, status, pc, want, resume, parts,
                 handle, locals, joining, faults>>

WriteLost(a, i) ==
  /\ flight[a][i] # <<>> /\ Fault
  /\ flight' = [flight EXCEPT ![a][i] = Tail(@)]
  /\ lost' = [lost EXCEPT ![a] = IF pc[a] = "copy" THEN @ \cup {i} ELSE @]
  /\ UNCHANGED <<kind, ver, files, status, pc, want, resume, parts, base, handle, done, broken,
                 cancel, joining>>

(* A part fails, at the latest when it waits for its writes and closes the *)
(* file, or notices the cancel; the parts of a parallel copy tell their    *)
(* siblings to stop.                                                       *)
PartError(a, i) ==
  /\ pc[a] = "copy" /\ i \in PartsOf(a) \ broken[a]
  /\ broken' = [broken EXCEPT ![a] = @ \cup {i}]
  /\ cancel' = [cancel EXCEPT ![a] = @ \/ parts[a] > 1]
  /\ UNCHANGED <<kind, ver, files, status, pc, want, resume, parts, base, handle, flight, done,
                 lost, joining, faults>>

(* Every part has returned: with an error, or when all of it was written.  *)
Returned(a, i) == Finished(a, i) /\ flight[a][i] = <<>> /\ i \notin lost[a]
Joined(a) == pc[a] = "copy" /\ \A i \in PartsOf(a) : i \in broken[a] \/ Returned(a, i)

JoinOk(a) ==
  /\ Joined(a) /\ broken[a] = {}
  /\ pc' = [pc EXCEPT ![a] = "verify"]
  /\ UNCHANGED <<kind, ver, files, status, task, joining, faults>>

(* After an error a parallel copy cuts the staging file, found by its      *)
(* name, to the leading blocks that were counted.  When that fails it is   *)
(* removed; when that fails too it stays as it is.                         *)
Unconfirmed(a) == lost[a] # {} \/ \E i \in PartsOf(a) : flight[a][i] # <<>>
Cut(a) ==
  LET v == want[a] IN
  /\ v \in there
  /\ staging' = [staging EXCEPT ![v] = SetLen(@, ContiguousPrefix(a))]
  /\ Tear(v, IF Unconfirmed(a) THEN {"ahead"} ELSE {})
  /\ UNCHANGED <<there, inode>>
Left(a) == Tear(want[a], {"left"}) /\ UNCHANGED <<staging, there, inode>>

JoinError(a) ==
  /\ Joined(a) /\ broken[a] # {}
  /\ IF parts[a] = 1 THEN UNCHANGED stagings
     ELSE Cut(a) \/ Unlink(want[a]) \/ Left(a)
  /\ EndTask(a, "failed")
  /\ UNCHANGED <<kind, ver, target, spoiled, want, resume, parts, handle, flight, joining,
                 faults>>

\* seeded fault: only the size is looked at
VerifySizeOnly(a) ==
  /\ pc[a] = "verify"
  /\ IF Len(staging[want[a]]) = Size
     THEN pc' = [pc EXCEPT ![a] = "replace"] /\ UNCHANGED <<status, locals>>
     ELSE EndTask(a, "failed")
  /\ UNCHANGED <<kind, ver, files, want, resume, parts, handle, flight, joining, faults>>

(* The size of the staging file and the identity of the source.            *)
Verify(a) ==
  /\ pc[a] = "verify"
  /\ IF Len(staging[want[a]]) = Size /\ ver = want[a]
     THEN pc' = [pc EXCEPT ![a] = "replace"] /\ UNCHANGED <<status, locals>>
     ELSE EndTask(a, "failed")
  /\ UNCHANGED <<kind, ver, files, want, resume, parts, handle, flight, joining, faults>>

(* The staging file becomes the target, whatever the record says by now.   *)
Replace(a) ==
  LET v == want[a] IN
  /\ pc[a] = "replace"
  /\ IF v \notin there
     THEN EndTask(a, "failed") /\ UNCHANGED files
     ELSE /\ EndTask(a, "completed")
          /\ target' = staging[v] /\ spoiled' = torn[v]
          /\ Unlink(v)
  /\ UNCHANGED <<kind, ver, want, resume, parts, handle, flight, joining, faults>>

(* Any other step of the task may fail; the staging file stays.            *)
StepFails(a) ==
  /\ pc[a] \in {"prepare", "open", "verify", "replace"}
  /\ EndTask(a, "failed")
  /\ UNCHANGED <<kind, ver, files, want, resume, parts, handle, flight, joining, faults>>

-----------------------------------------------------------------------------
(* cancel_transfer_in_place: the record is canceled first; then the task   *)
(* has three seconds, after which it is aborted and the staging file of a  *)
(* parallel copy removed.                                                  *)
Cancel(a) ==
  /\ status[a] = "active"
  /\ status' = [status EXCEPT ![a] = "canceled"]
  /\ cancel' = [cancel EXCEPT ![a] = TRUE]
  /\ joining' = joining \cup {a}
  /\ UNCHANGED <<kind, ver, files, pc, want, resume, parts, handle, flight, base, done, lost, broken,
                 faults>>

CancelJoined(a) ==
  /\ a \in joining /\ pc[a] = "ended"
  /\ joining' = joining \ {a}
  /\ UNCHANGED <<kind, ver, files, status, pc, task, faults>>

GraceExpires(a) ==
  /\ a \in joining /\ pc[a] \in Live
  /\ Ended({a})
  /\ joining' = joining \ {a}
  /\ IF parts[a] = 1 THEN UNCHANGED stagings
     ELSE \/ Unlink(want[a])
          \/ pc[a] = "copy" /\ Left(a)
          \/ pc[a] # "copy" /\ UNCHANGED stagings
  /\ UNCHANGED <<kind, ver, target, spoiled, status, want, resume, parts, handle, flight, faults>>

(* transfer_remove, clear_finished_transfer_history, prune, and the end of *)
(* transfer_retry: the staging file goes with the last record that names   *)
(* it, if it can be removed.                                               *)
RemoveRecord(a) ==
  /\ status[a] \in {"completed", "failed", "canceled"}
  /\ status' = [status EXCEPT ![a] = "gone"]
  /\ \/ UNCHANGED stagings
     \/ /\ \A b \in Attempts \ {a} : want[b] = want[a] => status[b] \in {"none", "gone"}
        /\ Unlink(want[a])
  /\ UNCHANGED <<kind, ver, target, spoiled, pc, task, joining, faults>>

(* The process dies; the next launch finds the persisted records canceled. *)
(* The server may still get what an upload had sent.                       *)
Crash ==
  /\ Fault
  /\ torn' = [v \in Versions |->
                torn[v] \cup IF \E a \in Attempts : pc[a] = "copy" /\ parts[a] > 1 /\ want[a] = v
                             THEN {"killed"} ELSE {}]
  /\ IF upload THEN UNCHANGED flight
     ELSE flight' = [a \in Attempts |-> [i \in AllParts |-> <<>>]]
  /\ Ended({a \in Attempts : pc[a] \in Live})
  /\ status' = [a \in Attempts |-> IF status[a] = "active" THEN "canceled" ELSE status[a]]
  /\ joining' = {}
  /\ UNCHANGED <<kind, ver, staging, there, inode, target, spoiled, want, resume, parts, handle>>

SourceChanges ==
  /\ ver < MaxVersion /\ Fault
  /\ ver' = ver + 1
  /\ UNCHANGED <<kind, files, status, pc, task, joining>>

Next ==
  \/ \E a \in Attempts :
       \/ \E again \in BOOLEAN : Start(a, again)
       \/ Prepare(a) \/ Open(a)
       \/ \E i \in AllParts : PartWrite(a, i) \/ Land(a, i) \/ WriteLost(a, i) \/ PartError(a, i)
       \/ JoinOk(a) \/ JoinError(a) \/ Verify(a) \/ Replace(a) \/ StepFails(a)
       \/ Cancel(a) \/ CancelJoined(a) \/ GraceExpires(a) \/ RemoveRecord(a)
  \/ Crash
  \/ SourceChanges

Spec == Init /\ [][Next]_vars

-----------------------------------------------------------------------------
Intact == target = Old \/ \E v \in Versions : target = Whole(v)

(* A target is only ever replaced by a complete copy of one version of the *)
(* source: no attempt, interrupted and resumed however often, installs a   *)
(* file with holes, with a missing tail or mixed from two versions, unless *)
(* its staging file had met one of the lapses.                             *)
TargetIntact == Intact \/ spoiled # {}

(* Between attempts the length of a staging file tells the truth: what is  *)
(* there of a source that has not changed is a copy of its first blocks,   *)
(* so a retry may append to it (prepare_local_staging,                     *)
(* prepare_remote_staging), unless it has met one of the lapses.           *)
StagingResumable ==
  (\A a \in Attempts : pc[a] \notin Live) /\ torn[ver] = {} =>
    \A i \in DOMAIN staging[ver] : staging[ver][i] = ver

(* Not so in the code: a target is intact though the process died during   *)
(* the copy (prepare_local_staging trusts the length of what it finds).    *)
IntactAfterDeath == spoiled \subseteq {"killed"} => Intact

(* Not so in the code: a target is intact though a write that had been     *)
(* counted was lost, or landed late (contiguous_parallel_prefix).          *)
IntactAfterLoss == spoiled \subseteq {"ahead", "gap"} => Intact

=============================================================================
