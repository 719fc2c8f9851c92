---------------------------- MODULE SftpSessions ----------------------------
(***************************************************************************)
(* The SFTP sessions of automation connections and the REST transfers that *)
(* use them (remote/runtime_sftp.rs, remote/runtime_api.rs, SftpRecord in  *)
(* remote.rs): opening a session and its pool of channels, uploads through *)
(* a staging file, single and parallel downloads, and the close that goes  *)
(* with the connection.                                                    *)
(*                                                                         *)
(* One connection is modelled: every map of the code is keyed by it.  A    *)
(* file is a number of blocks.  Waiters of a semaphore or mutex may        *)
(* overtake each other, and the channels of a pool are a set, any of which *)
(* a transfer may get; both only add behaviours.  Loads and stores of the  *)
(* atomics are sequentially consistent.                                    *)
(***************************************************************************)
EXTENDS Naturals, Sequences, FiniteSets

CONSTANTS
  Requests,     \* REST requests, each of them one transfer
  Jobs,         \* bound: what each request does, a set of functions to kinds
  PoolSize,     \* SFTP_TRANSFER_POOL_SIZE
  Slots,        \* MAX_SFTP_TRANSFER_CONCURRENCY
  Parts,        \* PARALLEL_DOWNLOAD_PARTS
  Depth,        \* PER_WORKER_QUEUE_DEPTH
  Blocks,       \* size of a file
  Faults,       \* bound: clients gone, transports lost and pools compacted
  None

ASSUME SftpAssumption ==
  /\ PoolSize \in Nat \ {0} /\ Slots \in Nat \ {0}
  /\ Parts \in 1..Slots /\ Depth \in Nat \ {0} /\ Blocks \in Nat \ {0}
  /\ Faults \in Nat
  /\ IsFiniteSet(Requests) /\ None \notin Requests \cup {"ok"}
  /\ Jobs \subseteq [Requests -> {"upload", "download", "parallel"}]

VARIABLES
  conn,     \* whether the connection is listed, its transport lost, and the faults left
  openLock, \* the request holding the sftp_open_lock of the connection
  recs,     \* the SftpRecords in the order they were built
  chans,    \* open SFTP channels
  req,      \* req[p]: the handler of request p and its locals
  work,     \* work[p][i]: worker i of a parallel download
  cleaner,  \* the close of the sessions of the connection
  temp      \* temp[p]: the staging file of p

vars == <<conn, openLock, recs, chans, req, work, cleaner, temp>>

Channel(r, n) == [r |-> r, n |-> n]
Error == 0   \* an error in a stream; blocks are 1..Blocks
Least(a, b) == IF a < b THEN a ELSE b
Most(a, b) == IF a > b THEN a ELSE b

Fresh(kind) ==
  [kind |-> kind, pc |-> "begin", r |-> 0, ch |-> None, parts |-> 1,
   front |-> 1, got |-> <<>>, reply |-> None]

Init ==
  /\ conn = [up |-> TRUE, lost |-> FALSE, faults |-> Faults]
  /\ openLock = None
  /\ recs = <<>> /\ chans = {}
  /\ \E job \in Jobs : req = [p \in Requests |-> Fresh(job[p])]
  /\ work = [p \in Requests |-> <<>>]
  /\ cleaner = [pc |-> "idle", r |-> 0, late |-> FALSE]
  /\ temp = [p \in Requests |-> None]

At(p, pc) == req[p].pc = pc
Goto(p, pc) == req' = [req EXCEPT ![p].pc = pc]
\* the handler returns, or is dropped; of its locals only what a detached task uses is kept
Reply(p, reply) ==
  req' = [req EXCEPT ![p] = [Fresh(@.kind) EXCEPT
    !.pc = "done", !.reply = reply, !.r = req[p].r, !.parts = req[p].parts,
    !.got = IF reply = "ok" THEN req[p].got ELSE <<>>]]
Unlock(p) == openLock' = IF openLock = p THEN None ELSE openLock
Give(r, n) == [recs EXCEPT ![r].free = @ + n]
Unregister(r) == [recs EXCEPT ![r].uploads = @ - 1]
\* the end of an upload: its permit and its registration are both dropped
GiveUp(r) == [recs EXCEPT ![r].free = @ + 1, ![r].uploads = @ - 1]
Open(p) == req[p].ch \in chans

\* sftp_sessions: what can still be used
Usable == {r \in DOMAIN recs : recs[r].listed /\ ~recs[r].closed}

---------------------------------------------------------------------------
(* Opening a session. *)

\* ensure_api_session_ready: the automation connection of the session
Begin(p) ==
  /\ At(p, "begin")
  /\ IF conn.up THEN Goto(p, "lock")
                ELSE Reply(p, "error")
  /\ UNCHANGED <<conn, openLock, recs, chans, work, cleaner, temp>>

OpenLock(p) ==
  /\ At(p, "lock") /\ openLock = None
  /\ IF Usable # {}
       THEN Goto(p, "find") /\ UNCHANGED openLock
       ELSE Goto(p, "known") /\ openLock' = p
  /\ UNCHANGED <<conn, recs, chans, work, cleaner, temp>>

\* the connection may have gone while the lock was awaited
KnownConnection(p) ==
  /\ At(p, "known")
  /\ IF conn.up
       THEN Goto(p, "first") /\ UNCHANGED openLock
       ELSE Reply(p, "error") /\ Unlock(p)
  /\ UNCHANGED <<conn, recs, chans, work, cleaner, temp>>

NewRecord(r) ==
  [listed |-> FALSE, closed |-> FALSE, pool |-> {Channel(r, 1)}, free |-> Slots,
   uploads |-> 0, builder |-> "waiting", fresh |-> {}]

OpenFirst(p) ==
  LET r == Len(recs) + 1 IN
  /\ At(p, "first")
  /\ \/ /\ ~conn.lost
        /\ recs' = Append(recs, NewRecord(r))
        /\ chans' = chans \cup {Channel(r, 1)}
        /\ req' = [req EXCEPT ![p].r = r, ![p].pc = "publish"]
        /\ UNCHANGED openLock
     \/ /\ Reply(p, "error") /\ Unlock(p)
        /\ UNCHANGED <<recs, chans>>
  /\ UNCHANGED <<conn, work, cleaner, temp>>

\* the record is inserted, then the waiting builder gets its start signal
Publish(p) ==
  /\ At(p, "publish")
  /\ recs' = [recs EXCEPT ![req[p].r].listed = TRUE, ![req[p].r].builder = "opening"]
  /\ Goto(p, "find") /\ Unlock(p)
  /\ UNCHANGED <<conn, chans, work, cleaner, temp>>

---------------------------------------------------------------------------
(* The pool builder. *)

\* join_all: every extra channel opens or fails
BuilderOpens(r) ==
  /\ recs[r].builder = "opening"
  /\ \E n \in 0..(PoolSize - 1) :
       LET fresh == {Channel(r, i + 1) : i \in 1..n} IN
       /\ n > 0 => ~conn.lost
       /\ recs' = [recs EXCEPT ![r].fresh = fresh, ![r].builder = "results"]
       /\ chans' = chans \cup fresh
  /\ UNCHANGED <<conn, openLock, req, work, cleaner, temp>>

\* one result: a closed session ends the loop, and what is left is dropped
BuilderNext(r) ==
  /\ recs[r].builder = "results"
  /\ IF recs[r].closed \/ recs[r].fresh = {}
       THEN /\ recs' = [recs EXCEPT ![r].builder = "ended", ![r].fresh = {}]
            /\ chans' = chans \ recs[r].fresh
       ELSE recs' = [recs EXCEPT ![r].builder = "locking"] /\ UNCHANGED chans
  /\ UNCHANGED <<conn, openLock, req, work, cleaner, temp>>

\* with the pool locked the flag is read again
BuilderPushes(r) ==
  /\ recs[r].builder = "locking"
  /\ IF recs[r].closed
       THEN /\ recs' = [recs EXCEPT ![r].builder = "ended", ![r].fresh = {}]
            /\ chans' = chans \ recs[r].fresh
       ELSE /\ \E c \in recs[r].fresh :
                 recs' = [recs EXCEPT ![r].pool = @ \cup {c}, ![r].fresh = @ \ {c},
                                      ![r].builder = "results"]
            /\ UNCHANGED chans
  /\ UNCHANGED <<conn, openLock, req, work, cleaner, temp>>

---------------------------------------------------------------------------
(* What every transfer does first. *)

FindSession(p) ==
  /\ At(p, "find")
  /\ IF conn.up /\ Usable # {}
       THEN \E r \in Usable :
              req' = [req EXCEPT ![p].r = r,
                                 ![p].pc = IF req[p].kind = "parallel" THEN "pool" ELSE "permit"]
       ELSE Reply(p, "error")
  /\ UNCHANGED <<conn, openLock, recs, chans, work, cleaner, temp>>

\* wait_for_transfer_pool: the pool is ready, the session closes, or the wait times out
PoolWaited(p) ==
  LET size == Most(1, Cardinality(recs[req[p].r].pool)) IN
  /\ At(p, "pool")
  /\ req' = [req EXCEPT ![p].parts = Least(Parts, Least(size, Blocks)), ![p].pc = "permit"]
  /\ UNCHANGED <<conn, openLock, recs, chans, work, cleaner, temp>>

\* a download looks at the flag once it has its permits, an upload when it registers
Permit(p) ==
  LET r == req[p].r IN
  /\ At(p, "permit") /\ recs[r].free >= req[p].parts
  /\ IF recs[r].closed /\ req[p].kind # "upload"
       THEN Reply(p, "error") /\ UNCHANGED recs
       ELSE /\ recs' = [recs EXCEPT ![r].free = @ - req[p].parts]
            /\ Goto(p, CASE req[p].kind = "upload" -> "register"
                         [] req[p].kind = "parallel" -> "spawn"
                         [] OTHER -> "open")
  /\ UNCHANGED <<conn, openLock, chans, work, cleaner, temp>>

PermitTimeout(p) ==
  /\ At(p, "permit") /\ recs[req[p].r].free < req[p].parts
  /\ Reply(p, "error")
  /\ UNCHANGED <<conn, openLock, recs, chans, work, cleaner, temp>>

\* next_transfer_session: round robin over the pool, the first channel when it is empty
NextSession(r) == IF recs[r].pool = {} THEN {Channel(r, 1)} ELSE recs[r].pool

---------------------------------------------------------------------------
(* Uploads. *)

Register(p) ==
  LET r == req[p].r IN
  /\ At(p, "register")
  /\ IF recs[r].closed THEN Reply(p, "error") /\ recs' = Give(r, 1)
                       ELSE Goto(p, "count") /\ UNCHANGED recs
  /\ UNCHANGED <<conn, openLock, chans, work, cleaner, temp>>

Count(p) ==
  /\ At(p, "count")
  /\ recs' = [recs EXCEPT ![req[p].r].uploads = @ + 1]
  /\ Goto(p, "recheck")
  /\ UNCHANGED <<conn, openLock, chans, work, cleaner, temp>>

\* seeded fault: the flag is not read again once the upload is counted
NoRecheck(p) ==
  /\ At(p, "recheck")
  /\ \E ch \in NextSession(req[p].r) : req' = [req EXCEPT ![p].ch = ch, ![p].pc = "stage"]
  /\ UNCHANGED <<conn, openLock, recs, chans, work, cleaner, temp>>

Recheck(p) ==
  LET r == req[p].r IN
  /\ At(p, "recheck")
  /\ IF recs[r].closed
       THEN Reply(p, "error") /\ recs' = GiveUp(r)
       ELSE /\ \E ch \in NextSession(r) : req' = [req EXCEPT ![p].ch = ch, ![p].pc = "stage"]
            /\ UNCHANGED recs
  /\ UNCHANGED <<conn, openLock, chans, work, cleaner, temp>>

\* the staging file is created, or not, or created and reported as failed
Stage(p) ==
  /\ At(p, "stage")
  /\ \/ Open(p) /\ temp' = [temp EXCEPT ![p] = "partial"] /\ Goto(p, "copy")
     \/ Open(p) /\ temp' = [temp EXCEPT ![p] = "partial"] /\ Goto(p, "cleanup")
     \/ UNCHANGED temp /\ Goto(p, "cleanup")
  /\ UNCHANGED <<conn, openLock, recs, chans, work, cleaner>>

\* select! between the copy and the close; then size and digest are compared
Copy(p) ==
  /\ At(p, "copy")
  /\ \/ Open(p) /\ temp' = [temp EXCEPT ![p] = "whole"] /\ Goto(p, "replace")
     \/ UNCHANGED temp /\ Goto(p, "cleanup")
  /\ UNCHANGED <<conn, openLock, recs, chans, work, cleaner>>

\* replace_remote_file: the rename is done, done but reported as failed, or not done
ReplaceRemoteFile(p) ==
  LET r == req[p].r  usable == r \in Usable /\ Channel(r, 1) \in chans /\ temp[p] = "whole" IN
  /\ At(p, "replace")
  /\ \/ /\ usable /\ conn.up
        /\ temp' = [temp EXCEPT ![p] = None]
        /\ \/ Reply(p, "ok") /\ recs' = GiveUp(r)
           \/ Goto(p, "cleanup") /\ UNCHANGED recs
     \/ Goto(p, "cleanup") /\ UNCHANGED <<temp, recs>>
  /\ UNCHANGED <<conn, openLock, chans, work, cleaner>>

\* remove_file through the channel of the upload: it needs the channel
Swept(p) == IF Open(p) THEN [temp EXCEPT ![p] = None] ELSE temp

Cleanup(p) ==
  /\ At(p, "cleanup")
  /\ temp' = Swept(p) /\ recs' = GiveUp(req[p].r) /\ Reply(p, "error")
  /\ UNCHANGED <<conn, openLock, chans, work, cleaner>>

\* the task RemoteTempFileGuard::drop spawns keeps the upload registered
Sweep(p) ==
  /\ At(p, "sweep")
  /\ temp' = Swept(p) /\ recs' = Unregister(req[p].r) /\ Goto(p, "done")
  /\ UNCHANGED <<conn, openLock, chans, work, cleaner>>

---------------------------------------------------------------------------
(* Single downloads. *)

OpenFile(p) ==
  LET r == req[p].r IN
  /\ At(p, "open")
  /\ \/ /\ \E ch \in NextSession(r) \cap chans : req' = [req EXCEPT ![p].ch = ch, ![p].pc = "stream"]
        /\ UNCHANGED recs
     \/ Reply(p, "error") /\ recs' = Give(r, 1)
  /\ UNCHANGED <<conn, openLock, chans, work, cleaner, temp>>

\* SftpDownloadStream::poll_next: the next block, the end of the range, or an error
PollSingle(p) ==
  LET r == req[p].r  sent == Len(req[p].got) IN
  /\ At(p, "stream") /\ req[p].kind = "download"
  /\ \/ /\ sent < Blocks /\ ~recs[r].closed /\ Open(p)
        /\ req' = [req EXCEPT ![p].got = Append(@, sent + 1)] /\ UNCHANGED recs
     \/ sent = Blocks /\ recs' = Give(r, 1) /\ Reply(p, "ok")
     \/ sent < Blocks /\ recs' = Give(r, 1) /\ Reply(p, "error")
  /\ UNCHANGED <<conn, openLock, chans, work, cleaner, temp>>

---------------------------------------------------------------------------
(* Parallel downloads. *)

Ended(w) == w.pc = "ended"
\* task_permit: the permits come back with the last worker, once the handler has dropped its own
Settled(p, ws) == ~At(p, "spawn") /\ \A i \in DOMAIN ws : Ended(ws[i])
\* seeded fault: every worker that ends gives the permits back
ReturnedByEach(p, ws) == IF \E i \in DOMAIN ws : Ended(ws[i]) THEN Give(req[p].r, req[p].parts) ELSE recs
Returned(p, ws) == IF Settled(p, ws) THEN Give(req[p].r, req[p].parts) ELSE recs

\* the range of worker i: the last one takes the remainder
RangeStart(p, i) == (i - 1) * (Blocks \div req[p].parts) + 1
RangeEnd(p, i) == IF i = req[p].parts THEN Blocks ELSE i * (Blocks \div req[p].parts)

SpawnWorker(p) ==
  LET i == Len(work[p]) + 1 IN
  /\ At(p, "spawn")
  /\ \E ch \in NextSession(req[p].r) :
       work' = [work EXCEPT ![p] = Append(@,
         [pc |-> "open", ch |-> ch, next |-> RangeStart(p, i), last |-> RangeEnd(p, i),
          item |-> Error, q |-> <<>>])]
  /\ IF i = req[p].parts THEN Goto(p, "stream") ELSE UNCHANGED req
  /\ UNCHANGED <<conn, openLock, recs, chans, cleaner, temp>>

SetWorker(p, i, w) == work' = [work EXCEPT ![p][i] = w]

\* open, seek and set_read_limit; then the loop: the flag, a read, or an error
WorkerReads(p, i) ==
  LET w == work[p][i] IN
  /\ w.pc \in {"open", "read"}
  /\ \/ w.pc = "open" /\ w.ch \in chans /\ SetWorker(p, i, [w EXCEPT !.pc = "read"])
     \/ /\ w.pc = "read" /\ w.next <= w.last /\ w.ch \in chans /\ ~recs[req[p].r].closed
        /\ SetWorker(p, i, [w EXCEPT !.pc = "send", !.item = w.next])
     \/ SetWorker(p, i, [w EXCEPT !.pc = "send", !.item = Error])
  /\ UNCHANGED <<conn, openLock, recs, chans, req, cleaner, temp>>

\* seeded fault: a failed read ends the range without an error in the queue
WorkerStopsShort(p, i) ==
  LET w == work[p][i] IN
  /\ w.pc = "send" /\ ~At(p, "done") /\ Len(w.q) < Depth
  /\ SetWorker(p, i, IF w.item = Error THEN [w EXCEPT !.pc = "ended"]
                            ELSE [w EXCEPT !.pc = "read", !.q = Append(@, w.item), !.next = @ + 1])
  /\ recs' = Returned(p, work'[p])
  /\ UNCHANGED <<conn, openLock, chans, req, cleaner, temp>>

\* send waits for room in the queue; the worker ends after an error
WorkerSends(p, i) ==
  LET w == work[p][i] IN
  /\ w.pc = "send" /\ ~At(p, "done") /\ Len(w.q) < Depth
  /\ SetWorker(p, i, IF w.item = Error
                       THEN [w EXCEPT !.pc = "ended", !.q = Append(@, Error)]
                       ELSE [w EXCEPT !.pc = "read", !.q = Append(@, w.item), !.next = @ + 1])
  /\ recs' = Returned(p, work'[p])
  /\ UNCHANGED <<conn, openLock, chans, req, cleaner, temp>>

\* the range is read and the file is closed; or the receiver is gone
WorkerEnds(p, i) ==
  LET w == work[p][i] IN
  /\ \/ w.pc = "read" /\ w.next > w.last
     \/ w.pc = "send" /\ At(p, "done")
  /\ SetWorker(p, i, [w EXCEPT !.pc = "ended"])
  /\ recs' = Returned(p, work'[p])
  /\ UNCHANGED <<conn, openLock, chans, req, cleaner, temp>>

\* the body is dropped: abort_download_workers, and the permits come back
Dropped(p, reply) ==
  /\ Reply(p, reply)
  /\ work' = [work EXCEPT ![p] = <<>>]
  /\ recs' = IF \A i \in DOMAIN work[p] : Ended(work[p][i]) THEN recs
             ELSE Give(req[p].r, req[p].parts)

\* OrderedChunkStream::poll_next: an item of the front queue, or on to the next queue
PollParallel(p) ==
  LET k == req[p].front IN
  /\ At(p, "stream") /\ req[p].kind = "parallel"
  /\ \/ /\ k > req[p].parts /\ Dropped(p, "ok")
     \/ /\ k <= req[p].parts /\ work[p][k].q # <<>> /\ Head(work[p][k].q) # Error
        /\ req' = [req EXCEPT ![p].got = Append(@, Head(work[p][k].q))]
        /\ work' = [work EXCEPT ![p][k].q = Tail(@)]
        /\ UNCHANGED recs
     \/ /\ k <= req[p].parts /\ work[p][k].q # <<>> /\ Head(work[p][k].q) = Error
        /\ Dropped(p, "error")
     \/ /\ k <= req[p].parts /\ work[p][k].q = <<>> /\ Ended(work[p][k])
        /\ req' = [req EXCEPT ![p].front = k + 1]
        /\ UNCHANGED <<work, recs>>
  /\ UNCHANGED <<conn, openLock, chans, cleaner, temp>>

---------------------------------------------------------------------------
(* Clients, the connection and its sessions going away. *)

\* a step of the environment the bound counts; lost: it takes the transport
Fault(lost) ==
  /\ conn.faults > 0
  /\ conn' = [conn EXCEPT !.faults = @ - 1, !.lost = lost \/ @]

\* the future of the handler, or the body, is dropped at one of its awaits
ClientGone(p) ==
  LET r == req[p].r IN
  /\ Fault(FALSE)
  /\ \/ /\ req[p].pc \in {"lock", "known", "first", "find", "pool", "permit"}
        /\ Reply(p, "gone") /\ Unlock(p)
        /\ UNCHANGED <<recs, chans, work, cleaner, temp>>
     \/ \* neither listed nor started: the builder returns and the channel goes with the record
        /\ At(p, "publish")
        /\ Reply(p, "gone") /\ Unlock(p)
        /\ recs' = [recs EXCEPT ![r].builder = "ended"]
        /\ chans' = chans \ {Channel(r, 1)}
        /\ UNCHANGED <<work, cleaner, temp>>
     \/ \* RemoteTempFileGuard::drop
        /\ req[p].pc \in {"stage", "copy", "replace", "cleanup"}
        /\ req' = [req EXCEPT ![p].pc = "sweep", ![p].reply = "gone"]
        /\ recs' = Give(r, 1)
        /\ UNCHANGED <<openLock, chans, work, cleaner, temp>>
     \/ /\ At(p, "open") \/ (At(p, "stream") /\ req[p].kind = "download")
        /\ Reply(p, "gone") /\ recs' = Give(r, 1)
        /\ UNCHANGED <<openLock, chans, work, cleaner, temp>>
     \/ \* between two spawns: the workers are detached and end at their next send
        /\ At(p, "spawn")
        /\ Reply(p, "gone")
        /\ recs' = IF \A i \in DOMAIN work[p] : Ended(work[p][i])
                     THEN Give(r, req[p].parts) ELSE recs
        /\ UNCHANGED <<openLock, chans, work, cleaner, temp>>
     \/ /\ At(p, "stream") /\ req[p].kind = "parallel" /\ Dropped(p, "gone")
        /\ UNCHANGED <<openLock, chans, cleaner, temp>>

\* the network takes the transport, and every channel with it
TransportLost ==
  /\ conn.up /\ ~conn.lost
  /\ Fault(TRUE)
  /\ chans' = {}
  /\ UNCHANGED <<openLock, recs, req, work, cleaner, temp>>

\* the connection is unlisted and its children are closed
Disconnect ==
  /\ conn.up
  /\ conn' = [conn EXCEPT !.up = FALSE]
  /\ cleaner' = [cleaner EXCEPT !.pc = "lock"]
  /\ UNCHANGED <<openLock, recs, chans, req, work, temp>>

\* seeded fault: sessions are unlisted without waiting for an open in flight
RemoveWithoutLock ==
  LET listed == {r \in DOMAIN recs : recs[r].listed} IN
  /\ cleaner.pc = "lock"
  /\ recs' = [r \in DOMAIN recs |-> IF r \in listed
                THEN [recs[r] EXCEPT !.listed = FALSE, !.closed = TRUE] ELSE recs[r]]
  /\ \/ listed = {} /\ cleaner' = [cleaner EXCEPT !.pc = "closed"]
     \/ \E r \in listed : cleaner' = [cleaner EXCEPT !.pc = "abort", !.r = r]
  /\ UNCHANGED <<conn, openLock, chans, req, work, temp>>

\* remove_sftp_sessions_for_connection, behind any open in flight
RemoveSessions ==
  LET listed == {r \in DOMAIN recs : recs[r].listed} IN
  /\ cleaner.pc = "lock" /\ openLock = None
  /\ recs' = [r \in DOMAIN recs |-> IF r \in listed
                THEN [recs[r] EXCEPT !.listed = FALSE, !.closed = TRUE] ELSE recs[r]]
  /\ \/ listed = {} /\ cleaner' = [cleaner EXCEPT !.pc = "closed"]
     \/ \E r \in listed : cleaner' = [cleaner EXCEPT !.pc = "abort", !.r = r]
  /\ UNCHANGED <<conn, openLock, chans, req, work, temp>>

\* SftpRecord::close: the builder is aborted at an await and joined; what it opened is dropped
AbortBuilder ==
  LET r == cleaner.r IN
  /\ cleaner.pc = "abort"
  /\ recs' = [recs EXCEPT ![r].builder = "ended", ![r].fresh = {}]
  /\ chans' = chans \ recs[r].fresh
  /\ cleaner' = [cleaner EXCEPT !.pc = "wait"]
  /\ UNCHANGED <<conn, openLock, req, work, temp>>

\* wait_for_api_upload_cleanup: no upload left, or API_UPLOAD_CLEANUP_TIMEOUT
WaitForUploads ==
  /\ cleaner.pc = "wait"
  /\ cleaner' = [cleaner EXCEPT !.pc = "take", !.late = recs[cleaner.r].uploads > 0]
  /\ UNCHANGED <<conn, openLock, recs, chans, req, work, temp>>

TakePool ==
  LET r == cleaner.r IN
  /\ cleaner.pc = "take"
  /\ recs' = [recs EXCEPT ![r].pool = {}]
  /\ chans' = chans \ recs[r].pool
  /\ cleaner' = [cleaner EXCEPT !.pc = "closed"]
  /\ UNCHANGED <<conn, openLock, req, work, temp>>

\* download_stream has returned: its file reads on, and the Arc of the channel is dropped
Streaming(p) == At(p, "stream") /\ req[p].kind = "download"

\* the Arcs of a channel other than the pool's own
InUse(c) ==
  \/ \E p \in Requests : req[p].ch = c /\ ~At(p, "done") /\ ~Streaming(p)
  \/ \E p \in Requests : \E i \in DOMAIN work[p] : work[p][i].ch = c /\ ~Ended(work[p][i])

\* seeded fault: every extra channel is reclaimed
CompactAll(r) ==
  LET idle == recs[r].pool \ {Channel(r, 1)} IN
  /\ recs[r].listed /\ idle # {} /\ Fault(FALSE)
  /\ recs' = [recs EXCEPT ![r].pool = @ \ idle]
  /\ chans' = chans \ idle
  /\ UNCHANGED <<openLock, req, work, cleaner, temp>>

\* compact_sftp_transfer_pool_for_connection, when the server refuses a new channel
Compact(r) ==
  LET idle == {c \in recs[r].pool \ {Channel(r, 1)} : ~InUse(c)} IN
  /\ recs[r].listed /\ idle # {} /\ Fault(FALSE)
  /\ recs' = [recs EXCEPT ![r].pool = @ \ idle]
  /\ chans' = chans \ idle
  /\ UNCHANGED <<openLock, req, work, cleaner, temp>>

---------------------------------------------------------------------------
Handler(p) ==
  \/ Begin(p) \/ OpenLock(p) \/ KnownConnection(p) \/ OpenFirst(p) \/ Publish(p)
  \/ FindSession(p) \/ PoolWaited(p) \/ Permit(p) \/ PermitTimeout(p)
  \/ Register(p) \/ Count(p) \/ Recheck(p) \/ Stage(p) \/ Copy(p) \/ ReplaceRemoteFile(p)
  \/ Cleanup(p) \/ Sweep(p) \/ OpenFile(p) \/ PollSingle(p) \/ SpawnWorker(p) \/ PollParallel(p)

Worker(p, i) == WorkerReads(p, i) \/ WorkerSends(p, i) \/ WorkerEnds(p, i)

Builder(r) == BuilderOpens(r) \/ BuilderNext(r) \/ BuilderPushes(r)

Cleaner == RemoveSessions \/ AbortBuilder \/ WaitForUploads \/ TakePool

Quiet == \A p \in Requests : At(p, "done") /\ \A i \in DOMAIN work[p] : Ended(work[p][i])

Finished ==
  /\ Quiet /\ ~conn.up /\ cleaner.pc = "closed"
  /\ \A r \in DOMAIN recs : recs[r].builder = "ended"
  /\ UNCHANGED vars

Next ==
  \/ \E p \in Requests : Handler(p) \/ ClientGone(p) \/ \E i \in DOMAIN work[p] : Worker(p, i)
  \/ \E r \in DOMAIN recs : Builder(r) \/ Compact(r)
  \/ Cleaner \/ TransportLost \/ Disconnect \/ Finished

Spec == Init /\ [][Next]_vars

---------------------------------------------------------------------------
\* an upload that is over leaves no staging file on the server, unless the close gave up
\* waiting for it or the transport was lost (RemoteTempFileGuard, register_api_upload)
NoStagingLeft ==
  \A p \in Requests : At(p, "done") /\ temp[p] # None
    => cleaner.late \/ conn.lost

\* the permits of a session are never given twice, and all are back when nothing runs
\* (transfer_slots, task_permit)
SlotsReturned ==
  \A r \in DOMAIN recs :
    /\ recs[r].free \in 0..Slots
    /\ Quiet => recs[r].free = Slots /\ recs[r].uploads = 0

\* a download delivers the blocks of its file in order, and ends well only when it is whole
\* (SftpDownloadStream, OrderedChunkStream)
DownloadExact ==
  \A p \in Requests :
    /\ req[p].got = [i \in 1..Len(req[p].got) |-> i]
    /\ req[p].reply = "ok" /\ req[p].kind # "upload" => Len(req[p].got) = Blocks

\* the channel of an upload, of its sweep, or of a worker is closed under it only by the close of
\* its session or a lost transport, though the pool is compacted (take_idle_extra_sessions)
HolderKeepsChannel ==
  \A r \in DOMAIN recs : ~recs[r].closed /\ ~conn.lost =>
    /\ \A p \in Requests :
         req[p].r = r /\ req[p].ch # None /\ ~At(p, "done") /\ ~Streaming(p) => Open(p)
    /\ \A p \in Requests : req[p].r = r =>
         \A i \in DOMAIN work[p] : Ended(work[p][i]) \/ work[p][i].ch \in chans

\* so is the channel of any download: "an active transfer holds another Arc clone and must be
\* allowed to finish" (take_idle_extra_sessions).  The file of a single download holds none.
ChannelHeld ==
  \A p \in Requests :
    Streaming(p) /\ ~recs[req[p].r].closed /\ ~conn.lost => Open(p)

\* once the sessions of a connection are closed no channel of it is open and none is opened
\* any more: neither by an open in flight nor by a builder (remove_sftp_sessions_for_connection)
NoChannelLeft ==
  cleaner.pc = "closed" => chans = {}
=============================================================================
