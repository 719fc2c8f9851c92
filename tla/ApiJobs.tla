------------------------------ MODULE ApiJobs ------------------------------
(***************************************************************************)
(* The asynchronous command jobs of the REST server: the registry          *)
(* (api_server/jobs.rs), the task that runs a job and the event streams    *)
(* that follow it (api_server/handlers_jobs.rs), the execution limiter and *)
(* the set of sessions the server may use (api_server/mod.rs).             *)
(*                                                                         *)
(* Every step is what one task does between two awaits that can be         *)
(* overtaken.  A command, its output and its result are abstracted to      *)
(* which of the outcomes the code tells apart they lead to.                *)
(***************************************************************************)
EXTENDS Naturals, Sequences, FiniteSets, SequencesExt

CONSTANTS
  Jobs,            \* job identifiers, numbered in the order of creation
  Sessions,        \* session identifiers
  Streams,         \* event streams a client may open
  NoJob, NoSem,    \* no job; no semaphore
  MaxRetained,     \* MAX_RETAINED_JOBS
  MaxActive,       \* MAX_ACTIVE_JOBS_PER_SESSION
  SessionPermits,  \* MAX_API_EXEC_CONCURRENCY_PER_SESSION
  GlobalPermits,   \* MAX_API_EXEC_CONCURRENCY
  MaxEvents,       \* MAX_JOB_EVENTS, the events a record keeps
  Ring,            \* the capacity of a record's broadcast channel
  Budgets          \* bounds: how many jobs, output chunks, event streams, policy changes,
                   \* shutdowns and client cancels a behaviour may have at most, and
                   \* of how many handlers the client may disconnect

ASSUME JobsAssumption ==
  /\ Jobs \subseteq Nat /\ IsFiniteSet(Jobs)
  /\ {MaxRetained, MaxActive, SessionPermits, GlobalPermits, MaxEvents, Ring} \subseteq Nat \ {0}
  /\ Budgets \subseteq [jobs : Nat, chunks : Nat, streams : Nat, policies : Nat, shutdowns : Nat,
                          cancels : Nat, drops : Nat]

VARIABLES
  rec,       \* rec[j]: the JobRecord of j (its Arc outlives the registry entry)
  registry,  \* the jobs in JobRegistry.jobs
  creator,   \* creator[j]: where the rest_jobs_create handler of j is
  task,      \* task[j]: where execute_job of j is, and its verdict
  canceler,  \* canceler[j]: the event a request_cancel has yet to signal and send, or 0
  sem,       \* sem[s]: the semaphore the limiter keeps for s, or NoSem
  held,      \* held[j]: the semaphore the task of j queues on or holds
  allowed,   \* allowed_session_set
  policy,    \* update_allowed_sessions: its step, its new set, what it has to do
  closing,   \* shutdown: its step and the records it took
  stream,    \* stream[c]: the state of an event stream
  left       \* what is left of the behaviour's budget

vars == <<left, rec, registry, creator, task, canceler, sem, held, allowed, policy, closing, stream>>

Terminal == {"completed", "failed", "canceled", "timedOut"}

Statuses == {"queued", "connecting", "running", "canceling"} \cup Terminal

\* A status event carries the name of the status it reports.
Event(id, name) == [id |-> id, name |-> name]

Existing == {j \in Jobs : rec[j].status # "none"}

IsTerminal(j) == rec[j].status \in Terminal

Spend(what) == left[what] > 0 /\ left' = [left EXCEPT ![what] = @ - 1]

IsActive(j) == rec[j].status \in Statuses \ Terminal

PushEvent(r, name) ==
  LET all == Append(r.events, Event(r.last + 1, name)) IN
  [r EXCEPT !.last = @ + 1,
            !.events = SubSeq(all, IF Len(all) > MaxEvents THEN 2 ELSE 1, Len(all))]

Listening(c, j) == stream[c].job = j /\ stream[c].pc \in {"subscribed", "live"}

Sent(j, e) ==
  [c \in Streams |->
     IF ~ Listening(c, j) THEN stream[c]
     ELSE LET q == Append(stream[c].queue, e) IN
          [stream[c] EXCEPT !.queue = SubSeq(q, IF Len(q) > Ring THEN 2 ELSE 1, Len(q)),
                            !.lagged = @ \/ Len(q) > Ring]]

\* A status change that is stored and sent under the state lock.
Announce(j, status) ==
  /\ rec' = [rec EXCEPT ![j] = [PushEvent(@, status) EXCEPT !.status = status]]
  /\ stream' = Sent(j, Event(rec[j].last + 1, status))

FinishCanceled(j) ==
  IF IsTerminal(j) THEN UNCHANGED <<left, rec, stream>> ELSE Announce(j, "canceled")

\* seeded fault: only the cancel flag is looked at, not the status
DoomedByFlag(j) == rec[j].cancel

\* What mark_connecting, mark_running, append_output and the finishers ask first.
Doomed(j) == rec[j].cancel \/ rec[j].status = "canceling"

\* finish_result and finish_error.
Finish(j, status) ==
  IF Doomed(j) THEN FinishCanceled(j)
  ELSE IF IsTerminal(j) THEN UNCHANGED <<left, rec, stream>>
  ELSE Announce(j, status)

(***************************************************************************)
(* JobRegistry.                                                            *)
(***************************************************************************)
NewRecord(s) ==
  [session |-> s, status |-> "queued", events |-> <<Event(1, "queued")>>, last |-> 1,
   cancel |-> FALSE, handle |-> "none"]

NoRecord == [NewRecord(NoJob) EXCEPT !.status = "none"]

\* prune_expired: any finished job may be past its retention by now.
Pruned(reg) == {reg \ gone : gone \in SUBSET {j \in reg : IsTerminal(j)}}

\* evict_oldest_terminal; reg itself when there is nothing to evict.
Evicted(reg) ==
  {reg \ {j} : j \in {k \in reg : IsTerminal(k) /\ \A i \in reg : IsTerminal(i) => k <= i}}

ActiveOf(reg, s) == {j \in reg : IsActive(j) /\ rec[j].session = s}

Init ==
  /\ left \in Budgets
  /\ rec = [j \in Jobs |-> NoRecord]
  /\ registry = {}
  /\ creator = [j \in Jobs |-> "idle"]
  /\ task = [j \in Jobs |-> [pc |-> "none", verdict |-> "none"]]
  /\ canceler = [j \in Jobs |-> 0]
  /\ sem = [s \in Sessions |-> 1]
  /\ held = [j \in Jobs |-> NoSem]
  /\ allowed = Sessions
  /\ policy = [pc |-> "idle", set |-> Sessions, todo |-> {}]
  /\ closing = [pc |-> "open", recs |-> {}, todo |-> {}]
  /\ stream = [c \in Streams |-> [pc |-> "idle", job |-> NoJob, after |-> 0, last |-> 0,
                                  queue |-> <<>>, lagged |-> FALSE, told |-> <<>>]]

(***************************************************************************)
(* rest_jobs_create: auth, validation and the access check admit the       *)
(* request; create runs under mutation_lock; the task is spawned; its      *)
(* handle is attached.  A client that disconnects drops the handler        *)
(* between two of these steps.                                             *)
(***************************************************************************)
Admit(j, s) ==
  /\ closing.pc = "open"
  /\ creator[j] = "idle" /\ \A i \in Jobs : i < j => creator[i] # "idle"
  /\ s \in allowed /\ Spend("jobs")
  /\ creator' = [creator EXCEPT ![j] = "admitted"]
  /\ rec' = [rec EXCEPT ![j].session = s]
  /\ UNCHANGED <<registry, task, canceler, sem, held, allowed, policy, closing, stream>>

Create(j) ==
  /\ creator[j] = "admitted"
  /\ \E kept \in Pruned(registry) :
       LET s == rec[j].session
           room == IF Cardinality(kept) < MaxRetained THEN {kept} ELSE Evicted(kept) IN
       \/ /\ room = {}                                   \* nothing to evict: refused
          /\ registry' = kept
          /\ creator' = [creator EXCEPT ![j] = "done"]
          /\ UNCHANGED rec
       \/ \E reg \in room :
            IF Cardinality(ActiveOf(kept, s)) >= MaxActive
              THEN /\ registry' = reg                    \* refused, yet the eviction stays
                   /\ creator' = [creator EXCEPT ![j] = "done"]
                   /\ UNCHANGED rec
              ELSE /\ registry' = reg \cup {j}
                   /\ rec' = [rec EXCEPT ![j] = NewRecord(s)]
                   /\ creator' = [creator EXCEPT ![j] = "created"]
  /\ UNCHANGED <<left, task, canceler, sem, held, allowed, policy, closing, stream>>

Spawn(j) ==
  /\ creator[j] = "created"
  /\ creator' = [creator EXCEPT ![j] = "spawned"]
  /\ task' = [task EXCEPT ![j].pc = "spawned"]
  /\ UNCHANGED <<left, rec, registry, canceler, sem, held, allowed, policy, closing, stream>>

\* The task stops wherever it is: its permit and its place in a queue go back.
Aborted(j) ==
  /\ task' = [task EXCEPT ![j].pc = "over"]
  /\ held' = [held EXCEPT ![j] = NoSem]

AttachHandle(j) ==
  /\ creator[j] = "spawned"
  /\ creator' = [creator EXCEPT ![j] = "done"]
  /\ IF j \in registry
       THEN /\ rec' = [rec EXCEPT ![j].handle = "set"]
            /\ UNCHANGED <<task, held>>
       ELSE Aborted(j) /\ UNCHANGED rec
  /\ UNCHANGED <<left, registry, canceler, sem, allowed, policy, closing, stream>>

DropCreator(j) ==
  /\ creator[j] \in {"admitted", "created", "spawned"} /\ Spend("drops")
  /\ creator' = [creator EXCEPT ![j] = "done"]
  /\ UNCHANGED <<rec, registry, task, canceler, sem, held, allowed, policy, closing, stream>>

(***************************************************************************)
(* request_cancel marks the record under its lock (RequestCancel); only    *)
(* after that does it set cancel_tx and send the event (CancelSignals).    *)
(* Its callers are rest_job_cancel, cancel_disallowed and shutdown.        *)
(***************************************************************************)
MarkCanceling(j) ==
  IF ~ IsActive(j) \/ rec[j].status = "canceling"
    THEN UNCHANGED <<left, rec, canceler>>
    ELSE /\ rec' = [rec EXCEPT ![j] = [PushEvent(@, "canceling") EXCEPT !.status = "canceling"]]
         /\ canceler' = [canceler EXCEPT ![j] = rec[j].last + 1]

\* rest_jobs_list and rest_job_get only read, but prune first.
LookUp ==
  /\ closing.pc = "open"
  /\ registry' \in Pruned(registry) \ {registry}
  /\ UNCHANGED <<left, rec, creator, task, canceler, sem, held, allowed, policy, closing, stream>>

RestCancel(j) ==
  /\ closing.pc = "open"
  /\ j \in registry /\ rec[j].session \in allowed
  /\ IsActive(j) /\ rec[j].status # "canceling" /\ Spend("cancels")
  /\ MarkCanceling(j)
  /\ UNCHANGED <<registry, creator, task, sem, held, allowed, policy, closing, stream>>

CancelSignals(j) ==
  /\ canceler[j] # 0
  /\ canceler' = [canceler EXCEPT ![j] = 0]
  /\ rec' = [rec EXCEPT ![j].cancel = TRUE]
  /\ stream' = Sent(j, Event(canceler[j], "canceling"))
  /\ UNCHANGED <<left, registry, creator, task, sem, held, allowed, policy, closing>>

(***************************************************************************)
(* execute_job.                                                            *)
(***************************************************************************)
Goto(j, pc) == task' = [task EXCEPT ![j].pc = pc]

\* The async block returns: the permit, if there is one, is dropped with it.
Leave(j) == Goto(j, "over") /\ held' = [held EXCEPT ![j] = NoSem]

\* A verdict is written by Conclude, after the awaits that record its timings.
Verdict(j, v) == task' = [task EXCEPT ![j] = [pc |-> "verdict", verdict |-> v]]

MarkConnecting(j) ==
  /\ task[j].pc = "spawned"
  /\ \/ /\ Doomed(j) /\ FinishCanceled(j) /\ Leave(j)
     \/ /\ ~ Doomed(j) /\ IsTerminal(j) /\ Leave(j) /\ UNCHANGED <<rec, stream>>
     \/ /\ ~ Doomed(j) /\ ~ IsTerminal(j)
        /\ Announce(j, "connecting") /\ Goto(j, "connecting") /\ UNCHANGED held
  /\ UNCHANGED <<left, registry, creator, canceler, sem, allowed, policy, closing>>

\* The biased select polls the cancel flag first, while connecting and in the queue.
CanceledWhileWaiting(j) ==
  /\ task[j].pc \in {"connecting", "enter", "session", "global"}
  /\ rec[j].cancel
  /\ FinishCanceled(j)
  /\ Leave(j)
  /\ UNCHANGED <<left, registry, creator, canceler, sem, allowed, policy, closing>>

\* ensure_api_session_ready returns; a session withdrawn meanwhile is refused.
ConnectReturns(j) ==
  /\ task[j].pc = "connecting" /\ ~ rec[j].cancel
  /\ \/ Verdict(j, "failed")
     \/ rec[j].session \in allowed /\ Goto(j, "enter")
  /\ UNCHANGED <<left, rec, registry, creator, canceler, sem, held, allowed, policy, closing, stream>>

(***************************************************************************)
(* ApiExecutionLimiter: a semaphore is named by a number, so that two of   *)
(* the same session can be told apart; NoSem is "not in the map".          *)
(***************************************************************************)
Fresh(s) == CHOOSE n \in 1..(Cardinality(Jobs) + 1) :
              \A j \in Jobs : rec[j].session = s => held[j] # n

InUse(s) == {j \in Jobs : rec[j].session = s /\ held[j] = sem[s] /\ held[j] # NoSem}

Permitted == {"global", "access", "permitted", "executing"}

HasSessionPermit(j) == held[j] # NoSem /\ (task[j].pc \in Permitted \cup {"verdict"})

HasGlobalPermit(j) == HasSessionPermit(j) /\ task[j].pc # "global"

EnterQueue(j) ==
  LET s == rec[j].session IN
  /\ task[j].pc = "enter" /\ ~ rec[j].cancel
  /\ sem' = [sem EXCEPT ![s] = IF @ = NoSem THEN Fresh(s) ELSE @]
  /\ held' = [held EXCEPT ![j] = sem'[s]]
  /\ Goto(j, "session")
  /\ UNCHANGED <<left, rec, registry, creator, canceler, allowed, policy, closing, stream>>

AcquireSession(j) ==
  /\ task[j].pc = "session" /\ ~ rec[j].cancel
  /\ Cardinality({i \in Jobs : /\ rec[i].session = rec[j].session
                               /\ held[i] = held[j]
                               /\ HasSessionPermit(i)}) < SessionPermits
  /\ Goto(j, "global")
  /\ UNCHANGED <<left, rec, registry, creator, canceler, sem, held, allowed, policy, closing, stream>>

AcquireGlobal(j) ==
  /\ task[j].pc = "global" /\ ~ rec[j].cancel
  /\ Cardinality({i \in Jobs : HasGlobalPermit(i)}) < GlobalPermits
  /\ Goto(j, "access")
  /\ UNCHANGED <<left, rec, registry, creator, canceler, sem, held, allowed, policy, closing, stream>>

\* API_EXEC_QUEUE_TIMEOUT: the place in the queue and the session permit go back.
QueueTimesOut(j) ==
  /\ task[j].pc \in {"session", "global"} /\ ~ rec[j].cancel
  /\ Verdict(j, "failed")
  /\ held' = [held EXCEPT ![j] = NoSem]
  /\ UNCHANGED <<left, rec, registry, creator, canceler, sem, allowed, policy, closing, stream>>

\* seeded fault: a withdrawn session loses its semaphore while permits are out
KeepOnlyAllowed(set) ==
  [s \in Sessions |-> IF s \notin set THEN NoSem ELSE IF sem[s] = NoSem THEN Fresh(s) ELSE sem[s]]

\* update_sessions: a semaphore somebody still refers to is kept.
UpdatedSems(set) ==
  [s \in Sessions |-> IF s \in set THEN (IF sem[s] = NoSem THEN Fresh(s) ELSE sem[s])
                      ELSE IF InUse(s) # {} THEN sem[s] ELSE NoSem]

VerifyAccess(j) ==
  /\ task[j].pc = "access"
  /\ IF rec[j].session \in allowed THEN Goto(j, "permitted") ELSE Verdict(j, "failed")
  /\ UNCHANGED <<left, rec, registry, creator, canceler, sem, held, allowed, policy, closing, stream>>

MarkRunning(j) ==
  /\ task[j].pc = "permitted"
  /\ \/ /\ Doomed(j) /\ FinishCanceled(j) /\ Leave(j)
     \/ /\ ~ Doomed(j) /\ IsTerminal(j) /\ Leave(j) /\ UNCHANGED <<rec, stream>>
     \/ /\ ~ Doomed(j) /\ ~ IsTerminal(j)
        /\ Announce(j, "running") /\ Goto(j, "executing") /\ UNCHANGED held
  /\ UNCHANGED <<left, registry, creator, canceler, sem, allowed, policy, closing>>

\* One chunk through the output task: append_output.
AppendOutput(j) ==
  /\ task[j].pc = "executing"
  /\ Spend("chunks")
  /\ \/ Doomed(j) /\ ~ IsTerminal(j) /\ FinishCanceled(j)
     \/ /\ ~ Doomed(j) /\ ~ IsTerminal(j)
        /\ rec' = [rec EXCEPT ![j] = PushEvent(@, "output")]
        /\ stream' = Sent(j, Event(rec[j].last + 1, "output"))
  /\ UNCHANGED <<registry, creator, task, canceler, sem, held, allowed, policy, closing>>

\* api_exec_stream returns and the output task has drained: the command ended,
\* ran out of time, was canceled, or its connection went away.
ExecReturns(j, v) ==
  /\ task[j].pc = "executing"
  /\ Verdict(j, v)
  /\ UNCHANGED <<left, rec, registry, creator, canceler, sem, held, allowed, policy, closing, stream>>

Conclude(j) ==
  /\ task[j].pc = "verdict"
  /\ Finish(j, task[j].verdict)
  /\ Leave(j)
  /\ UNCHANGED <<left, registry, creator, canceler, sem, allowed, policy, closing>>

(***************************************************************************)
(* update_allowed_sessions: the cache, the limiter, the jobs, and last the *)
(* connections (whose end is an error of the command that uses one).       *)
(***************************************************************************)
PolicyAt(pc) == policy.pc = pc /\ closing.pc = "open"

ReplaceCache(set) ==
  /\ PolicyAt("idle") /\ set # allowed /\ Spend("policies")
  /\ allowed' = set
  /\ policy' = [policy EXCEPT !.pc = "limiter", !.set = set]
  /\ UNCHANGED <<rec, registry, creator, task, canceler, sem, held, closing, stream>>

UpdateSessions ==
  /\ PolicyAt("limiter")
  /\ sem' = UpdatedSems(policy.set)
  /\ policy' = [policy EXCEPT !.pc = "snapshot"]
  /\ UNCHANGED <<left, rec, registry, creator, task, canceler, held, allowed, closing, stream>>

\* seeded fault: the jobs to cancel are those already told to run
SnapshotRunning ==
  /\ PolicyAt("snapshot")
  /\ policy' = [policy EXCEPT !.pc = "cancel", !.todo = {j \in registry : rec[j].status = "running"}]
  /\ UNCHANGED <<left, rec, registry, creator, task, canceler, sem, held, allowed, closing, stream>>

SnapshotJobs ==
  /\ PolicyAt("snapshot")
  /\ policy' = [policy EXCEPT !.pc = "cancel", !.todo = registry]
  /\ UNCHANGED <<left, rec, registry, creator, task, canceler, sem, held, allowed, closing, stream>>

CancelDisallowed(j) ==
  /\ PolicyAt("cancel") /\ j \in policy.todo
  /\ policy' = [policy EXCEPT !.todo = @ \ {j}]
  /\ IF rec[j].session \notin policy.set THEN MarkCanceling(j) ELSE UNCHANGED <<rec, canceler>>
  /\ UNCHANGED <<left, registry, creator, task, sem, held, allowed, closing, stream>>

\* cancel_disallowed awaits each request_cancel, hence its signal, before it returns.
PolicyDone ==
  /\ PolicyAt("cancel") /\ policy.todo = {}
  /\ \A j \in Jobs : rec[j].session \notin policy.set => canceler[j] = 0
  /\ policy' = [policy EXCEPT !.pc = "idle"]
  /\ UNCHANGED <<left, rec, registry, creator, task, canceler, sem, held, allowed, closing, stream>>

(***************************************************************************)
(* JobRegistry::shutdown.                                                  *)
(***************************************************************************)
ShutdownBegins ==
  /\ closing.pc = "open" /\ policy.pc = "idle" /\ Spend("shutdowns")
  /\ closing' = [pc |-> "cancel", recs |-> registry, todo |-> registry]
  /\ UNCHANGED <<rec, registry, creator, task, canceler, sem, held, allowed, policy, stream>>

ShutdownCancels(j) ==
  /\ closing.pc = "cancel" /\ j \in closing.todo
  /\ MarkCanceling(j)
  /\ closing' = [closing EXCEPT !.todo = @ \ {j}]
  /\ UNCHANGED <<left, registry, creator, task, sem, held, allowed, policy, stream>>

ShutdownCollects ==
  /\ closing.pc = "cancel" /\ closing.todo = {}
  /\ \A j \in closing.recs : canceler[j] = 0
  /\ closing' = [closing EXCEPT !.pc = "collect", !.todo = closing.recs]
  /\ UNCHANGED <<left, rec, registry, creator, task, canceler, sem, held, allowed, policy, stream>>

TakeHandle(j) ==
  /\ closing.pc = "collect" /\ j \in closing.todo
  /\ closing' = [closing EXCEPT !.todo = @ \ {j}]
  /\ IF rec[j].handle = "set"
       THEN rec' = [rec EXCEPT ![j].handle = "taken"] /\ UNCHANGED stream
       ELSE FinishCanceled(j)
  /\ UNCHANGED <<left, registry, creator, task, canceler, sem, held, allowed, policy>>

\* The tasks whose handle the shutdown took and that have not returned.
Unfinished == {j \in closing.recs : rec[j].handle = "taken" /\ task[j].pc # "over"}

\* seeded fault: what is still running when the time is up is left alone
ShutdownGivesUp ==
  /\ closing.pc = "collect" /\ closing.todo = {}
  /\ closing' = [closing EXCEPT !.pc = "done"]
  /\ UNCHANGED <<left, rec, registry, creator, task, canceler, sem, held, allowed, policy, stream>>

\* Every task returned in time, or JOB_SHUTDOWN_TIMEOUT is over: the rest is aborted.
ShutdownEnds ==
  /\ closing.pc = "collect" /\ closing.todo = {}
  /\ closing' = [closing EXCEPT !.pc = "done"]
  /\ task' = [j \in Jobs |-> IF j \in Unfinished THEN [task[j] EXCEPT !.pc = "over"] ELSE task[j]]
  /\ held' = [j \in Jobs |-> IF j \in Unfinished THEN NoSem ELSE held[j]]
  /\ UNCHANGED <<left, rec, registry, creator, canceler, sem, allowed, policy, stream>>

(***************************************************************************)
(* rest_job_events: subscribe takes its receiver first and then copies the *)
(* stored events; the stream tells those, then the live ones.              *)
(***************************************************************************)
Subscribe(c, j, after) ==
  /\ stream[c].pc = "idle" /\ closing.pc = "open" /\ Spend("streams")
  /\ j \in registry /\ rec[j].session \in allowed
  /\ stream' = [stream EXCEPT ![c].pc = "subscribed", ![c].job = j, ![c].after = after]
  /\ UNCHANGED <<rec, registry, creator, task, canceler, sem, held, allowed, policy, closing>>

Told(id, snapshot) == [id |-> id, snapshot |-> snapshot]

\* The stored events after the one the client has seen last.
Stored(c) ==
  LET events == rec[stream[c].job].events
      later[n \in 0..Len(events)] ==
        IF n = 0 THEN <<>>
        ELSE IF events[n].id > stream[c].after
               THEN Append(later[n - 1], Told(events[n].id, FALSE)) ELSE later[n - 1]
  IN later[Len(events)]

\* seeded fault: the copy does not say up to where it reaches
CopyWithoutMark(c) ==
  LET j == stream[c].job IN
  /\ stream[c].pc = "subscribed"
  /\ stream' = [stream EXCEPT
                 ![c].pc = IF IsTerminal(j) THEN "ended" ELSE "live",
                 ![c].told = Stored(c),
                 ![c].last = stream[c].after]
  /\ UNCHANGED <<left, rec, registry, creator, task, canceler, sem, held, allowed, policy, closing>>

CopyStored(c) ==
  LET j == stream[c].job IN
  /\ stream[c].pc = "subscribed"
  /\ stream' = [stream EXCEPT
                 ![c].pc = IF IsTerminal(j) THEN "ended" ELSE "live",
                 ![c].told = Stored(c),
                 ![c].last = IF rec[j].last > stream[c].after THEN rec[j].last ELSE stream[c].after]
  /\ UNCHANGED <<left, rec, registry, creator, task, canceler, sem, held, allowed, policy, closing>>

\* An event at or below the last told one is skipped (is_terminal_event ends the stream).
Receive(c) ==
  /\ stream[c].pc = "live" /\ ~ stream[c].lagged /\ stream[c].queue # <<>>
  /\ LET e == Head(stream[c].queue)
         news == e.id > stream[c].last IN
     stream' = [stream EXCEPT
                 ![c].queue = Tail(@),
                 ![c].last = IF news THEN e.id ELSE @,
                 ![c].told = IF news THEN Append(@, Told(e.id, FALSE)) ELSE @,
                 ![c].pc = IF news /\ e.name \in Terminal THEN "ended" ELSE @]
  /\ UNCHANGED <<left, rec, registry, creator, task, canceler, sem, held, allowed, policy, closing>>

\* A receiver that lagged is given the whole record instead: snapshot_event.
ReceiveLagged(c) ==
  LET j == stream[c].job IN
  /\ stream[c].pc = "live" /\ stream[c].lagged
  /\ stream' = [stream EXCEPT
                 ![c].lagged = FALSE,
                 ![c].last = rec[j].last,
                 ![c].told = Append(@, Told(rec[j].last, TRUE)),
                 ![c].pc = IF IsTerminal(j) THEN "ended" ELSE @]
  /\ UNCHANGED <<left, rec, registry, creator, task, canceler, sem, held, allowed, policy, closing>>

-----------------------------------------------------------------------------
TaskStep(j) ==
  \/ MarkConnecting(j) \/ CanceledWhileWaiting(j) \/ ConnectReturns(j)
  \/ EnterQueue(j) \/ AcquireSession(j) \/ AcquireGlobal(j) \/ QueueTimesOut(j)
  \/ VerifyAccess(j) \/ MarkRunning(j) \/ Conclude(j)
  \/ \E v \in {"completed", "failed", "timedOut"} : ExecReturns(j, v)

StreamStep(c) == CopyStored(c) \/ Receive(c) \/ ReceiveLagged(c)

Next ==
  \/ \E j \in Jobs :
       \/ \E s \in Sessions : Admit(j, s)
       \/ Create(j) \/ Spawn(j) \/ AttachHandle(j) \/ DropCreator(j)
       \/ RestCancel(j) \/ CancelSignals(j)
       \/ TaskStep(j) \/ AppendOutput(j)
       \/ CancelDisallowed(j) \/ ShutdownCancels(j) \/ TakeHandle(j)
  \/ \E set \in SUBSET Sessions : ReplaceCache(set)
  \/ LookUp \/ UpdateSessions \/ SnapshotJobs \/ PolicyDone
  \/ ShutdownBegins \/ ShutdownCollects \/ ShutdownEnds
  \/ \E c \in Streams :
       \/ \E j \in Jobs : \E after \in {0, rec[j].last} : Subscribe(c, j, after)
       \/ StreamStep(c)

Spec == Init /\ [][Next]_vars

-----------------------------------------------------------------------------
(***************************************************************************)
(* Properties.                                                             *)
(***************************************************************************)
\* A cancellation that was accepted is never overtaken by the command's own
\* end: a job that is canceling ends canceled or stays canceling, although the
\* status, the flag and the event are written at three different moments
\* (request_cancel against mark_running, finish_result and finish_error).
CancelWins ==
  [][\A j \in Jobs : rec[j].status = "canceling" => rec'[j].status \in {"canceling", "canceled"}]_vars

\* However often a session is withdrawn and allowed again, its commands never
\* exceed the per-session limit, nor all of them the global one
\* (ApiExecutionLimiter::acquire, update_sessions), and a task that is over has
\* given back its permit and its place in the queue.
LimitsHold ==
  /\ \A s \in Sessions :
       Cardinality({j \in Jobs : rec[j].session = s /\ HasSessionPermit(j)}) <= SessionPermits
  /\ Cardinality({j \in Jobs : HasGlobalPermit(j)}) <= GlobalPermits
  /\ \A j \in Jobs : task[j].pc = "over" => held[j] = NoSem

\* Once a change of the allowed sessions is complete, no job of a withdrawn
\* session is marked as running, whatever it had passed when the change began.
WithdrawnNeverRuns ==
  policy.pc = "idle" => \A j \in Jobs : rec[j].status = "running" => rec[j].session \in allowed

\* After the shutdown of the registry every job it found is settled: it is
\* final, or it was aborted while canceling; a task it had a handle of is gone.
ShutdownSettles ==
  closing.pc = "done" =>
    \A j \in closing.recs : /\ rec[j].status \in Terminal \cup {"canceling"}
                            /\ rec[j].handle = "taken" => task[j].pc = "over"

\* An event stream never repeats or reorders events, although an event can be
\* both in the copy and in the channel, and "canceling" may be sent after
\* "canceled" (only a snapshot may restate the last event); and no stream misses
\* the end of its job: one that has ended told the last event (or its client had
\* it), and one that waits has the end, or the notice that it fell behind, still
\* in its channel (subscribe, rest_job_events).
InOrder(told) ==
  \A i \in 1..Len(told) - 1 :
    told[i].id < told[i + 1].id \/ (told[i + 1].snapshot /\ told[i].id = told[i + 1].id)
StreamFaithful ==
  \A c \in Streams : stream[c].job # NoJob =>
    LET r == rec[stream[c].job]
        seen == {stream[c].told[i].id : i \in DOMAIN stream[c].told} \cup {stream[c].after} IN
    /\ InOrder(stream[c].told)
    /\ stream[c].pc = "ended" => r.status \in Terminal /\ r.last \in seen
    /\ stream[c].pc = "live" /\ r.status \in Terminal =>
         stream[c].lagged \/ Contains(stream[c].queue, Event(r.last, r.status))
=============================================================================
