--------------------------- MODULE ApiJobs_proofs ---------------------------
(***************************************************************************)
(* What holds of the REST jobs for any number of jobs, sessions, streams   *)
(* and permits.  JobsInv is the inductive invariant; every action has a    *)
(* lemma that it keeps JobsInv and lets no accepted cancellation be lost.  *)
(* StreamInv, on top of it, is about the event streams.                    *)
(***************************************************************************)
EXTENDS ApiJobs, TLAPS, FiniteSetTheorems, SequenceTheorems, WellFoundedInduction

EventSet == [id : Nat, name : Statuses \cup {"output"}]
JobRecord ==
  [session : Sessions \cup {NoJob}, status : Statuses \cup {"none"}, events : Seq(EventSet),
   last : Nat, cancel : BOOLEAN, handle : {"none", "set", "taken"}]
TaskPcs == {"none", "spawned", "connecting", "enter", "session", "verdict", "over"} \cup Permitted
TaskTypes == [Jobs -> [pc : TaskPcs, verdict : Terminal \cup {"none"}]]

JobTypes ==
  /\ rec \in [Jobs -> JobRecord] /\ registry \in SUBSET Jobs
  /\ creator \in [Jobs -> {"idle", "admitted", "created", "spawned", "done"}]
  /\ task \in TaskTypes
  /\ canceler \in [Jobs -> Nat]
  /\ sem \in [Sessions -> Nat \cup {NoSem}] /\ held \in [Jobs -> Nat \cup {NoSem}]
  /\ allowed \in SUBSET Sessions
  /\ policy \in [pc : {"idle", "limiter", "snapshot", "cancel"}, set : SUBSET Sessions,
                 todo : SUBSET Jobs]
  /\ closing \in [pc : {"open", "cancel", "collect", "done"}, recs : SUBSET Jobs,
                  todo : SUBSET Jobs]

(* How far the handler, the record and the task of a job are, seen from    *)
(* one another; in particular a job that is not final is in the registry.  *)
Lifecycle ==
  \A j \in Jobs :
    /\ creator[j] \in {"idle", "admitted"} => rec[j].status = "none"
    /\ creator[j] # "idle" => rec[j].session \in Sessions
    /\ creator[j] = "created" => rec[j].status # "none"
    /\ task[j].pc # "none" => creator[j] \in {"spawned", "done"} /\ rec[j].status # "none"
    /\ creator[j] = "spawned" => task[j].pc # "none"
    /\ task[j].pc = "verdict" => task[j].verdict \in Terminal
    /\ rec[j].handle # "none" => creator[j] = "done"
    /\ j \in registry => rec[j].status # "none"
    /\ IsActive(j) => j \in registry

(* A job of a withdrawn session that runs, or is about to, is doomed, or   *)
(* the change of the policy has still to come to it.                       *)
Withdrawal ==
  /\ policy.set = allowed /\ \A j \in policy.todo : rec[j].status # "none"
  /\ \A j \in Jobs : (task[j].pc = "permitted" \/ rec[j].status = "running")
                     /\ rec[j].session \notin allowed =>
       \/ rec[j].status \in Terminal \cup {"canceling"}
       \/ policy.pc \in {"limiter", "snapshot"}
       \/ policy.pc = "cancel" /\ j \in policy.todo

(* What the shutdown has done to the jobs it found.                        *)
Closing ==
  /\ closing.todo \subseteq closing.recs
  /\ \A j \in closing.recs :
      /\ rec[j].status # "none"
      /\ (closing.pc = "cancel" /\ j \notin closing.todo) \/ closing.pc \in {"collect", "done"} =>
           rec[j].status \in Terminal \cup {"canceling"}
      /\ closing.pc = "done" /\ rec[j].handle = "taken" => task[j].pc = "over"

(* All the jobs of a session queue on the one semaphore of the limiter, as *)
(* long as any of them refers to it.                                       *)
OneSemaphore ==
  \A j \in Jobs :
    /\ held[j] # NoSem => held[j] = sem[rec[j].session]
    /\ task[j].pc \in {"none", "spawned", "connecting", "enter", "over"} => held[j] = NoSem

JobsInv == JobTypes /\ Lifecycle /\ Withdrawal /\ Closing /\ OneSemaphore /\ LimitsHold

(* What CancelWins says of one step.                                       *)
CancelKept ==
  \A j \in Jobs : rec[j].status = "canceling" => rec'[j].status \in {"canceling", "canceled"}

-----------------------------------------------------------------------------
(* What a step may do to the records, short of creating one: no session,   *)
(* handle or final status changes, a canceling job can only be canceled,   *)
(* and none starts to run.                                                 *)
Lawful ==
  /\ rec' \in [Jobs -> JobRecord]
  /\ \A j \in Jobs :
       /\ rec'[j].session = rec[j].session /\ rec'[j].handle = rec[j].handle
       /\ rec[j].status = "none" <=> rec'[j].status = "none"
       /\ rec[j].status \in Terminal => rec'[j].status = rec[j].status
       /\ rec[j].status = "canceling" => rec'[j].status \in {"canceling", "canceled"}

NoneStarts == \A j \in Jobs : rec'[j].status = "running" => rec[j].status = "running"

LEMMA StatusesAre ==
  Statuses = {"queued", "connecting", "running", "canceling", "completed", "failed", "canceled",
              "timedOut"}
BY DEF Statuses, Terminal

LEMMA PushEventType ==
  ASSUME NEW r \in JobRecord, NEW name \in Statuses \cup {"output"}
  PROVE /\ PushEvent(r, name) \in JobRecord
        /\ PushEvent(r, name).status = r.status /\ PushEvent(r, name).session = r.session
        /\ PushEvent(r, name).handle = r.handle
<1> DEFINE all == Append(r.events, Event(r.last + 1, name))
           from == IF Len(all) > MaxEvents THEN 2 ELSE 1
<1>1. Event(r.last + 1, name) \in EventSet
  BY DEF Event, EventSet, JobRecord
<1>2. all \in Seq(EventSet)
  BY <1>1 DEF JobRecord
<1>3. SubSeq(all, from, Len(all)) \in Seq(EventSet)
  <2>1. from \in Int /\ from >= 1 /\ Len(all) \in Nat
    BY <1>2
  <2> HIDE DEF all, from
  <2>2. \A i \in from..Len(all) : all[i] \in EventSet
    BY <1>2, <2>1
  <2> QED BY <1>2, <2>1, <2>2
<1> DEFINE kept == SubSeq(all, from, Len(all))
           next == r.last + 1
<1>4. PushEvent(r, name) = [r EXCEPT !.last = next, !.events = kept] /\ next \in Nat
  BY DEF PushEvent, JobRecord
<1> HIDE DEF all, from, kept, next
<1>5. kept \in Seq(EventSet)
  BY <1>3 DEF kept
<1> QED BY <1>4, <1>5 DEF JobRecord

LEMMA SameRecords ==
  ASSUME JobTypes, UNCHANGED rec PROVE Lawful /\ NoneStarts
BY DEF JobTypes, Lawful, NoneStarts, Terminal

LEMMA SetStatus ==
  ASSUME JobTypes, NEW j \in Jobs, NEW st \in Statuses,
         rec[j].status # "none", rec[j].status \in Terminal => st = rec[j].status,
         rec[j].status = "canceling" => st \in {"canceling", "canceled"},
         rec' = [rec EXCEPT ![j] = [PushEvent(@, st) EXCEPT !.status = st]]
  PROVE Lawful /\ (st # "running" => NoneStarts) /\ rec'[j].status = st
<1> DEFINE new == [PushEvent(rec[j], st) EXCEPT !.status = st]
<1>1. rec[j] \in JobRecord /\ PushEvent(rec[j], st) \in JobRecord
      /\ PushEvent(rec[j], st).session = rec[j].session
      /\ PushEvent(rec[j], st).handle = rec[j].handle
  BY PushEventType DEF JobTypes
<1>2. new \in JobRecord /\ new.session = rec[j].session /\ new.handle = rec[j].handle
      /\ new.status = st
  BY <1>1 DEF JobRecord
<1>3. rec' = [rec EXCEPT ![j] = new] /\ rec \in [Jobs -> JobRecord]
  BY DEF JobTypes
<1> HIDE DEF new
<1>4. rec' \in [Jobs -> JobRecord] /\ rec'[j] = new /\ \A i \in Jobs : i # j => rec'[i] = rec[i]
  BY <1>2, <1>3
<1>5. st # "none"
  BY StatusesAre
<1> QED BY <1>1, <1>2, <1>4, <1>5 DEF Lawful, NoneStarts, Terminal

LEMMA AnnounceLawful ==
  ASSUME JobTypes, NEW j \in Jobs, NEW st \in Statuses, Announce(j, st),
         rec[j].status # "none", ~ IsTerminal(j),
         rec[j].status = "canceling" => st \in {"canceling", "canceled"}
  PROVE Lawful /\ (st # "running" => NoneStarts) /\ rec'[j].status = st
BY SetStatus DEF Announce, IsTerminal

LEMMA FinishCanceledLawful ==
  ASSUME JobTypes, NEW j \in Jobs, FinishCanceled(j), rec[j].status # "none"
  PROVE Lawful /\ NoneStarts /\ rec'[j].status \in Terminal
<1>1. CASE IsTerminal(j)
  BY <1>1, SameRecords DEF FinishCanceled, IsTerminal
<1>2. CASE ~ IsTerminal(j)
  BY <1>2, AnnounceLawful, StatusesAre DEF FinishCanceled, Terminal
<1> QED BY <1>1, <1>2

LEMMA FinishLawful ==
  ASSUME JobTypes, NEW j \in Jobs, NEW st \in Terminal, Finish(j, st), rec[j].status # "none"
  PROVE Lawful /\ NoneStarts
<1>1. CASE Doomed(j)
  BY <1>1, FinishCanceledLawful DEF Finish
<1>2. CASE ~ Doomed(j) /\ IsTerminal(j)
  BY <1>2, SameRecords DEF Finish
<1>3. CASE ~ Doomed(j) /\ ~ IsTerminal(j)
  BY <1>3, AnnounceLawful, StatusesAre DEF Finish, Doomed, Terminal
<1> QED BY <1>1, <1>2, <1>3

LEMMA MarkCancelingLawful ==
  ASSUME JobTypes, NEW j \in Jobs, MarkCanceling(j), rec[j].status # "none"
  PROVE /\ Lawful /\ NoneStarts /\ rec'[j].status \in Terminal \cup {"canceling"}
        /\ canceler' \in [Jobs -> Nat]
<1>1. CASE ~ IsActive(j) \/ rec[j].status = "canceling"
  <2>1. rec[j].status \in Statuses
    BY DEF JobTypes, JobRecord
  <2> QED BY <1>1, <2>1, SameRecords DEF MarkCanceling, IsActive, JobTypes
<1>2. CASE ~(~ IsActive(j) \/ rec[j].status = "canceling")
  <2>1. Lawful /\ NoneStarts /\ rec'[j].status = "canceling"
    BY <1>2, SetStatus, StatusesAre DEF MarkCanceling, IsActive, Terminal
  <2>2. rec[j].last \in Nat
    BY DEF JobTypes, JobRecord
  <2> QED BY <1>2, <2>1, <2>2 DEF MarkCanceling, JobTypes
<1> QED BY <1>1, <1>2

LEMMA SetCancelLawful ==
  ASSUME JobTypes, NEW j \in Jobs, rec' = [rec EXCEPT ![j].cancel = TRUE]
  PROVE Lawful /\ NoneStarts
<1>0. rec[j] \in JobRecord
  BY DEF JobTypes
<1>1. [rec[j] EXCEPT !.cancel = TRUE] \in JobRecord
  BY <1>0 DEF JobRecord
<1>2. rec' \in [Jobs -> JobRecord]
  BY <1>1 DEF JobTypes
<1>3. \A i \in Jobs : rec'[i].status = rec[i].status /\ rec'[i].session = rec[i].session
                       /\ rec'[i].handle = rec[i].handle
  BY DEF JobTypes, JobRecord
<1> QED BY <1>2, <1>3 DEF Lawful, NoneStarts, Terminal

LEMMA OutputLawful ==
  ASSUME JobTypes, NEW j \in Jobs, rec' = [rec EXCEPT ![j] = PushEvent(@, "output")]
  PROVE Lawful /\ NoneStarts
<1> DEFINE new == PushEvent(rec[j], "output")
<1>1. new \in JobRecord /\ new.session = rec[j].session /\ new.handle = rec[j].handle
      /\ new.status = rec[j].status
  BY PushEventType DEF JobTypes
<1>2. rec' = [rec EXCEPT ![j] = new]
  OBVIOUS
<1> HIDE DEF new
<1>3. rec' \in [Jobs -> JobRecord]
  BY <1>1, <1>2 DEF JobTypes
<1>4. \A i \in Jobs : rec'[i].status = rec[i].status /\ rec'[i].session = rec[i].session
                       /\ rec'[i].handle = rec[i].handle
  BY <1>1, <1>2 DEF JobTypes
<1> QED BY <1>3, <1>4 DEF Lawful, NoneStarts, Terminal

(* Where the tasks are after a step of one of them.                        *)
LEMMA GotoSets ==
  ASSUME JobTypes, NEW j \in Jobs, NEW pc \in TaskPcs, Goto(j, pc)
  PROVE /\ task' \in TaskTypes
        /\ \A i \in Jobs : /\ task'[i].verdict = task[i].verdict
                            /\ task'[i].pc = IF i = j THEN pc ELSE task[i].pc
<1>1. task \in TaskTypes
  BY DEF JobTypes, TaskTypes
<1> QED BY <1>1 DEF TaskTypes, Goto

(* None is made active, and the records of a shutdown are jobs.            *)
LEMMA NoneRevived ==
  ASSUME JobTypes, Lawful
  PROVE (\A j \in Jobs : IsActive(j)' => IsActive(j)) /\ closing.recs \subseteq Jobs
<1>1. \A j \in Jobs : rec[j].status \in Statuses \cup {"none"}
                      /\ rec'[j].status \in Statuses \cup {"none"}
  BY DEF JobTypes, Lawful, JobRecord
<1>2. closing.recs \subseteq Jobs
  BY DEF JobTypes
<1> QED BY <1>1, <1>2, StatusesAre DEF Lawful, IsActive, Terminal

-----------------------------------------------------------------------------
(* The permits.                                                            *)

(* There is a number that names no semaphore in use: jobs are fewer than   *)
(* the numbers Fresh chooses from.                                         *)
LEMMA FreshIsNew ==
  ASSUME NEW s
  PROVE /\ Fresh(s) \in Nat
        /\ \A j \in Jobs : rec[j].session = s => held[j] # Fresh(s)
<1> DEFINE Numbers == 1..(Cardinality(Jobs) + 1)
<1>1. Cardinality(Jobs) \in Nat /\ IsFiniteSet(Jobs)
  BY JobsAssumption, FS_CardinalityType
<1>2. IsFiniteSet(Numbers) /\ Cardinality(Numbers) = Cardinality(Jobs) + 1
  BY <1>1, FS_Interval
<1>3. \E n \in Numbers : \A j \in Jobs : rec[j].session = s => held[j] # n
  <2> SUFFICES ASSUME \A n \in Numbers : \E j \in Jobs : held[j] = n PROVE FALSE
    OBVIOUS
  <2> DEFINE f == [n \in Numbers |-> CHOOSE j \in Jobs : held[j] = n]
  <2>1. f \in [Numbers -> Jobs] /\ \A n \in Numbers : held[f[n]] = n
    OBVIOUS
  <2> HIDE DEF f, Numbers
  <2>2. \E x, y \in Numbers : x # y /\ f[x] = f[y]
    BY <1>1, <1>2, <2>1, FS_PigeonHole
  <2> QED BY <2>1, <2>2
<1> QED BY <1>1, <1>3 DEF Fresh

(* A set of jobs that does not grow stays within its limit, and so does    *)
(* one that had room for the job that joins it.                            *)
LEMMA NotLarger ==
  ASSUME NEW S \in SUBSET Jobs, NEW T \in SUBSET S, NEW n \in Nat, Cardinality(S) <= n
  PROVE Cardinality(T) <= n
<1>1. IsFiniteSet(S)
  BY JobsAssumption, FS_Subset
<1>2. Cardinality(T) <= Cardinality(S) /\ IsFiniteSet(T)
  BY <1>1, FS_Subset
<1> QED BY <1>1, <1>2, FS_CardinalityType

LEMMA OneMore ==
  ASSUME NEW S \in SUBSET Jobs, NEW j \in Jobs, NEW T \in SUBSET (S \cup {j}), NEW n \in Nat,
         Cardinality(S) < n
  PROVE Cardinality(T) <= n
<1>1. IsFiniteSet(S)
  BY JobsAssumption, FS_Subset
<1>2. Cardinality(S) \in Nat
  BY <1>1, FS_CardinalityType
<1>3. IsFiniteSet(S \cup {j}) /\ Cardinality(S \cup {j}) <= n
  BY <1>1, <1>2, FS_AddElement
<1>4. Cardinality(S \cup {j}) \in Nat /\ Cardinality(T) <= Cardinality(S \cup {j})
      /\ IsFiniteSet(T)
  BY <1>3, FS_CardinalityType, FS_Subset
<1>5. Cardinality(T) \in Nat
  BY <1>4, FS_CardinalityType
<1> QED BY <1>3, <1>4, <1>5

(* When nobody gains a permit the limits go on to hold.                    *)
NoneGains ==
  \A j \in Jobs :
    /\ HasSessionPermit(j)' => HasSessionPermit(j) /\ rec'[j].session = rec[j].session
    /\ HasGlobalPermit(j)' => HasGlobalPermit(j)
    /\ task'[j].pc = "over" => held'[j] = NoSem

LEMMA NoPermitGained ==
  ASSUME LimitsHold, NoneGains
  PROVE LimitsHold'
<1> USE DEF NoneGains
<1> DEFINE ofSession(s) == {j \in Jobs : rec[j].session = s /\ HasSessionPermit(j)}
           all == {j \in Jobs : HasGlobalPermit(j)}
<1>1. ASSUME NEW s \in Sessions PROVE Cardinality(ofSession(s)') <= SessionPermits
  <2>1. ofSession(s)' \subseteq ofSession(s)
    OBVIOUS
  <2>2. Cardinality(ofSession(s)) <= SessionPermits
    BY DEF LimitsHold
  <2>3. ofSession(s) \subseteq Jobs /\ SessionPermits \in Nat
    BY JobsAssumption
  <2> HIDE DEF ofSession
  <2> QED BY <2>1, <2>2, <2>3, NotLarger
<1>2. Cardinality(all') <= GlobalPermits
  <2>1. all' \subseteq all
    OBVIOUS
  <2>2. Cardinality(all) <= GlobalPermits
    BY DEF LimitsHold
  <2>3. all \subseteq Jobs /\ GlobalPermits \in Nat
    BY JobsAssumption
  <2> HIDE DEF all
  <2> QED BY <2>1, <2>2, <2>3, NotLarger
<1> QED BY <1>1, <1>2 DEF LimitsHold

-----------------------------------------------------------------------------
(* A step that concerns records and streams only.                           *)
LEMMA RecordStep ==
  ASSUME JobsInv, Lawful, NoneStarts, canceler' \in [Jobs -> Nat],
         UNCHANGED <<registry, creator, task, sem, held, allowed, policy, closing>>
  PROVE JobsInv' /\ CancelKept
<1> USE DEF JobsInv
<1>1. Lawful /\ NoneStarts
  OBVIOUS
<1>2. JobTypes'
  BY <1>1 DEF JobTypes, Lawful
<1>3. Lifecycle'
  BY <1>1, NoneRevived DEF JobTypes, Lifecycle, Lawful, Terminal
<1>4. Withdrawal'
  BY <1>1 DEF JobTypes, Withdrawal, Lawful, Terminal, NoneStarts
<1>5. Closing'
  BY <1>1, NoneRevived DEF JobTypes, Closing, Lawful, Terminal
<1>6. OneSemaphore'
  BY <1>1 DEF JobTypes, OneSemaphore, Lawful
<1>7. LimitsHold'
  <2>1. NoneGains
    BY <1>1 DEF NoneGains, JobTypes, Lawful, OneSemaphore, HasSessionPermit,
       HasGlobalPermit, LimitsHold, Permitted
  <2> QED BY <2>1, NoPermitGained
<1>8. CancelKept
  BY <1>1 DEF Lawful, CancelKept
<1> QED BY <1>2, <1>3, <1>4, <1>5, <1>6, <1>7, <1>8

(* The task of a job returns.                                              *)
LEMMA LeaveStep ==
  ASSUME JobsInv, Lawful, NoneStarts, NEW j \in Jobs, task[j].pc # "none", Leave(j),
         UNCHANGED <<canceler, registry, creator, sem, allowed, policy, closing>>
  PROVE JobsInv' /\ CancelKept
<1> USE DEF JobsInv
<1>0. /\ task' \in TaskTypes
      /\ \A i \in Jobs : /\ task'[i].verdict = task[i].verdict
                         /\ task'[i].pc = IF i = j THEN "over" ELSE task[i].pc
  BY GotoSets DEF Leave, TaskPcs
<1>1. Lawful /\ NoneStarts
  OBVIOUS
<1>2. JobTypes'
  BY <1>1, <1>0 DEF JobTypes, Lawful, Leave, TaskPcs
<1>3. Lifecycle'
  BY <1>1, NoneRevived, <1>0 DEF JobTypes, Lifecycle, Lawful, Leave, Terminal
<1>4. Withdrawal'
  BY <1>1, <1>0 DEF JobTypes, Withdrawal, Lawful, Leave, Terminal, NoneStarts
<1>5. Closing'
  BY <1>1, NoneRevived, <1>0 DEF JobTypes, Closing, Lawful, Leave, Terminal
<1>6. OneSemaphore'
  BY <1>1, <1>0 DEF JobTypes, OneSemaphore, Lawful, Leave
<1>7. LimitsHold'
  <2>1. NoneGains
    BY <1>1, <1>0 DEF NoneGains, JobTypes, Lawful, OneSemaphore, HasSessionPermit,
       HasGlobalPermit, LimitsHold, Permitted, Leave
  <2> QED BY <2>1, NoPermitGained
<1>8. CancelKept
  BY <1>1 DEF Lawful, CancelKept
<1> QED BY <1>2, <1>3, <1>4, <1>5, <1>6, <1>7, <1>8

(* The task goes on towards the queue.                                     *)
LEMMA AdvanceStep ==
  ASSUME JobsInv, Lawful, NoneStarts, NEW j \in Jobs, NEW pc \in {"connecting", "enter"},
         Goto(j, pc),
         task[j].pc \in {"spawned", "connecting"},
         UNCHANGED <<canceler, held, registry, creator, sem, allowed, policy, closing>>
  PROVE JobsInv' /\ CancelKept
<1> USE DEF JobsInv
<1>0. /\ task' \in TaskTypes
      /\ \A i \in Jobs : /\ task'[i].verdict = task[i].verdict
                         /\ task'[i].pc = IF i = j THEN pc ELSE task[i].pc
  BY GotoSets DEF TaskPcs
<1>1. Lawful /\ NoneStarts
  OBVIOUS
<1>2. JobTypes'
  BY <1>1, <1>0 DEF JobTypes, Lawful, TaskPcs
<1>3. Lifecycle'
  BY <1>1, NoneRevived, <1>0 DEF JobTypes, Lifecycle, Lawful, Terminal
<1>4. Withdrawal'
  BY <1>1, <1>0 DEF JobTypes, Withdrawal, Lawful, Terminal, NoneStarts
<1>5. Closing'
  BY <1>1, NoneRevived, <1>0 DEF JobTypes, Closing, Lawful, Terminal
<1>6. OneSemaphore'
  BY <1>1, <1>0 DEF JobTypes, OneSemaphore, Lawful
<1>7. LimitsHold'
  <2>1. NoneGains
    BY <1>1, <1>0 DEF NoneGains, JobTypes, Lawful, OneSemaphore, HasSessionPermit,
       HasGlobalPermit, LimitsHold, Permitted
  <2> QED BY <2>1, NoPermitGained
<1>8. CancelKept
  BY <1>1 DEF Lawful, CancelKept
<1> QED BY <1>2, <1>3, <1>4, <1>5, <1>6, <1>7, <1>8

(* The task has the outcome of its job, and writes it later.               *)
LEMMA VerdictStep ==
  ASSUME JobsInv, NEW j \in Jobs, NEW v \in Terminal, Verdict(j, v),
         task[j].pc \notin {"none", "spawned", "enter", "verdict", "over"},
         \/ held' = held /\ task[j].pc \notin {"session", "global"}
         \/ held' = [held EXCEPT ![j] = NoSem],
         UNCHANGED <<canceler, rec, registry, creator, sem, allowed, policy, closing>>
  PROVE JobsInv' /\ CancelKept
<1> USE DEF JobsInv
<1>0. /\ task' \in TaskTypes /\ task[j].pc \in TaskPcs
      /\ \A i \in Jobs : /\ task'[i].verdict = IF i = j THEN v ELSE task[i].verdict
                         /\ task'[i].pc = IF i = j THEN "verdict" ELSE task[i].pc
  BY DEF JobTypes, TaskTypes, Verdict, TaskPcs
<1>1. Lawful /\ NoneStarts
  BY SameRecords
<1>2. JobTypes'
  BY <1>1, <1>0 DEF JobTypes, Lawful, TaskPcs
<1>3. Lifecycle'
  BY <1>1, NoneRevived, <1>0 DEF JobTypes, Lifecycle, Lawful, Terminal
<1>4. Withdrawal'
  BY <1>1, <1>0 DEF JobTypes, Withdrawal, Lawful, Terminal, NoneStarts
<1>5. Closing'
  BY <1>1, NoneRevived, <1>0 DEF JobTypes, Closing, Lawful, Terminal
<1>6. OneSemaphore'
  BY <1>1, <1>0 DEF JobTypes, OneSemaphore, Lawful
<1>7. LimitsHold'
  <2>1. NoneGains
    BY <1>1, <1>0 DEF NoneGains, JobTypes, Lawful, OneSemaphore, HasSessionPermit,
       HasGlobalPermit, LimitsHold, Permitted, TaskPcs
  <2> QED BY <2>1, NoPermitGained
<1>8. CancelKept
  BY <1>1 DEF Lawful, CancelKept
<1> QED BY <1>2, <1>3, <1>4, <1>5, <1>6, <1>7, <1>8

-----------------------------------------------------------------------------
(* The handlers and the registry.                                          *)
LEMMA AdmitKeeps ==
  ASSUME JobsInv, NEW j \in Jobs, NEW s \in Sessions, Admit(j, s)
  PROVE JobsInv' /\ CancelKept
<1> USE DEF JobsInv
<1>1. /\ rec' \in [Jobs -> JobRecord]
      /\ \A i \in Jobs : /\ rec'[i].status = rec[i].status /\ rec'[i].handle = rec[i].handle
                         /\ rec'[i].session = IF i = j THEN s ELSE rec[i].session
  <2>1. rec[j] \in JobRecord /\ rec \in [Jobs -> JobRecord]
    BY DEF JobTypes
  <2>2. [rec[j] EXCEPT !.session = s] \in JobRecord
    BY <2>1 DEF JobRecord
  <2> QED BY <2>1, <2>2 DEF Admit, JobRecord
<1>0. rec[j].status = "none" /\ task[j].pc = "none" /\ held[j] = NoSem
  BY DEF JobTypes, Lifecycle, OneSemaphore, Admit
<1>2. JobTypes'
  BY <1>1, <1>0 DEF JobTypes, Lawful, Admit, TaskPcs
<1>3. Lifecycle'
  BY <1>1, <1>0 DEF JobTypes, Lifecycle, Lawful, Admit, Terminal, IsActive, Statuses
<1>4. Withdrawal'
  BY <1>1, <1>0 DEF JobTypes, Withdrawal, Lawful, Admit, Terminal, NoneStarts
<1>5. Closing'
  BY <1>1, <1>0 DEF JobTypes, Closing, Lawful, Admit, Terminal
<1>6. OneSemaphore'
  BY <1>1, <1>0 DEF JobTypes, OneSemaphore, Lawful, Admit
<1>7. LimitsHold'
  <2>1. NoneGains
    BY <1>1, <1>0 DEF NoneGains, JobTypes, Lawful, OneSemaphore, HasSessionPermit,
       HasGlobalPermit, LimitsHold, Permitted, Admit
  <2> QED BY <2>1, NoPermitGained
<1>8. CancelKept
  BY <1>1 DEF CancelKept
<1> QED BY <1>2, <1>3, <1>4, <1>5, <1>6, <1>7, <1>8

LEMMA SpawnKeeps ==
  ASSUME JobsInv, NEW j \in Jobs, Spawn(j)
  PROVE JobsInv' /\ CancelKept
<1> USE DEF JobsInv
<1>0. /\ task' \in TaskTypes
      /\ \A i \in Jobs : /\ task'[i].verdict = task[i].verdict
                         /\ task'[i].pc = IF i = j THEN "spawned" ELSE task[i].pc
  <2>1. Goto(j, "spawned")
    BY DEF Goto, Spawn
  <2> QED BY <2>1, GotoSets DEF TaskPcs
<1>1. Lawful /\ NoneStarts
  BY SameRecords DEF Spawn
<1>2. JobTypes'
  BY <1>1, <1>0 DEF JobTypes, Lawful, Spawn, TaskPcs
<1>3. Lifecycle'
  BY <1>1, NoneRevived, <1>0 DEF JobTypes, Lifecycle, Lawful, Spawn, Terminal
<1>4. Withdrawal'
  BY <1>1, <1>0 DEF JobTypes, Withdrawal, Lawful, Spawn, Terminal, NoneStarts
<1>5. Closing'
  BY <1>1, NoneRevived, <1>0 DEF JobTypes, Closing, Lawful, Spawn, Terminal, Lifecycle
<1>6. OneSemaphore'
  BY <1>1, <1>0 DEF JobTypes, OneSemaphore, Lawful, Spawn, Lifecycle
<1>7. LimitsHold'
  <2>1. NoneGains
    BY <1>1, <1>0 DEF NoneGains, JobTypes, Lawful, OneSemaphore, HasSessionPermit,
       HasGlobalPermit, LimitsHold, Permitted, Spawn
  <2> QED BY <2>1, NoPermitGained
<1>8. CancelKept
  BY <1>1 DEF Lawful, CancelKept
<1> QED BY <1>2, <1>3, <1>4, <1>5, <1>6, <1>7, <1>8

LEMMA DropCreatorKeeps ==
  ASSUME JobsInv, NEW j \in Jobs, DropCreator(j)
  PROVE JobsInv' /\ CancelKept
<1> USE DEF JobsInv
<1>1. Lawful /\ NoneStarts
  BY SameRecords DEF DropCreator
<1>2. JobTypes'
  BY <1>1 DEF JobTypes, Lawful, DropCreator, TaskPcs
<1>3. Lifecycle'
  BY <1>1, NoneRevived DEF JobTypes, Lifecycle, Lawful, DropCreator, Terminal
<1>4. Withdrawal'
  BY <1>1 DEF JobTypes, Withdrawal, Lawful, DropCreator, Terminal, NoneStarts
<1>5. Closing'
  BY <1>1, NoneRevived DEF JobTypes, Closing, Lawful, DropCreator, Terminal
<1>6. OneSemaphore'
  BY <1>1 DEF JobTypes, OneSemaphore, Lawful, DropCreator
<1>7. LimitsHold'
  <2>1. NoneGains
    BY <1>1 DEF NoneGains, JobTypes, Lawful, OneSemaphore, HasSessionPermit,
       HasGlobalPermit, LimitsHold, Permitted, DropCreator
  <2> QED BY <2>1, NoPermitGained
<1>8. CancelKept
  BY <1>1 DEF Lawful, CancelKept
<1> QED BY <1>2, <1>3, <1>4, <1>5, <1>6, <1>7, <1>8

LEMMA AttachHandleKeeps ==
  ASSUME JobsInv, NEW j \in Jobs, AttachHandle(j)
  PROVE JobsInv' /\ CancelKept
<1> USE DEF JobsInv
<1>1. /\ rec' \in [Jobs -> JobRecord]
      /\ \A i \in Jobs : /\ rec'[i].status = rec[i].status /\ rec'[i].session = rec[i].session
                         /\ rec'[i].handle = IF i = j /\ j \in registry THEN "set"
                                              ELSE rec[i].handle
  <2>1. rec[j] \in JobRecord /\ rec \in [Jobs -> JobRecord]
    BY DEF JobTypes
  <2>2. [rec[j] EXCEPT !.handle = "set"] \in JobRecord
    BY <2>1 DEF JobRecord
  <2>3. CASE j \in registry
    <3> DEFINE new == [rec[j] EXCEPT !.handle = "set"]
    <3>1. /\ new \in JobRecord /\ new.handle = "set"
          /\ new.status = rec[j].status /\ new.session = rec[j].session
      BY <2>1, <2>2 DEF JobRecord
    <3>2. rec' = [rec EXCEPT ![j] = new]
      BY <2>3 DEF AttachHandle
    <3> HIDE DEF new
    <3> QED BY <2>1, <2>3, <3>1, <3>2
  <2>4. CASE j \notin registry
    BY <2>1, <2>4 DEF AttachHandle
  <2> QED BY <2>3, <2>4
<1>0. /\ task' \in TaskTypes
      /\ \A i \in Jobs : /\ task'[i].verdict = task[i].verdict
                         /\ task'[i].pc = IF i = j /\ j \notin registry THEN "over" ELSE task[i].pc
  <2>1. task \in TaskTypes
    BY DEF JobTypes
  <2> QED BY <2>1 DEF AttachHandle, Aborted, TaskTypes, TaskPcs
<1>2. JobTypes'
  BY <1>1, <1>0 DEF JobTypes, Lawful, AttachHandle, Aborted, TaskPcs
<1>3. Lifecycle'
  BY <1>1, <1>0 DEF JobTypes, Lifecycle, Lawful, AttachHandle, Aborted, Terminal,
       IsActive, Statuses
<1>4. Withdrawal'
  BY <1>1, <1>0 DEF JobTypes, Withdrawal, Lawful, AttachHandle, Aborted, Terminal,
       NoneStarts
<1>5. Closing'
  BY <1>1, <1>0 DEF JobTypes, Closing, Lawful, AttachHandle, Aborted, Terminal
<1>6. OneSemaphore'
  BY <1>1, <1>0 DEF JobTypes, OneSemaphore, Lawful, AttachHandle, Aborted
<1>7. LimitsHold'
  <2>1. NoneGains
    BY <1>1, <1>0 DEF NoneGains, JobTypes, Lawful, OneSemaphore, HasSessionPermit,
       HasGlobalPermit, LimitsHold, Permitted, AttachHandle, Aborted
  <2> QED BY <2>1, NoPermitGained
<1>8. CancelKept
  BY <1>1 DEF CancelKept
<1> QED BY <1>2, <1>3, <1>4, <1>5, <1>6, <1>7, <1>8

LEMMA LookUpKeeps ==
  ASSUME JobsInv, LookUp
  PROVE JobsInv' /\ CancelKept
<1> USE DEF JobsInv
<1>1. Lawful /\ NoneStarts
  BY SameRecords DEF LookUp
<1>2. JobTypes'
  BY <1>1 DEF JobTypes, Lawful, LookUp, Pruned, TaskPcs
<1>3. Lifecycle'
  BY <1>1, NoneRevived DEF JobTypes, Lifecycle, Lawful, LookUp, Pruned, Terminal,
       IsActive, IsTerminal
<1>4. Withdrawal'
  BY <1>1 DEF JobTypes, Withdrawal, Lawful, LookUp, Pruned, Terminal, NoneStarts
<1>5. Closing'
  BY <1>1, NoneRevived DEF JobTypes, Closing, Lawful, LookUp, Pruned, Terminal
<1>6. OneSemaphore'
  BY <1>1 DEF JobTypes, OneSemaphore, Lawful, LookUp, Pruned
<1>7. LimitsHold'
  <2>1. NoneGains
    BY <1>1 DEF NoneGains, JobTypes, Lawful, OneSemaphore, HasSessionPermit,
       HasGlobalPermit, LimitsHold, Permitted, LookUp, Pruned
  <2> QED BY <2>1, NoPermitGained
<1>8. CancelKept
  BY <1>1 DEF Lawful, CancelKept
<1> QED BY <1>2, <1>3, <1>4, <1>5, <1>6, <1>7, <1>8

LEMMA RestCancelKeeps ==
  ASSUME JobsInv, NEW j \in Jobs, RestCancel(j)
  PROVE JobsInv' /\ CancelKept
<1>1. rec[j].status # "none"
  BY DEF RestCancel, JobsInv, Lifecycle
<1>2. Lawful /\ NoneStarts /\ canceler' \in [Jobs -> Nat]
  BY <1>1, MarkCancelingLawful DEF RestCancel, JobsInv
<1> QED BY <1>2, RecordStep DEF RestCancel

LEMMA CancelSignalsKeeps ==
  ASSUME JobsInv, NEW j \in Jobs, CancelSignals(j)
  PROVE JobsInv' /\ CancelKept
<1>1. Lawful /\ NoneStarts /\ canceler' \in [Jobs -> Nat]
  BY SetCancelLawful DEF CancelSignals, JobsInv, JobTypes
<1> QED BY <1>1, RecordStep DEF CancelSignals

-----------------------------------------------------------------------------
(* The task of a job.                                                      *)
LEMMA MarkConnectingKeeps ==
  ASSUME JobsInv, NEW j \in Jobs, MarkConnecting(j)
  PROVE JobsInv' /\ CancelKept
<1>1. rec[j].status # "none" /\ task[j].pc = "spawned" /\ JobTypes
  BY DEF MarkConnecting, JobsInv, Lifecycle
<1>2. CASE FinishCanceled(j) /\ Leave(j)
  BY <1>1, <1>2, FinishCanceledLawful, LeaveStep DEF MarkConnecting
<1>3. CASE Leave(j) /\ UNCHANGED rec
  BY <1>1, <1>3, SameRecords, LeaveStep DEF MarkConnecting
<1>4. CASE /\ ~ Doomed(j) /\ ~ IsTerminal(j)
           /\ Announce(j, "connecting") /\ Goto(j, "connecting") /\ UNCHANGED held
  <2>1. Lawful /\ NoneStarts
    BY <1>1, <1>4, AnnounceLawful, StatusesAre DEF Doomed
  <2> QED BY <1>1, <1>4, <2>1, AdvanceStep DEF MarkConnecting
<1> QED BY <1>2, <1>3, <1>4 DEF MarkConnecting

LEMMA CanceledWhileWaitingKeeps ==
  ASSUME JobsInv, NEW j \in Jobs, CanceledWhileWaiting(j)
  PROVE JobsInv' /\ CancelKept
<1>1. rec[j].status # "none" /\ task[j].pc # "none" /\ JobTypes
  BY DEF CanceledWhileWaiting, JobsInv, Lifecycle
<1> QED BY <1>1, FinishCanceledLawful, LeaveStep DEF CanceledWhileWaiting

LEMMA ConnectReturnsKeeps ==
  ASSUME JobsInv, NEW j \in Jobs, ConnectReturns(j)
  PROVE JobsInv' /\ CancelKept
<1>1. CASE Verdict(j, "failed")
  BY <1>1, VerdictStep DEF ConnectReturns, Terminal
<1>2. CASE Goto(j, "enter")
  <2>1. Lawful /\ NoneStarts
    BY SameRecords DEF ConnectReturns, JobsInv
  <2> QED BY <1>2, <2>1, AdvanceStep DEF ConnectReturns
<1> QED BY <1>1, <1>2 DEF ConnectReturns

LEMMA QueueTimesOutKeeps ==
  ASSUME JobsInv, NEW j \in Jobs, QueueTimesOut(j)
  PROVE JobsInv' /\ CancelKept
BY VerdictStep DEF QueueTimesOut, Terminal

LEMMA ExecReturnsKeeps ==
  ASSUME JobsInv, NEW j \in Jobs, NEW v \in {"completed", "failed", "timedOut"},
         ExecReturns(j, v)
  PROVE JobsInv' /\ CancelKept
BY VerdictStep DEF ExecReturns, Terminal

LEMMA AppendOutputKeeps ==
  ASSUME JobsInv, NEW j \in Jobs, AppendOutput(j)
  PROVE JobsInv' /\ CancelKept
<1>1. rec[j].status # "none" /\ JobTypes
  BY DEF AppendOutput, JobsInv, Lifecycle
<1>2. Lawful /\ NoneStarts
  BY <1>1, FinishCanceledLawful, OutputLawful DEF AppendOutput
<1>3. canceler' \in [Jobs -> Nat]
  BY DEF AppendOutput, JobsInv, JobTypes
<1> QED BY <1>2, <1>3, RecordStep DEF AppendOutput

LEMMA ConcludeKeeps ==
  ASSUME JobsInv, NEW j \in Jobs, Conclude(j)
  PROVE JobsInv' /\ CancelKept
<1>1. rec[j].status # "none" /\ task[j].verdict \in Terminal /\ JobTypes
  BY DEF Conclude, JobsInv, Lifecycle
<1> QED BY <1>1, FinishLawful, LeaveStep DEF Conclude

-----------------------------------------------------------------------------
(* The limiter.                                                            *)
LEMMA EnterQueueKeeps ==
  ASSUME JobsInv, NEW j \in Jobs, EnterQueue(j)
  PROVE JobsInv' /\ CancelKept
<1> USE DEF JobsInv
<1>0. /\ task' \in TaskTypes
      /\ \A i \in Jobs : /\ task'[i].verdict = task[i].verdict
                         /\ task'[i].pc = IF i = j THEN "session" ELSE task[i].pc
  <2>1. Goto(j, "session")
    BY DEF EnterQueue
  <2> QED BY <2>1, GotoSets DEF JobsInv, TaskPcs, Permitted
<1>1. Lawful /\ NoneStarts
  BY SameRecords DEF EnterQueue
<1>2. JobTypes'
  <2>1. rec[j].session \in Sessions
    BY DEF JobTypes, Lifecycle, EnterQueue
  <2>2. sem' \in [Sessions -> Nat \cup {NoSem}]
    BY <2>1, FreshIsNew DEF JobTypes, EnterQueue
  <2>3. held' \in [Jobs -> Nat \cup {NoSem}]
    BY <2>1, <2>2 DEF JobTypes, EnterQueue
  <2> QED BY <1>0, <1>1, <2>2, <2>3 DEF JobTypes, Lawful, EnterQueue
<1>3. Lifecycle'
  BY <1>1, NoneRevived, <1>0 DEF JobTypes, Lifecycle, Lawful, EnterQueue, Terminal
<1>4. Withdrawal'
  BY <1>1, <1>0 DEF JobTypes, Withdrawal, Lawful, EnterQueue, Terminal, NoneStarts
<1>5. Closing'
  BY <1>1, NoneRevived, <1>0 DEF JobTypes, Closing, Lawful, EnterQueue, Terminal
<1>6. OneSemaphore'
  BY <1>1, <1>0 DEF JobTypes, OneSemaphore, Lawful, EnterQueue, Lifecycle
<1>7. LimitsHold'
  <2>1. NoneGains
    BY <1>1, <1>0 DEF NoneGains, JobTypes, Lawful, OneSemaphore, HasSessionPermit,
       HasGlobalPermit, LimitsHold, Permitted, EnterQueue
  <2> QED BY <2>1, NoPermitGained
<1>8. CancelKept
  BY <1>1 DEF Lawful, CancelKept
<1> QED BY <1>2, <1>3, <1>4, <1>5, <1>6, <1>7, <1>8

LEMMA AcquireSessionKeeps ==
  ASSUME JobsInv, NEW j \in Jobs, AcquireSession(j)
  PROVE JobsInv' /\ CancelKept
<1> USE DEF JobsInv
<1>0. /\ task' \in TaskTypes
      /\ \A i \in Jobs : /\ task'[i].verdict = task[i].verdict
                         /\ task'[i].pc = IF i = j THEN "global" ELSE task[i].pc
  <2>1. Goto(j, "global")
    BY DEF AcquireSession
  <2> QED BY <2>1, GotoSets DEF JobsInv, TaskPcs, Permitted
<1>1. Lawful /\ NoneStarts
  BY SameRecords DEF AcquireSession
<1>2. JobTypes'
  BY <1>1, <1>0 DEF JobTypes, Lawful, AcquireSession, TaskPcs
<1>3. Lifecycle'
  BY <1>1, NoneRevived, <1>0 DEF JobTypes, Lifecycle, Lawful, AcquireSession, Terminal
<1>4. Withdrawal'
  BY <1>1, <1>0 DEF JobTypes, Withdrawal, Lawful, AcquireSession, Terminal, NoneStarts
<1>5. Closing'
  BY <1>1, NoneRevived, <1>0 DEF JobTypes, Closing, Lawful, AcquireSession, Terminal
<1>6. OneSemaphore'
  BY <1>1, <1>0 DEF JobTypes, OneSemaphore, Lawful, AcquireSession
<1>7. LimitsHold'
  <2> DEFINE before(s) == {i \in Jobs : rec[i].session = s /\ HasSessionPermit(i)}
             all == {i \in Jobs : HasGlobalPermit(i)}
  <2>1. ASSUME NEW s \in Sessions PROVE Cardinality(before(s)') <= SessionPermits
    <3>1. CASE s = rec[j].session /\ held[j] # NoSem
      <4> DEFINE rivals == {i \in Jobs : /\ rec[i].session = rec[j].session
                                         /\ held[i] = held[j] /\ HasSessionPermit(i)}
      <4>1. before(s) = rivals
        BY <3>1 DEF OneSemaphore, HasSessionPermit
      <4>2. Cardinality(rivals) < SessionPermits
        BY DEF AcquireSession
      <4>3. before(s)' \subseteq before(s) \cup {j}
        BY <1>0 DEF HasSessionPermit, AcquireSession
      <4>4. before(s) \subseteq Jobs /\ SessionPermits \in Nat
        BY JobsAssumption
      <4> HIDE DEF before, rivals
      <4> QED BY <4>1, <4>2, <4>3, <4>4, OneMore
    <3>2. CASE ~(s = rec[j].session /\ held[j] # NoSem)
      <4>1. before(s)' \subseteq before(s)
        BY <1>0, <3>2 DEF HasSessionPermit, AcquireSession
      <4>2. Cardinality(before(s)) <= SessionPermits
        BY DEF LimitsHold
      <4>3. before(s) \subseteq Jobs /\ SessionPermits \in Nat
        BY JobsAssumption
      <4> HIDE DEF before
      <4> QED BY <4>1, <4>2, <4>3, NotLarger
    <3> QED BY <3>1, <3>2
  <2>2. Cardinality(all') <= GlobalPermits
    <3>1. all' \subseteq all
      BY <1>0 DEF HasGlobalPermit, HasSessionPermit, AcquireSession
    <3>2. Cardinality(all) <= GlobalPermits
      BY DEF LimitsHold
    <3>3. all \subseteq Jobs /\ GlobalPermits \in Nat
      BY JobsAssumption
    <3> HIDE DEF all
    <3> QED BY <3>1, <3>2, <3>3, NotLarger
  <2>3. \A i \in Jobs : task'[i].pc = "over" => held'[i] = NoSem
    BY <1>0 DEF LimitsHold, AcquireSession
  <2> QED BY <2>1, <2>2, <2>3 DEF LimitsHold
<1>8. CancelKept
  BY <1>1 DEF Lawful, CancelKept
<1> QED BY <1>2, <1>3, <1>4, <1>5, <1>6, <1>7, <1>8

LEMMA AcquireGlobalKeeps ==
  ASSUME JobsInv, NEW j \in Jobs, AcquireGlobal(j)
  PROVE JobsInv' /\ CancelKept
<1> USE DEF JobsInv
<1>0. /\ task' \in TaskTypes
      /\ \A i \in Jobs : /\ task'[i].verdict = task[i].verdict
                         /\ task'[i].pc = IF i = j THEN "access" ELSE task[i].pc
  <2>1. Goto(j, "access")
    BY DEF AcquireGlobal
  <2> QED BY <2>1, GotoSets DEF JobsInv, TaskPcs, Permitted
<1>1. Lawful /\ NoneStarts
  BY SameRecords DEF AcquireGlobal
<1>2. JobTypes'
  BY <1>1, <1>0 DEF JobTypes, Lawful, AcquireGlobal, TaskPcs
<1>3. Lifecycle'
  BY <1>1, NoneRevived, <1>0 DEF JobTypes, Lifecycle, Lawful, AcquireGlobal, Terminal
<1>4. Withdrawal'
  BY <1>1, <1>0 DEF JobTypes, Withdrawal, Lawful, AcquireGlobal, Terminal, NoneStarts
<1>5. Closing'
  BY <1>1, NoneRevived, <1>0 DEF JobTypes, Closing, Lawful, AcquireGlobal, Terminal
<1>6. OneSemaphore'
  BY <1>1, <1>0 DEF JobTypes, OneSemaphore, Lawful, AcquireGlobal
<1>7. LimitsHold'
  <2> DEFINE before(s) == {i \in Jobs : rec[i].session = s /\ HasSessionPermit(i)}
             all == {i \in Jobs : HasGlobalPermit(i)}
  <2>1. ASSUME NEW s \in Sessions PROVE Cardinality(before(s)') <= SessionPermits
    <3>1. before(s)' \subseteq before(s)
      BY <1>0 DEF HasSessionPermit, AcquireGlobal, Permitted
    <3>2. Cardinality(before(s)) <= SessionPermits
      BY DEF LimitsHold
    <3>3. before(s) \subseteq Jobs /\ SessionPermits \in Nat
      BY JobsAssumption
    <3> HIDE DEF before
    <3> QED BY <3>1, <3>2, <3>3, NotLarger
  <2>2. Cardinality(all') <= GlobalPermits
    <3>1. all' \subseteq all \cup {j}
      BY <1>0 DEF HasGlobalPermit, HasSessionPermit, AcquireGlobal
    <3>2. Cardinality(all) < GlobalPermits
      BY DEF AcquireGlobal
    <3>3. all \subseteq Jobs /\ GlobalPermits \in Nat
      BY JobsAssumption
    <3> HIDE DEF all
    <3> QED BY <3>1, <3>2, <3>3, OneMore
  <2>3. \A i \in Jobs : task'[i].pc = "over" => held'[i] = NoSem
    BY <1>0 DEF LimitsHold, AcquireGlobal
  <2> QED BY <2>1, <2>2, <2>3 DEF LimitsHold
<1>8. CancelKept
  BY <1>1 DEF Lawful, CancelKept
<1> QED BY <1>2, <1>3, <1>4, <1>5, <1>6, <1>7, <1>8

LEMMA VerifyAccessPasses ==
  ASSUME JobsInv, NEW j \in Jobs, VerifyAccess(j), Goto(j, "permitted"),
         rec[j].session \in allowed
  PROVE JobsInv' /\ CancelKept
<1> USE DEF JobsInv
<1>0. /\ task' \in TaskTypes
      /\ \A i \in Jobs : /\ task'[i].verdict = task[i].verdict
                         /\ task'[i].pc = IF i = j THEN "permitted" ELSE task[i].pc
  BY GotoSets DEF TaskPcs, Permitted
<1>1. Lawful /\ NoneStarts
  BY SameRecords DEF VerifyAccess
<1>2. JobTypes'
  BY <1>1, <1>0 DEF JobTypes, Lawful, VerifyAccess, TaskPcs
<1>3. Lifecycle'
  BY <1>1, NoneRevived, <1>0 DEF JobTypes, Lifecycle, Lawful, VerifyAccess, Terminal
<1>4. Withdrawal'
  BY <1>1, <1>0 DEF JobTypes, Withdrawal, Lawful, VerifyAccess, Terminal, NoneStarts
<1>5. Closing'
  BY <1>1, NoneRevived, <1>0 DEF JobTypes, Closing, Lawful, VerifyAccess, Terminal
<1>6. OneSemaphore'
  BY <1>1, <1>0 DEF JobTypes, OneSemaphore, Lawful, VerifyAccess
<1>7. LimitsHold'
  <2>1. NoneGains
    BY <1>1, <1>0 DEF NoneGains, JobTypes, Lawful, OneSemaphore, HasSessionPermit,
       HasGlobalPermit, LimitsHold, Permitted, VerifyAccess
  <2> QED BY <2>1, NoPermitGained
<1>8. CancelKept
  BY <1>1 DEF Lawful, CancelKept
<1> QED BY <1>2, <1>3, <1>4, <1>5, <1>6, <1>7, <1>8

LEMMA VerifyAccessKeeps ==
  ASSUME JobsInv, NEW j \in Jobs, VerifyAccess(j)
  PROVE JobsInv' /\ CancelKept
<1>1. CASE rec[j].session \in allowed
  BY <1>1, VerifyAccessPasses DEF VerifyAccess
<1>2. CASE rec[j].session \notin allowed
  BY <1>2, VerdictStep DEF VerifyAccess, Terminal
<1> QED BY <1>1, <1>2

LEMMA MarkRunningStarts ==
  ASSUME JobsInv, NEW j \in Jobs, MarkRunning(j), Goto(j, "executing"), UNCHANGED held,
         Announce(j, "running"), ~ Doomed(j), ~ IsTerminal(j)
  PROVE JobsInv' /\ CancelKept
<1> USE DEF JobsInv
<1>1. Lawful /\ \A i \in Jobs : i # j => rec'[i] = rec[i]
  <2>1. rec[j].status # "none" /\ "running" \in Statuses
    BY StatusesAre DEF MarkRunning, Lifecycle, JobTypes
  <2> QED BY <2>1, AnnounceLawful DEF Doomed, Announce, JobTypes
<1>0. /\ task' \in TaskTypes
      /\ \A i \in Jobs : /\ task'[i].verdict = task[i].verdict
                         /\ task'[i].pc = IF i = j THEN "executing" ELSE task[i].pc
  BY GotoSets DEF TaskPcs, Permitted
<1>2. JobTypes'
  BY <1>1, <1>0 DEF JobTypes, Lawful, MarkRunning, TaskPcs
<1>3. Lifecycle'
  BY <1>0, <1>1, NoneRevived DEF JobTypes, Lifecycle, Lawful, MarkRunning, Terminal
<1>4. Withdrawal'
  BY <1>0, <1>1 DEF JobTypes, Withdrawal, Lawful, MarkRunning, Doomed, IsTerminal, Terminal
<1>5. Closing'
  BY <1>0, <1>1, NoneRevived DEF JobTypes, Closing, Lawful, MarkRunning, Terminal
<1>6. OneSemaphore'
  BY <1>1, <1>0 DEF JobTypes, OneSemaphore, Lawful, MarkRunning
<1>7. LimitsHold'
  <2>1. NoneGains
    BY <1>1, <1>0 DEF NoneGains, JobTypes, Lawful, OneSemaphore, HasSessionPermit,
       HasGlobalPermit, LimitsHold, Permitted, MarkRunning
  <2> QED BY <2>1, NoPermitGained
<1>8. CancelKept
  BY <1>1 DEF Lawful, CancelKept
<1> QED BY <1>2, <1>3, <1>4, <1>5, <1>6, <1>7, <1>8

LEMMA MarkRunningKeeps ==
  ASSUME JobsInv, NEW j \in Jobs, MarkRunning(j)
  PROVE JobsInv' /\ CancelKept
<1>1. rec[j].status # "none" /\ task[j].pc # "none" /\ JobTypes
  BY DEF MarkRunning, JobsInv, Lifecycle
<1>2. CASE FinishCanceled(j) /\ Leave(j)
  BY <1>1, <1>2, FinishCanceledLawful, LeaveStep DEF MarkRunning
<1>3. CASE Leave(j) /\ UNCHANGED rec
  BY <1>1, <1>3, SameRecords, LeaveStep DEF MarkRunning
<1>4. CASE /\ ~ Doomed(j) /\ ~ IsTerminal(j)
           /\ Announce(j, "running") /\ Goto(j, "executing") /\ UNCHANGED held
  BY <1>4, MarkRunningStarts
<1> QED BY <1>2, <1>3, <1>4 DEF MarkRunning

-----------------------------------------------------------------------------
(* The policy and the shutdown.                                            *)
LEMMA ReplaceCacheKeeps ==
  ASSUME JobsInv, NEW set \in SUBSET Sessions, ReplaceCache(set)
  PROVE JobsInv' /\ CancelKept
<1> USE DEF JobsInv
<1>1. Lawful /\ NoneStarts
  BY SameRecords DEF ReplaceCache
<1>2. JobTypes'
  BY <1>1 DEF JobTypes, Lawful, ReplaceCache, PolicyAt, TaskPcs
<1>3. Lifecycle'
  BY <1>1, NoneRevived DEF JobTypes, Lifecycle, Lawful, ReplaceCache, PolicyAt, Terminal
<1>4. Withdrawal'
  BY <1>1 DEF JobTypes, Withdrawal, Lawful, ReplaceCache, PolicyAt, Terminal, NoneStarts
<1>5. Closing'
  BY <1>1, NoneRevived DEF JobTypes, Closing, Lawful, ReplaceCache, PolicyAt, Terminal
<1>6. OneSemaphore'
  BY <1>1 DEF JobTypes, OneSemaphore, Lawful, ReplaceCache, PolicyAt
<1>7. LimitsHold'
  <2>1. NoneGains
    BY <1>1 DEF NoneGains, JobTypes, Lawful, OneSemaphore, HasSessionPermit,
       HasGlobalPermit, LimitsHold, Permitted, ReplaceCache, PolicyAt
  <2> QED BY <2>1, NoPermitGained
<1>8. CancelKept
  BY <1>1 DEF Lawful, CancelKept
<1> QED BY <1>2, <1>3, <1>4, <1>5, <1>6, <1>7, <1>8

LEMMA UpdateSessionsKeeps ==
  ASSUME JobsInv, UpdateSessions
  PROVE JobsInv' /\ CancelKept
<1> USE DEF JobsInv
<1>1. Lawful /\ NoneStarts
  BY SameRecords DEF UpdateSessions
<1>2. JobTypes'
  <2>1. sem' \in [Sessions -> Nat \cup {NoSem}]
    BY FreshIsNew DEF JobTypes, UpdateSessions, UpdatedSems
  <2> QED BY <1>1, <2>1 DEF JobTypes, Lawful, UpdateSessions
<1>3. Lifecycle'
  BY <1>1, NoneRevived DEF JobTypes, Lifecycle, Lawful, UpdateSessions, PolicyAt, Terminal
<1>4. Withdrawal'
  BY <1>1 DEF JobTypes, Withdrawal, Lawful, UpdateSessions, PolicyAt, Terminal, NoneStarts
<1>5. Closing'
  BY <1>1, NoneRevived DEF JobTypes, Closing, Lawful, UpdateSessions, PolicyAt, Terminal
<1>6. OneSemaphore'
  BY <1>1 DEF JobTypes, OneSemaphore, Lawful, UpdateSessions, PolicyAt, UpdatedSems,
       InUse, Lifecycle
<1>7. LimitsHold'
  <2>1. NoneGains
    BY <1>1 DEF NoneGains, JobTypes, Lawful, OneSemaphore, HasSessionPermit,
       HasGlobalPermit, LimitsHold, Permitted, UpdateSessions, PolicyAt
  <2> QED BY <2>1, NoPermitGained
<1>8. CancelKept
  BY <1>1 DEF Lawful, CancelKept
<1> QED BY <1>2, <1>3, <1>4, <1>5, <1>6, <1>7, <1>8

LEMMA SnapshotJobsKeeps ==
  ASSUME JobsInv, SnapshotJobs
  PROVE JobsInv' /\ CancelKept
<1> USE DEF JobsInv
<1>1. Lawful /\ NoneStarts
  BY SameRecords DEF SnapshotJobs
<1>2. JobTypes'
  BY <1>1 DEF JobTypes, Lawful, SnapshotJobs, PolicyAt, TaskPcs
<1>3. Lifecycle'
  BY <1>1, NoneRevived DEF JobTypes, Lifecycle, Lawful, SnapshotJobs, PolicyAt, Terminal
<1>4. Withdrawal'
  <2>1. \A j \in registry : rec[j].status # "none"
    BY DEF JobTypes, Lifecycle
  <2>2. \A j \in Jobs : (task[j].pc = "permitted" \/ rec[j].status = "running")
                       /\ rec[j].status \notin Terminal => j \in registry
    BY DEF Lifecycle, IsActive, JobTypes, JobRecord
  <2> QED BY <1>1, <2>1, <2>2 DEF JobTypes, Withdrawal, SnapshotJobs, PolicyAt
<1>5. Closing'
  BY <1>1, NoneRevived DEF JobTypes, Closing, Lawful, SnapshotJobs, PolicyAt, Terminal
<1>6. OneSemaphore'
  BY <1>1 DEF JobTypes, OneSemaphore, Lawful, SnapshotJobs, PolicyAt
<1>7. LimitsHold'
  <2>1. NoneGains
    BY <1>1 DEF NoneGains, JobTypes, Lawful, OneSemaphore, HasSessionPermit,
       HasGlobalPermit, LimitsHold, Permitted, SnapshotJobs, PolicyAt
  <2> QED BY <2>1, NoPermitGained
<1>8. CancelKept
  BY <1>1 DEF Lawful, CancelKept
<1> QED BY <1>2, <1>3, <1>4, <1>5, <1>6, <1>7, <1>8

LEMMA CancelDisallowedKeeps ==
  ASSUME JobsInv, NEW j \in Jobs, CancelDisallowed(j)
  PROVE JobsInv' /\ CancelKept
<1> USE DEF JobsInv
<1>1. /\ Lawful /\ NoneStarts /\ canceler' \in [Jobs -> Nat]
      /\ rec[j].session \notin policy.set => rec'[j].status \in Terminal \cup {"canceling"}
  <2>1. rec[j].status # "none"
    BY DEF CancelDisallowed, Withdrawal
  <2>2. CASE rec[j].session \in policy.set
    BY <2>2, SameRecords DEF CancelDisallowed, JobTypes
  <2>3. CASE rec[j].session \notin policy.set
    BY <2>1, <2>3, MarkCancelingLawful DEF CancelDisallowed
  <2> QED BY <2>2, <2>3
<1>2. JobTypes'
  BY <1>1, NoneRevived DEF JobTypes, Lawful, CancelDisallowed, PolicyAt, TaskPcs
<1>3. Lifecycle'
  BY <1>1, NoneRevived DEF JobTypes, Lifecycle, Lawful, CancelDisallowed, PolicyAt,
       Terminal
<1>4. Withdrawal'
  BY <1>1, NoneRevived DEF JobTypes, Withdrawal, Lawful, CancelDisallowed, PolicyAt,
       Terminal, NoneStarts
<1>5. Closing'
  BY <1>1, NoneRevived DEF JobTypes, Closing, Lawful, CancelDisallowed, PolicyAt, Terminal
<1>6. OneSemaphore'
  BY <1>1, NoneRevived DEF JobTypes, OneSemaphore, Lawful, CancelDisallowed, PolicyAt
<1>7. LimitsHold'
  <2>1. NoneGains
    BY <1>1, NoneRevived DEF NoneGains, JobTypes, Lawful, OneSemaphore, HasSessionPermit,
       HasGlobalPermit, LimitsHold, Permitted, CancelDisallowed, PolicyAt
  <2> QED BY <2>1, NoPermitGained
<1>8. CancelKept
  BY <1>1 DEF Lawful, CancelKept
<1> QED BY <1>2, <1>3, <1>4, <1>5, <1>6, <1>7, <1>8

LEMMA PolicyDoneKeeps ==
  ASSUME JobsInv, PolicyDone
  PROVE JobsInv' /\ CancelKept
<1> USE DEF JobsInv
<1>1. Lawful /\ NoneStarts
  BY SameRecords DEF PolicyDone
<1>2. JobTypes'
  BY <1>1 DEF JobTypes, Lawful, PolicyDone, PolicyAt, TaskPcs
<1>3. Lifecycle'
  BY <1>1, NoneRevived DEF JobTypes, Lifecycle, Lawful, PolicyDone, PolicyAt, Terminal
<1>4. Withdrawal'
  BY <1>1 DEF JobTypes, Withdrawal, Lawful, PolicyDone, PolicyAt, Terminal, NoneStarts
<1>5. Closing'
  BY <1>1, NoneRevived DEF JobTypes, Closing, Lawful, PolicyDone, PolicyAt, Terminal
<1>6. OneSemaphore'
  BY <1>1 DEF JobTypes, OneSemaphore, Lawful, PolicyDone, PolicyAt
<1>7. LimitsHold'
  <2>1. NoneGains
    BY <1>1 DEF NoneGains, JobTypes, Lawful, OneSemaphore, HasSessionPermit,
       HasGlobalPermit, LimitsHold, Permitted, PolicyDone, PolicyAt
  <2> QED BY <2>1, NoPermitGained
<1>8. CancelKept
  BY <1>1 DEF Lawful, CancelKept
<1> QED BY <1>2, <1>3, <1>4, <1>5, <1>6, <1>7, <1>8

LEMMA ShutdownBeginsKeeps ==
  ASSUME JobsInv, ShutdownBegins
  PROVE JobsInv' /\ CancelKept
<1> USE DEF JobsInv
<1>1. Lawful /\ NoneStarts
  BY SameRecords DEF ShutdownBegins
<1>2. JobTypes'
  BY <1>1 DEF JobTypes, Lawful, ShutdownBegins, TaskPcs
<1>3. Lifecycle'
  BY <1>1, NoneRevived DEF JobTypes, Lifecycle, Lawful, ShutdownBegins, Terminal
<1>4. Withdrawal'
  BY <1>1 DEF JobTypes, Withdrawal, Lawful, ShutdownBegins, Terminal, NoneStarts
<1>5. Closing'
  BY <1>1, NoneRevived DEF JobTypes, Closing, Lawful, ShutdownBegins, Terminal, Lifecycle
<1>6. OneSemaphore'
  BY <1>1 DEF JobTypes, OneSemaphore, Lawful, ShutdownBegins
<1>7. LimitsHold'
  <2>1. NoneGains
    BY <1>1 DEF NoneGains, JobTypes, Lawful, OneSemaphore, HasSessionPermit,
       HasGlobalPermit, LimitsHold, Permitted, ShutdownBegins
  <2> QED BY <2>1, NoPermitGained
<1>8. CancelKept
  BY <1>1 DEF Lawful, CancelKept
<1> QED BY <1>2, <1>3, <1>4, <1>5, <1>6, <1>7, <1>8

LEMMA ShutdownCancelsKeeps ==
  ASSUME JobsInv, NEW j \in Jobs, ShutdownCancels(j)
  PROVE JobsInv' /\ CancelKept
<1> USE DEF JobsInv
<1>1. /\ Lawful /\ NoneStarts /\ canceler' \in [Jobs -> Nat]
      /\ j \in closing.recs => rec'[j].status \in Terminal \cup {"canceling"}
  <2>1. CASE rec[j].status # "none"
    BY <2>1, MarkCancelingLawful DEF ShutdownCancels
  <2>2. CASE rec[j].status = "none"
    BY <2>2, SameRecords, StatusesAre DEF ShutdownCancels, MarkCanceling, IsActive, JobTypes, Closing
  <2> QED BY <2>1, <2>2
<1>2. JobTypes'
  BY <1>1, NoneRevived DEF JobTypes, Lawful, ShutdownCancels, TaskPcs
<1>3. Lifecycle'
  BY <1>1, NoneRevived DEF JobTypes, Lifecycle, Lawful, ShutdownCancels, Terminal
<1>4. Withdrawal'
  BY <1>1, NoneRevived DEF JobTypes, Withdrawal, Lawful, ShutdownCancels, Terminal,
       NoneStarts
<1>5. Closing'
  BY <1>1, NoneRevived DEF JobTypes, Closing, Lawful, ShutdownCancels, Terminal
<1>6. OneSemaphore'
  BY <1>1, NoneRevived DEF JobTypes, OneSemaphore, Lawful, ShutdownCancels
<1>7. LimitsHold'
  <2>1. NoneGains
    BY <1>1, NoneRevived DEF NoneGains, JobTypes, Lawful, OneSemaphore, HasSessionPermit,
       HasGlobalPermit, LimitsHold, Permitted, ShutdownCancels
  <2> QED BY <2>1, NoPermitGained
<1>8. CancelKept
  BY <1>1 DEF Lawful, CancelKept
<1> QED BY <1>2, <1>3, <1>4, <1>5, <1>6, <1>7, <1>8

LEMMA ShutdownCollectsKeeps ==
  ASSUME JobsInv, ShutdownCollects
  PROVE JobsInv' /\ CancelKept
<1> USE DEF JobsInv
<1>1. Lawful /\ NoneStarts
  BY SameRecords DEF ShutdownCollects
<1>2. JobTypes'
  BY <1>1 DEF JobTypes, Lawful, ShutdownCollects, TaskPcs
<1>3. Lifecycle'
  BY <1>1, NoneRevived DEF JobTypes, Lifecycle, Lawful, ShutdownCollects, Terminal
<1>4. Withdrawal'
  BY <1>1 DEF JobTypes, Withdrawal, Lawful, ShutdownCollects, Terminal, NoneStarts
<1>5. Closing'
  BY <1>1, NoneRevived DEF JobTypes, Closing, Lawful, ShutdownCollects, Terminal
<1>6. OneSemaphore'
  BY <1>1 DEF JobTypes, OneSemaphore, Lawful, ShutdownCollects
<1>7. LimitsHold'
  <2>1. NoneGains
    BY <1>1 DEF NoneGains, JobTypes, Lawful, OneSemaphore, HasSessionPermit,
       HasGlobalPermit, LimitsHold, Permitted, ShutdownCollects
  <2> QED BY <2>1, NoPermitGained
<1>8. CancelKept
  BY <1>1 DEF Lawful, CancelKept
<1> QED BY <1>2, <1>3, <1>4, <1>5, <1>6, <1>7, <1>8

LEMMA TakesHandle ==
  ASSUME JobsInv, NEW j \in Jobs, TakeHandle(j), rec[j].handle = "set"
  PROVE JobsInv' /\ CancelKept
<1> USE DEF JobsInv
<1>1. /\ rec' \in [Jobs -> JobRecord]
      /\ \A i \in Jobs : /\ rec'[i].status = rec[i].status /\ rec'[i].session = rec[i].session
                         /\ rec'[i].handle = IF i = j THEN "taken" ELSE rec[i].handle
  <2> DEFINE new == [rec[j] EXCEPT !.handle = "taken"]
  <2>1. rec[j] \in JobRecord /\ rec \in [Jobs -> JobRecord]
    BY DEF JobTypes
  <2>2. /\ new \in JobRecord /\ new.handle = "taken"
        /\ new.status = rec[j].status /\ new.session = rec[j].session
    BY <2>1 DEF JobRecord
  <2>3. rec' = [rec EXCEPT ![j] = new]
    BY DEF TakeHandle
  <2> HIDE DEF new
  <2> QED BY <2>1, <2>2, <2>3
<1>2. JobTypes'
  BY <1>1 DEF JobTypes, Lawful, TakeHandle, TaskPcs
<1>3. Lifecycle'
  BY <1>1 DEF JobTypes, Lifecycle, Lawful, TakeHandle, Terminal, IsActive
<1>4. Withdrawal'
  BY <1>1 DEF JobTypes, Withdrawal, Lawful, TakeHandle, Terminal, NoneStarts
<1>5. Closing'
  BY <1>1 DEF JobTypes, Closing, Lawful, TakeHandle, Terminal
<1>6. OneSemaphore'
  BY <1>1 DEF JobTypes, OneSemaphore, Lawful, TakeHandle
<1>7. LimitsHold'
  <2>1. NoneGains
    BY <1>1 DEF NoneGains, JobTypes, Lawful, OneSemaphore, HasSessionPermit,
       HasGlobalPermit, LimitsHold, Permitted, TakeHandle
  <2> QED BY <2>1, NoPermitGained
<1>8. CancelKept
  BY <1>1 DEF CancelKept
<1> QED BY <1>2, <1>3, <1>4, <1>5, <1>6, <1>7, <1>8

LEMMA SettlesJob ==
  ASSUME JobsInv, NEW j \in Jobs, TakeHandle(j), rec[j].handle # "set"
  PROVE JobsInv' /\ CancelKept
<1> USE DEF JobsInv
<1>1. Lawful /\ NoneStarts
  <2>1. rec[j].status # "none"
    BY DEF TakeHandle, Closing
  <2> QED BY <2>1, FinishCanceledLawful DEF TakeHandle
<1>2. JobTypes'
  BY <1>1 DEF JobTypes, Lawful, TakeHandle, TaskPcs
<1>3. Lifecycle'
  BY <1>1, NoneRevived DEF JobTypes, Lifecycle, Lawful, TakeHandle, Terminal
<1>4. Withdrawal'
  BY <1>1 DEF JobTypes, Withdrawal, Lawful, TakeHandle, Terminal, NoneStarts
<1>5. Closing'
  BY <1>1, NoneRevived DEF JobTypes, Closing, Lawful, TakeHandle, Terminal
<1>6. OneSemaphore'
  BY <1>1 DEF JobTypes, OneSemaphore, Lawful, TakeHandle
<1>7. LimitsHold'
  <2>1. NoneGains
    BY <1>1 DEF NoneGains, JobTypes, Lawful, OneSemaphore, HasSessionPermit,
       HasGlobalPermit, LimitsHold, Permitted, TakeHandle
  <2> QED BY <2>1, NoPermitGained
<1>8. CancelKept
  BY <1>1 DEF Lawful, CancelKept
<1> QED BY <1>2, <1>3, <1>4, <1>5, <1>6, <1>7, <1>8

LEMMA TakeHandleKeeps ==
  ASSUME JobsInv, NEW j \in Jobs, TakeHandle(j)
  PROVE JobsInv' /\ CancelKept
BY TakesHandle, SettlesJob

LEMMA ShutdownEndsKeeps ==
  ASSUME JobsInv, ShutdownEnds
  PROVE JobsInv' /\ CancelKept
<1> USE DEF JobsInv
<1>0. /\ task' \in TaskTypes /\ held' \in [Jobs -> Nat \cup {NoSem}]
      /\ \A i \in Jobs : /\ task'[i].verdict = task[i].verdict
                         /\ task'[i].pc = IF i \in Unfinished THEN "over" ELSE task[i].pc
                         /\ held'[i] = IF i \in Unfinished THEN NoSem ELSE held[i]
  BY DEF ShutdownEnds, JobTypes, TaskTypes, TaskPcs
<1>9. \A i \in Unfinished : /\ rec[i].handle = "taken" /\ i \in Jobs
                           /\ creator[i] = "done" /\ rec[i].status # "none"
  BY DEF Unfinished, JobTypes, Lifecycle, Closing
<1>1. Lawful /\ NoneStarts
  BY SameRecords DEF ShutdownEnds
<1>2. JobTypes'
  BY <1>1, <1>0, <1>9 DEF JobTypes, Lawful, ShutdownEnds, TaskPcs
<1>3. Lifecycle'
  BY <1>1, NoneRevived, <1>0, <1>9 DEF JobTypes, Lifecycle, Lawful, ShutdownEnds, Terminal
<1>4. Withdrawal'
  BY <1>1, <1>0, <1>9 DEF JobTypes, Withdrawal, Lawful, ShutdownEnds, Terminal, NoneStarts
<1>5. Closing'
  BY <1>1, NoneRevived, <1>0, <1>9 DEF JobTypes, Closing, Lawful, ShutdownEnds, Terminal,
       Unfinished
<1>6. OneSemaphore'
  BY <1>1, <1>0, <1>9 DEF JobTypes, OneSemaphore, Lawful, ShutdownEnds
<1>7. LimitsHold'
  <2>1. NoneGains
    BY <1>1, <1>0, <1>9 DEF NoneGains, JobTypes, Lawful, OneSemaphore, HasSessionPermit,
       HasGlobalPermit, LimitsHold, Permitted, ShutdownEnds
  <2> QED BY <2>1, NoPermitGained
<1>8. CancelKept
  BY <1>1 DEF Lawful, CancelKept
<1> QED BY <1>2, <1>3, <1>4, <1>5, <1>6, <1>7, <1>8

-----------------------------------------------------------------------------
(* The event streams change no record.                                     *)
LEMMA StreamsKeep ==
  ASSUME JobsInv, NEW c \in Streams,
         StreamStep(c) \/ \E j \in Jobs : \E after \in {0, rec[j].last} : Subscribe(c, j, after)
  PROVE JobsInv' /\ CancelKept
<1>1. UNCHANGED <<rec, registry, creator, task, canceler, sem, held, allowed, policy, closing>>
  BY DEF StreamStep, CopyStored, Receive, ReceiveLagged, Subscribe
<1>2. Lawful /\ NoneStarts /\ canceler' \in [Jobs -> Nat]
  BY <1>1, SameRecords DEF JobsInv, JobTypes
<1> QED BY <1>1, <1>2, RecordStep

-----------------------------------------------------------------------------
(* Creating a job: what leaves the registry is final.                      *)
LEMMA CreateOutcome ==
  ASSUME NEW j \in Jobs, Create(j)
  PROVE \E reg \in SUBSET registry :
          /\ \A i \in registry \ reg : IsTerminal(i)
          /\ \/ registry' = reg /\ creator' = [creator EXCEPT ![j] = "done"] /\ UNCHANGED rec
             \/ /\ registry' = reg \cup {j} /\ creator' = [creator EXCEPT ![j] = "created"]
                /\ rec' = [rec EXCEPT ![j] = NewRecord(rec[j].session)]
<1>1. PICK kept \in Pruned(registry) :
        \/ registry' = kept /\ creator' = [creator EXCEPT ![j] = "done"] /\ UNCHANGED rec
        \/ \E reg \in {kept} \cup Evicted(kept) :
             \/ registry' = reg /\ creator' = [creator EXCEPT ![j] = "done"] /\ UNCHANGED rec
             \/ /\ registry' = reg \cup {j} /\ creator' = [creator EXCEPT ![j] = "created"]
                /\ rec' = [rec EXCEPT ![j] = NewRecord(rec[j].session)]
  BY DEF Create
<1>2. kept \in SUBSET registry /\ \A i \in registry \ kept : IsTerminal(i)
  BY DEF Pruned
<1>3. \A reg \in {kept} \cup Evicted(kept) :
        reg \in SUBSET kept /\ \A i \in kept \ reg : IsTerminal(i)
  BY DEF Evicted
<1>4. CASE registry' = kept /\ creator' = [creator EXCEPT ![j] = "done"] /\ UNCHANGED rec
  BY <1>2, <1>4
<1>5. CASE ~(registry' = kept /\ creator' = [creator EXCEPT ![j] = "done"] /\ UNCHANGED rec)
  <2>1. PICK reg \in {kept} \cup Evicted(kept) :
             \/ registry' = reg /\ creator' = [creator EXCEPT ![j] = "done"] /\ UNCHANGED rec
             \/ /\ registry' = reg \cup {j} /\ creator' = [creator EXCEPT ![j] = "created"]
                /\ rec' = [rec EXCEPT ![j] = NewRecord(rec[j].session)]
    BY <1>1, <1>5
  <2>2. reg \in SUBSET registry /\ \A i \in registry \ reg : IsTerminal(i)
    BY <1>2, <1>3, <2>1
  <2> QED BY <2>1, <2>2
<1> QED BY <1>4, <1>5

LEMMA NewRecordType ==
  ASSUME NEW s \in Sessions \cup {NoJob}
  PROVE /\ NewRecord(s) \in JobRecord /\ NewRecord(s).status = "queued"
        /\ NewRecord(s).session = s /\ NewRecord(s).handle = "none"
<1>1. Event(1, "queued") \in EventSet
  BY StatusesAre DEF Event, EventSet
<1> QED BY <1>1, StatusesAre DEF NewRecord, JobRecord

LEMMA RefusedKeeps ==
  ASSUME JobsInv, NEW j \in Jobs, Create(j), NEW reg \in SUBSET registry,
         \A i \in registry \ reg : IsTerminal(i), UNCHANGED rec,
         registry' = reg, creator' = [creator EXCEPT ![j] = "done"]
  PROVE JobsInv' /\ CancelKept
<1> USE DEF JobsInv
<1>1. Lawful /\ NoneStarts
  BY SameRecords
<1>2. JobTypes'
  BY <1>1 DEF JobTypes, Lawful, Create, TaskPcs
<1>3. Lifecycle'
  BY <1>1, NoneRevived DEF JobTypes, Lifecycle, Lawful, Create, Terminal, IsActive,
       IsTerminal
<1>4. Withdrawal'
  BY <1>1 DEF JobTypes, Withdrawal, Lawful, Create, Terminal, NoneStarts
<1>5. Closing'
  BY <1>1, NoneRevived DEF JobTypes, Closing, Lawful, Create, Terminal
<1>6. OneSemaphore'
  BY <1>1 DEF JobTypes, OneSemaphore, Lawful, Create
<1>7. LimitsHold'
  <2>1. NoneGains
    BY <1>1 DEF NoneGains, JobTypes, Lawful, OneSemaphore, HasSessionPermit,
       HasGlobalPermit, LimitsHold, Permitted, Create
  <2> QED BY <2>1, NoPermitGained
<1>8. CancelKept
  BY <1>1 DEF Lawful, CancelKept
<1> QED BY <1>2, <1>3, <1>4, <1>5, <1>6, <1>7, <1>8

LEMMA CreatedKeeps ==
  ASSUME JobsInv, NEW j \in Jobs, Create(j), NEW reg \in SUBSET registry,
         \A i \in registry \ reg : IsTerminal(i),
         rec' = [rec EXCEPT ![j] = NewRecord(rec[j].session)],
         registry' = reg \cup {j}, creator' = [creator EXCEPT ![j] = "created"]
  PROVE JobsInv' /\ CancelKept
<1> USE DEF JobsInv
<1>1. /\ rec' \in [Jobs -> JobRecord]
      /\ \A i \in Jobs : i # j => rec'[i] = rec[i]
      /\ rec'[j].status = "queued" /\ rec'[j].handle = "none"
      /\ rec'[j].session = rec[j].session
  <2> DEFINE new == NewRecord(rec[j].session)
  <2>1. rec[j].session \in Sessions \cup {NoJob} /\ rec \in [Jobs -> JobRecord]
    BY DEF JobTypes, JobRecord
  <2>2. new \in JobRecord /\ new.status = "queued" /\ new.handle = "none"
        /\ new.session = rec[j].session
    BY <2>1, NewRecordType
  <2>3. rec' = [rec EXCEPT ![j] = new]
    OBVIOUS
  <2> HIDE DEF new
  <2> QED BY <2>1, <2>2, <2>3
<1>0. rec[j].status = "none" /\ task[j].pc = "none" /\ creator[j] = "admitted"
      /\ j \notin closing.recs
  BY DEF JobTypes, Lifecycle, Closing, Create
<1>2. JobTypes'
  BY <1>1, <1>0 DEF JobTypes, Lawful, Create, TaskPcs
<1>3. Lifecycle'
  BY <1>1, <1>0 DEF JobTypes, Lifecycle, Lawful, Create, Terminal, IsActive, IsTerminal
<1>4. Withdrawal'
  BY <1>1, <1>0 DEF JobTypes, Withdrawal, Lawful, Create, Terminal, NoneStarts
<1>5. Closing'
  BY <1>1, <1>0 DEF JobTypes, Closing, Lawful, Create, Terminal
<1>6. OneSemaphore'
  BY <1>1, <1>0 DEF JobTypes, OneSemaphore, Lawful, Create
<1>7. LimitsHold'
  <2>1. NoneGains
    BY <1>1, <1>0 DEF NoneGains, JobTypes, Lawful, OneSemaphore, HasSessionPermit,
       HasGlobalPermit, LimitsHold, Permitted, Create
  <2> QED BY <2>1, NoPermitGained
<1>8. CancelKept
  BY <1>0, <1>1 DEF CancelKept
<1> QED BY <1>2, <1>3, <1>4, <1>5, <1>6, <1>7, <1>8

LEMMA CreateKeeps ==
  ASSUME JobsInv, NEW j \in Jobs, Create(j)
  PROVE JobsInv' /\ CancelKept
BY CreateOutcome, RefusedKeeps, CreatedKeeps

-----------------------------------------------------------------------------
(* JobsInv is inductive, and no step loses a cancellation.                 *)
LEMMA JobsInit == Init => JobsInv
<1> SUFFICES ASSUME Init PROVE JobsInv
  OBVIOUS
<1>1. NoRecord \in JobRecord /\ NoRecord.status = "none" /\ NoRecord.handle = "none"
  <2>1. NewRecord(NoJob) \in JobRecord /\ NewRecord(NoJob).handle = "none"
    BY NewRecordType
  <2> QED BY <2>1 DEF NoRecord, JobRecord
<1>2. /\ rec = [j \in Jobs |-> NoRecord] /\ \A j \in Jobs : rec[j] = NoRecord
      /\ task = [j \in Jobs |-> [pc |-> "none", verdict |-> "none"]]
      /\ \A j \in Jobs : held[j] = NoSem /\ task[j].pc = "none" /\ creator[j] = "idle"
  BY DEF Init
<1>3. JobTypes
  BY <1>1, <1>2 DEF Init, JobTypes, TaskTypes, TaskPcs
<1>4. Lifecycle /\ Withdrawal /\ Closing /\ OneSemaphore
  BY <1>1, <1>2, StatusesAre
     DEF Init, Lifecycle, Withdrawal, Closing, OneSemaphore, IsActive, Terminal
<1>5. LimitsHold
  <2>1. \A s \in Sessions : {j \in Jobs : rec[j].session = s /\ HasSessionPermit(j)} = {}
    BY <1>2 DEF HasSessionPermit
  <2>2. {j \in Jobs : HasGlobalPermit(j)} = {}
    BY <1>2 DEF HasGlobalPermit, HasSessionPermit
  <2>3. SessionPermits >= 0 /\ GlobalPermits >= 0
    BY JobsAssumption
  <2> QED BY <1>2, <2>1, <2>2, <2>3, FS_EmptySet DEF LimitsHold
<1> QED BY <1>3, <1>4, <1>5 DEF JobsInv

LEMMA JobsStep == JobsInv /\ [Next]_vars => JobsInv' /\ CancelKept
<1> SUFFICES ASSUME JobsInv, [Next]_vars PROVE JobsInv' /\ CancelKept
  OBVIOUS
<1>1. ASSUME NEW j \in Jobs, (\E s \in Sessions : Admit(j, s)) \/ Create(j) \/ Spawn(j)
                             \/ AttachHandle(j) \/ DropCreator(j)
      PROVE JobsInv' /\ CancelKept
  BY <1>1, AdmitKeeps, CreateKeeps, SpawnKeeps, AttachHandleKeeps, DropCreatorKeeps
<1>2. ASSUME NEW j \in Jobs, TaskStep(j) \/ AppendOutput(j)
      PROVE JobsInv' /\ CancelKept
  BY <1>2, MarkConnectingKeeps, CanceledWhileWaitingKeeps, ConnectReturnsKeeps, EnterQueueKeeps,
     AcquireSessionKeeps, AcquireGlobalKeeps, QueueTimesOutKeeps, VerifyAccessKeeps,
     MarkRunningKeeps, ConcludeKeeps, ExecReturnsKeeps, AppendOutputKeeps DEF TaskStep
<1>3. ASSUME NEW j \in Jobs, RestCancel(j) \/ CancelSignals(j) \/ CancelDisallowed(j)
                             \/ ShutdownCancels(j) \/ TakeHandle(j)
      PROVE JobsInv' /\ CancelKept
  BY <1>3, RestCancelKeeps, CancelSignalsKeeps, CancelDisallowedKeeps, ShutdownCancelsKeeps,
     TakeHandleKeeps
<1>4. CASE \/ \E set \in SUBSET Sessions : ReplaceCache(set)
           \/ LookUp \/ UpdateSessions \/ SnapshotJobs \/ PolicyDone
  BY <1>4, ReplaceCacheKeeps, LookUpKeeps, UpdateSessionsKeeps, SnapshotJobsKeeps, PolicyDoneKeeps
<1>5. CASE ShutdownBegins \/ ShutdownCollects \/ ShutdownEnds
  BY <1>5, ShutdownBeginsKeeps, ShutdownCollectsKeeps, ShutdownEndsKeeps
<1>6. ASSUME NEW c \in Streams,
             \/ \E j \in Jobs : \E after \in {0, rec[j].last} : Subscribe(c, j, after)
             \/ StreamStep(c)
      PROVE JobsInv' /\ CancelKept
  BY <1>6, StreamsKeep
<1>7. CASE UNCHANGED vars
  <2>1. UNCHANGED <<rec, registry, creator, task, canceler, sem, held, allowed, policy, closing>>
    BY <1>7 DEF vars
  <2>2. Lawful /\ NoneStarts /\ canceler' \in [Jobs -> Nat]
    BY <2>1, SameRecords DEF JobsInv, JobTypes
  <2> QED BY <2>1, <2>2, RecordStep
<1> QED BY <1>1, <1>2, <1>3, <1>4, <1>5, <1>6, <1>7 DEF Next

(* JobsInv holds in every state, for any jobs, sessions and limits.        *)
THEOREM JobsInvariant == Spec => []JobsInv
BY JobsInit, JobsStep, PTL DEF Spec

(* A cancellation that request_cancel accepted is never overtaken by the   *)
(* end of the command, whichever of mark_running, append_output and        *)
(* finish_result comes between the status, the flag and the event.         *)
THEOREM CancelWinsTheorem == Spec => CancelWins
<1>1. JobsInv /\ [Next]_vars =>
        [\A j \in Jobs : rec[j].status = "canceling"
                           => rec'[j].status \in {"canceling", "canceled"}]_vars
  BY JobsStep DEF CancelKept
<1> QED BY <1>1, JobsInvariant, PTL DEF Spec, CancelWins

(* The limits of ApiExecutionLimiter hold for any number of permits and of *)
(* sessions withdrawn and allowed again, although update_sessions replaces *)
(* semaphores while jobs queue on them.                                    *)
THEOREM LimitsHoldTheorem == Spec => []LimitsHold
<1>1. JobsInv => LimitsHold
  BY DEF JobsInv
<1> QED BY <1>1, JobsInvariant, PTL

(* When update_allowed_sessions is complete, no job of a withdrawn session *)
(* is marked as running, wherever its task was when the change began.      *)
THEOREM WithdrawnTheorem == Spec => []WithdrawnNeverRuns
<1>1. JobsInv => WithdrawnNeverRuns
  BY DEF JobsInv, JobTypes, Withdrawal, WithdrawnNeverRuns, Terminal
<1> QED BY <1>1, JobsInvariant, PTL

(* The shutdown of the registry leaves no job it found unsettled and no    *)
(* task it had a handle of alive.                                          *)
THEOREM ShutdownSettlesTheorem == Spec => []ShutdownSettles
<1>1. JobsInv => ShutdownSettles
  BY DEF JobsInv, Closing, ShutdownSettles
<1> QED BY <1>1, JobsInvariant, PTL

-----------------------------------------------------------------------------
(* The event streams.                                                      *)

(* A set of numbers has a least one.                                       *)
LEMMA Least ==
  ASSUME NEW S \in SUBSET Nat, S # {}
  PROVE  \E x \in S : \A y \in S : x <= y
<1> DEFINE R == {ss \in Nat \X Nat : ss[1] < ss[2]}
<1>1. IsWellFoundedOn(R, Nat) BY NatLessThanWellFounded, Zenon DEF OpToRel
<1>2. PICK x \in S : \A y \in S : ~(<<y, x>> \in R)
  <2> HIDE DEF R
  <2> QED BY <1>1, WFMin
<1>3. ASSUME NEW y \in S PROVE x <= y
  <2>1. ~(<<y, x>> \in R) BY <1>2
  <2>2. <<y, x>> \in Nat \X Nat OBVIOUS
  <2> QED BY <2>1, <2>2
<1>4. QED BY <1>3

ToldSet == [id : Nat, snapshot : BOOLEAN]
StreamRecord ==
  [pc : {"idle", "subscribed", "live", "ended"}, job : Jobs \cup {NoJob}, after : Nat, last : Nat,
   queue : Seq(EventSet), lagged : BOOLEAN, told : Seq(ToldSet)]

(* The stored events are numbered without a gap up to the last one.        *)
Numbered(r) ==
  /\ Len(r.events) \in 1..r.last
  /\ \A i \in DOMAIN r.events : r.events[i].id = r.last - Len(r.events) + i

(* An event in the channel is not ahead of its record, and it is the last  *)
(* one exactly if it tells how the job ended.                              *)
Heard(r, e) ==
  /\ e.id <= r.last
  /\ e.name \in Terminal => e.id = r.last /\ e.name = r.status
  /\ r.status \in Terminal /\ e.id = r.last => e.name = r.status

(* What a stream has told and has before it, seen from the record.         *)
Followed(r, s) ==
  /\ s.after <= r.last
  /\ s.pc = "subscribed" => s.told = <<>>
  /\ s.pc \in {"subscribed", "live"} => \A i \in DOMAIN s.queue : Heard(r, s.queue[i])
  /\ s.pc = "live" => /\ s.last <= r.last /\ (r.status \in Terminal => s.last < r.last)
                      /\ \A i \in DOMAIN s.told : s.told[i].id <= s.last
  /\ InOrder(s.told)
  /\ s.pc = "ended" => /\ r.status \in Terminal
                       /\ r.last = s.after \/ \E i \in DOMAIN s.told : s.told[i].id = r.last
  /\ s.pc = "live" /\ r.status \in Terminal =>
       s.lagged \/ \E i \in DOMAIN s.queue : s.queue[i] = Event(r.last, r.status)

Signaling(j) ==
  /\ canceler[j] <= rec[j].last
  /\ rec[j].status \in Terminal => canceler[j] < rec[j].last
  /\ rec[j].status = "none" => canceler[j] = 0

Following(c) ==
  /\ stream[c].pc = "idle" => stream[c].job = NoJob /\ stream[c].queue = <<>>
                              /\ stream[c].told = <<>> /\ ~ stream[c].lagged
  /\ stream[c].pc # "idle" => /\ stream[c].job \in Jobs /\ rec[stream[c].job].status # "none"
                              /\ Followed(rec[stream[c].job], stream[c])

StreamInv ==
  /\ stream \in [Streams -> StreamRecord]
  /\ \A j \in Jobs : Numbered(rec[j]) /\ Signaling(j)
  /\ \A c \in Streams : Following(c)

LEMMA PushNumbers ==
  ASSUME NEW r \in JobRecord, Numbered(r), NEW name \in Statuses \cup {"output"}
  PROVE Numbered(PushEvent(r, name)) /\ PushEvent(r, name).last = r.last + 1
<1> DEFINE e == Event(r.last + 1, name)
           all == Append(r.events, e)
           from == IF Len(all) > MaxEvents THEN 2 ELSE 1
           kept == SubSeq(all, from, Len(all))
<1>1. r.events \in Seq(EventSet) /\ r.last \in Nat /\ MaxEvents \in Nat \ {0}
  BY JobsAssumption DEF JobRecord
<1>2. e \in EventSet /\ e.id = r.last + 1
  BY <1>1 DEF Event, EventSet
<1> HIDE DEF e
<1>3. /\ all \in Seq(EventSet) /\ Len(all) = Len(r.events) + 1
      /\ \A i \in 1..Len(all) : all[i] = IF i = Len(all) THEN e ELSE r.events[i]
  BY <1>1, <1>2
<1>4. Len(r.events) \in Nat /\ DOMAIN r.events = 1..Len(r.events)
  BY <1>1
<1> HIDE DEF all
<1>5. from \in 1..2 /\ from <= Len(all)
  BY <1>1, <1>3, <1>4
<1> HIDE DEF from
<1>6. /\ Len(kept) = Len(all) - from + 1 /\ DOMAIN kept = 1..Len(kept)
      /\ \A i \in 1..Len(kept) : kept[i] = all[from + i - 1]
  BY <1>3, <1>4, <1>5
<1>7. \A i \in 1..Len(all) : all[i].id = r.last + 1 - Len(all) + i
  <2> SUFFICES ASSUME NEW i \in 1..Len(all) PROVE all[i].id = r.last + 1 - Len(all) + i
    OBVIOUS
  <2>1. CASE i = Len(all)
    <3>1. all[i] = e BY <1>3, <2>1
    <3> QED BY <1>1, <1>2, <1>3, <1>4, <2>1, <3>1
  <2>2. CASE i # Len(all)
    <3>1. i \in DOMAIN r.events BY <1>3, <1>4, <2>2
    <3>2. r.events[i].id = r.last - Len(r.events) + i BY <3>1 DEF Numbered
    <3> QED BY <1>1, <1>3, <1>4, <2>2, <3>2
  <2> QED BY <2>1, <2>2
<1> DEFINE next == r.last + 1
<1>8. PushEvent(r, name) = [r EXCEPT !.last = next, !.events = kept]
  BY DEF PushEvent, kept, from, all, e
<1> HIDE DEF kept, next
<1>9. PushEvent(r, name).last = next /\ PushEvent(r, name).events = kept
  BY <1>8 DEF JobRecord
<1>10. Len(kept) \in 1..next
  <2>1. Len(r.events) \in 1..r.last BY DEF Numbered
  <2> QED BY <1>1, <1>3, <1>5, <1>6, <2>1 DEF next
<1>11. ASSUME NEW i \in 1..Len(kept) PROVE kept[i].id = next - Len(kept) + i
  <2>1. from + i - 1 \in 1..Len(all) BY <1>3, <1>4, <1>5, <1>6
  <2>2. all[from + i - 1].id = r.last + 1 - Len(all) + (from + i - 1) BY <1>7, <2>1
  <2>3. kept[i] = all[from + i - 1] BY <1>6
  <2>4. r.last + 1 - Len(all) + (from + i - 1) = next - Len(kept) + i
    <3>1. Len(all) \in Nat /\ from \in Nat /\ r.last \in Nat /\ Len(kept) = Len(all) - from + 1
      BY <1>1, <1>3, <1>4, <1>5, <1>6
    <3>2. i \in Nat BY <3>1
    <3>3. \A a, b, f, l \in Nat : l + 1 - a + (f + b - 1) = (l + 1) - (a - f + 1) + b OBVIOUS
    <3> QED BY <3>1, <3>2, <3>3 DEF next
  <2> QED BY <2>2, <2>3, <2>4
<1> QED BY <1>6, <1>9, <1>10, <1>11 DEF Numbered, next

(* The copy of the stored events: those after the one the client has.      *)
LEMMA StoredIs ==
  ASSUME StreamInv, JobTypes, NEW c \in Streams, stream[c].pc = "subscribed"
  PROVE LET r == rec[stream[c].job]
            n == Len(Stored(c)) IN
        /\ Stored(c) \in Seq(ToldSet) /\ n <= r.last
        /\ \A i \in 1..n : Stored(c)[i] = Told(r.last - n + i, FALSE)
        /\ r.last > stream[c].after => n > 0
<1> DEFINE r == rec[stream[c].job]
           events == r.events
           after == stream[c].after
           L == Len(events)
           F(u) == [n \in 0..L |-> IF n = 0 THEN <<>>
                                   ELSE IF events[n].id > after
                                          THEN Append(u[n - 1], Told(events[n].id, FALSE))
                                          ELSE u[n - 1]]
           k == IF L > r.last - after THEN L - (r.last - after) ELSE 0
           w == [n \in 0..L |-> [i \in 1..(IF n > k THEN n - k ELSE 0) |-> Told(events[k + i].id, FALSE)]]
<1>1. /\ r \in JobRecord /\ Numbered(r) /\ Followed(r, stream[c])
  BY DEF StreamInv, Following, JobTypes
<1>2. /\ events \in Seq(EventSet) /\ r.last \in Nat /\ after \in Nat /\ after <= r.last
      /\ L \in 1..r.last /\ DOMAIN events = 1..L
      /\ \A i \in 1..L : events[i].id = r.last - L + i
  BY <1>1 DEF JobRecord, Numbered, Followed, StreamInv, StreamRecord
<1>a. /\ L \in Nat /\ L > 0 /\ L <= r.last
      /\ \A i \in 1..L : events[i].id \in Nat
  <2>1. L \in Nat /\ L > 0 /\ L <= r.last BY <1>2
  <2>2. \A i \in 1..L : events[i].id \in Nat
    <3> HIDE DEF L, r, events
    <3> QED BY <1>2, <2>1
  <2> QED BY <2>1, <2>2
<1> HIDE DEF events, after, r, L
<1>3. k \in 0..L /\ \A i \in 1..L : events[i].id > after <=> i > k
  BY <1>2, <1>a
<1>4. \A n \in 0..L : w[n] = [i \in 1..(IF n > k THEN n - k ELSE 0) |-> Told(events[k + i].id, FALSE)]
  OBVIOUS
<1>5. \A i \in 1..L : Told(events[i].id, FALSE) \in ToldSet
  BY <1>a DEF Told, ToldSet
<1> HIDE DEF k
<1>6. w \in [0..L -> Seq(ToldSet)]
  <2> SUFFICES ASSUME NEW n \in 0..L PROVE w[n] \in Seq(ToldSet)
    OBVIOUS
  <2> DEFINE m == IF n > k THEN n - k ELSE 0
  <2>1. m \in Nat /\ \A i \in 1..m : k + i \in 1..L BY <1>a, <1>3
  <2>2. w[n] = [i \in 1..m |-> Told(events[k + i].id, FALSE)] BY <1>4
  <2> HIDE DEF m, w
  <2>3. \A i \in 1..m : Told(events[k + i].id, FALSE) \in ToldSet BY <1>5, <2>1
  <2>4. w[n] \in [1..m -> ToldSet] BY <2>2, <2>3
  <2> QED BY <2>1, <2>4, SeqDef
<1>7. w = F(w)
  <2>1. ASSUME NEW n \in 0..L
        PROVE w[n] = IF n = 0 THEN <<>>
                     ELSE IF events[n].id > after THEN Append(w[n - 1], Told(events[n].id, FALSE))
                          ELSE w[n - 1]
    <3>1. CASE n = 0
      <4>1. w[0] = [i \in 1..0 |-> Told(events[k + i].id, FALSE)]
        <5>1. 0 \in 0..L /\ ~(0 > k) BY <1>3, <1>a
        <5> QED BY <1>4, <5>1
      <4>2. w[0] \in Seq(ToldSet) /\ DOMAIN w[0] = 1..0
        <5>1. 0 \in 0..L BY <1>a
        <5> QED BY <1>6, <4>1, <5>1
      <4>3. w[0] = <<>>
        <5> HIDE DEF w
        <5>1. Len(w[0]) \in Nat /\ 1..Len(w[0]) = 1..0 BY <4>2, LenProperties
        <5>2. \A x \in 1..Len(w[0]) : FALSE BY <5>1
        <5>3. Len(w[0]) = 0 BY <5>1, <5>2
        <5> QED BY <4>2, <5>3, EmptySeq
      <4> QED BY <3>1, <4>3
    <3>2. CASE n # 0 /\ n <= k
      <4>1. n \in 1..L /\ n - 1 \in 0..L BY <1>2, <3>2
      <4>2. ~(events[n].id > after) BY <1>3, <3>2, <4>1
      <4>3. w[n] = w[n - 1] BY <1>3, <1>4, <3>2, <4>1
      <4> QED BY <3>2, <4>2, <4>3
    <3>3. CASE n > k
      <4>1. n \in 1..L /\ n - 1 \in 0..L BY <1>2, <1>3, <3>3
      <4>2. events[n].id > after BY <1>3, <3>3, <4>1
      <4>3. w[n - 1] = [i \in 1..(n - 1 - k) |-> Told(events[k + i].id, FALSE)]
        BY <1>2, <1>3, <1>4, <3>3, <4>1
      <4>4. w[n] = [i \in 1..(n - k) |-> Told(events[k + i].id, FALSE)]
        BY <1>4, <3>3, <4>1
      <4>5. w[n - 1] \in Seq(ToldSet) /\ w[n] \in Seq(ToldSet) BY <1>6, <4>1
      <4> DEFINE t == Told(events[n].id, FALSE)
                 longer == Append(w[n - 1], t)
      <4>6. t \in ToldSet BY <1>5, <4>1
      <4>7. Len(w[n - 1]) = n - 1 - k /\ Len(w[n]) = n - k
        BY <1>2, <1>3, <3>3, <4>3, <4>4, <4>5
      <4> HIDE DEF w
      <4>8. longer \in Seq(ToldSet) /\ Len(longer) = n - k
            /\ \A i \in 1..(n - k) : longer[i] = IF i = n - k THEN t ELSE w[n - 1][i]
        <5> HIDE DEF t
        <5> DEFINE u == w[n - 1]
        <5>1. u \in Seq(ToldSet) /\ Len(u) = n - 1 - k BY <4>5, <4>7
        <5>2. n - k = Len(u) + 1 BY <1>a, <1>3, <5>1
        <5> HIDE DEF u
        <5>3. Append(u, t) \in Seq(ToldSet) /\ Len(Append(u, t)) = Len(u) + 1
              /\ \A i \in 1..(Len(u) + 1) : Append(u, t)[i] = IF i = Len(u) + 1 THEN t ELSE u[i]
          BY <4>6, <5>1
        <5> QED BY <5>2, <5>3 DEF u
      <4>9. \A i \in 1..(n - k) : longer[i] = w[n][i]
        <5> SUFFICES ASSUME NEW i \in 1..(n - k) PROVE longer[i] = w[n][i]
          OBVIOUS
        <5>1. CASE i = n - k
          <6>1. k + i = n BY <1>2, <1>3, <5>1
          <6> QED BY <4>4, <4>8, <5>1, <6>1
        <5>2. CASE i # n - k
          <6>1. i \in 1..(n - 1 - k) BY <1>2, <1>3, <5>2
          <6> HIDE DEF longer
          <6> QED BY <4>3, <4>4, <4>8, <5>2, <6>1
        <5> QED BY <5>1, <5>2
      <4>10. longer = w[n]
        <5> HIDE DEF longer
        <5> QED BY <4>5, <4>7, <4>8, <4>9
      <4>11. n # 0 BY <4>1
      <4>12. Append(w[n - 1], Told(events[n].id, FALSE)) = w[n] BY <4>10
      <4> QED BY <4>2, <4>11, <4>12, Zenon
    <3>4. n = 0 \/ (n # 0 /\ n <= k) \/ n > k BY <1>a, <1>3
    <3> QED BY <3>1, <3>2, <3>3, <3>4, Zenon
  <2>2. w = [n \in 0..L |-> w[n]] OBVIOUS
  <2> HIDE DEF w
  <2> QED BY <2>1, <2>2
<1> HIDE DEF w
<1>8. PICK v : v = F(v) /\ Stored(c) = v[L]
  <2> USE DEF events, after, r, L
  <2> QED BY <1>7 DEF Stored
<1> DEFINE S == {n \in Nat : n <= L /\ v[n] # w[n]}
<1>9. S = {}
  <2> SUFFICES ASSUME S # {} PROVE FALSE OBVIOUS
  <2>1. PICK n \in S : \A m \in S : n <= m
    <3>1. S \in SUBSET Nat OBVIOUS
    <3> HIDE DEF S
    <3> QED BY <3>1, Least
  <2>2. n \in 0..L /\ v[n] # w[n] BY <1>2, <2>1
  <2>3. v[n] = IF n = 0 THEN <<>> ELSE IF events[n].id > after
                 THEN Append(v[n - 1], Told(events[n].id, FALSE)) ELSE v[n - 1]
    BY <1>8, <2>2
  <2>4. w[n] = IF n = 0 THEN <<>> ELSE IF events[n].id > after
                 THEN Append(w[n - 1], Told(events[n].id, FALSE)) ELSE w[n - 1]
    BY <1>7, <2>2
  <2>5. n # 0 BY <2>2, <2>3, <2>4
  <2>6. n - 1 \in Nat /\ n - 1 <= L /\ n - 1 \notin S BY <1>2, <2>1, <2>2, <2>5
  <2>7. v[n - 1] = w[n - 1] BY <2>6
  <2> QED BY <2>2, <2>3, <2>4, <2>7
<1>10. Stored(c) = w[L]
  <2>1. L \in Nat /\ L <= L /\ L \notin S BY <1>a, <1>9
  <2>2. v[L] = w[L] BY <2>1
  <2> QED BY <1>8, <2>2
<1>11. w[L] = [i \in 1..(L - k) |-> Told(events[k + i].id, FALSE)]
  <2>1. L \in 0..L /\ (L > k \/ L - k = 0) /\ (~(L > k) => L - k = 0) BY <1>a, <1>3
  <2> QED BY <1>3, <1>4, <2>1
<1>12. w[L] \in Seq(ToldSet)
  <2>1. L \in 0..L BY <1>2
  <2> QED BY <1>6, <2>1
<1>13. Len(w[L]) = L - k
  BY <1>2, <1>3, <1>11, <1>12
<1>14. \A i \in 1..(L - k) : w[L][i] = Told(r.last - (L - k) + i, FALSE)
  <2> SUFFICES ASSUME NEW i \in 1..(L - k) PROVE w[L][i] = Told(r.last - (L - k) + i, FALSE)
    OBVIOUS
  <2>1. k + i \in 1..L BY <1>2, <1>3
  <2>2. events[k + i].id = r.last - L + (k + i) BY <1>2, <2>1
  <2>3. r.last - L + (k + i) = r.last - (L - k) + i BY <1>2, <1>3
  <2> QED BY <1>11, <2>2, <2>3
<1>15. L - k <= r.last /\ (r.last > after => L - k > 0)
  BY <1>2, <1>3 DEF k
<1> QED BY <1>10, <1>12, <1>13, <1>14, <1>15 DEF r, after

(* What a record and an event put in the channel do to a stream that       *)
(* listens: the record has not ended and the event is its newest, or the   *)
(* record stays as it is.                                                  *)
Fresher(r, new) == r.status \notin Terminal /\ new.last = r.last + 1
SameEnd(r, new) == new.last = r.last /\ new.status = r.status

Grown(s, e) ==
  LET q == Append(s.queue, e) IN
  [s EXCEPT !.queue = SubSeq(q, IF Len(q) > Ring THEN 2 ELSE 1, Len(q)), !.lagged = @ \/ Len(q) > Ring]

LEMMA GrownIs ==
  ASSUME NEW s \in StreamRecord, NEW e \in EventSet
  PROVE LET g == Grown(s, e) IN
        /\ g \in StreamRecord /\ g.pc = s.pc /\ g.job = s.job /\ g.after = s.after
        /\ g.last = s.last /\ g.told = s.told /\ (s.lagged => g.lagged)
        /\ \A i \in DOMAIN g.queue : g.queue[i] = e \/ \E k \in DOMAIN s.queue : g.queue[i] = s.queue[k]
        /\ \E i \in DOMAIN g.queue : g.queue[i] = e
        /\ ~ g.lagged => \A i \in DOMAIN s.queue : \E k \in DOMAIN g.queue : g.queue[k] = s.queue[i]
<1> DEFINE q == Append(s.queue, e)
           from == IF Len(q) > Ring THEN 2 ELSE 1
           kept == SubSeq(q, from, Len(q))
           late == s.lagged \/ Len(q) > Ring
<1>1. s.queue \in Seq(EventSet) /\ s.lagged \in BOOLEAN /\ Ring \in Nat \ {0}
  BY JobsAssumption DEF StreamRecord
<1>2. /\ q \in Seq(EventSet) /\ Len(q) = Len(s.queue) + 1 /\ Len(s.queue) \in Nat
      /\ DOMAIN s.queue = 1..Len(s.queue)
      /\ \A i \in 1..Len(q) : q[i] = IF i = Len(q) THEN e ELSE s.queue[i]
  BY <1>1
<1> HIDE DEF q
<1>3. from \in 1..2 /\ from <= Len(q) /\ (~ late => from = 1)
  BY <1>1, <1>2
<1>4. late \in BOOLEAN /\ (s.lagged => late)
  BY <1>1
<1> HIDE DEF from, late
<1>5. /\ kept \in Seq(EventSet) /\ Len(kept) = Len(q) - from + 1 /\ DOMAIN kept = 1..Len(kept)
      /\ \A i \in 1..Len(kept) : kept[i] = q[from + i - 1]
  <2>1. from \in Nat /\ Len(q) \in Nat /\ from >= 1 BY <1>2, <1>3
  <2>2. \A i \in from..Len(q) : q[i] \in EventSet BY <1>2, <2>1
  <2> QED BY <1>2, <1>3, <2>1, <2>2
<1> HIDE DEF kept
<1>6. Grown(s, e) = [s EXCEPT !.queue = kept, !.lagged = late]
  BY DEF Grown, kept, late, from, q
<1>7. /\ Grown(s, e) \in StreamRecord /\ Grown(s, e).queue = kept /\ Grown(s, e).lagged = late
      /\ Grown(s, e).pc = s.pc /\ Grown(s, e).job = s.job /\ Grown(s, e).after = s.after
      /\ Grown(s, e).last = s.last /\ Grown(s, e).told = s.told
  BY <1>4, <1>5, <1>6 DEF StreamRecord
<1>8. ASSUME NEW i \in 1..Len(kept)
      PROVE kept[i] = e \/ \E k \in DOMAIN s.queue : kept[i] = s.queue[k]
  <2>1. from + i - 1 \in 1..Len(q) BY <1>2, <1>3, <1>5
  <2>2. CASE from + i - 1 = Len(q) BY <1>2, <1>5, <2>1, <2>2
  <2>3. CASE from + i - 1 # Len(q)
    <3>1. from + i - 1 \in DOMAIN s.queue BY <1>2, <2>1, <2>3
    <3> QED BY <1>2, <1>5, <2>1, <2>3, <3>1
  <2> QED BY <2>2, <2>3
<1>9. Len(kept) \in DOMAIN kept /\ kept[Len(kept)] = e
  <2>1. Len(kept) \in 1..Len(kept) /\ from + Len(kept) - 1 = Len(q) BY <1>2, <1>3, <1>5
  <2>2. q[Len(q)] = e
    <3>1. Len(q) \in 1..Len(q) BY <1>2
    <3> QED BY <1>2, <3>1
  <2> QED BY <1>5, <2>1, <2>2
<1>10. ASSUME ~ late, NEW i \in DOMAIN s.queue PROVE i \in DOMAIN kept /\ kept[i] = s.queue[i]
  <2>1. from = 1 BY <1>3, <1>10
  <2>2. i \in 1..Len(kept) /\ i \in 1..Len(q) /\ i # Len(q) /\ from + i - 1 = i BY <1>2, <1>5, <2>1
  <2> QED BY <1>2, <1>5, <2>2
<1> HIDE DEF Grown
<1> QED BY <1>4, <1>5, <1>7, <1>8, <1>9, <1>10

LEMMA SentFollowed ==
  ASSUME NEW r \in JobRecord, NEW new \in JobRecord, NEW s \in StreamRecord, NEW e \in EventSet,
         Followed(r, s), s.pc \in {"subscribed", "live"}, Heard(new, e),
         \/ Fresher(r, new) /\ e.id = new.last
         \/ SameEnd(r, new)
  PROVE Followed(new, Grown(s, e))
<1> DEFINE g == Grown(s, e)
<1>1. /\ g \in StreamRecord /\ g.pc = s.pc /\ g.after = s.after
      /\ g.last = s.last /\ g.told = s.told /\ (s.lagged => g.lagged)
      /\ \A i \in DOMAIN g.queue : g.queue[i] = e \/ \E k \in DOMAIN s.queue : g.queue[i] = s.queue[k]
      /\ \E i \in DOMAIN g.queue : g.queue[i] = e
      /\ ~ g.lagged => \A i \in DOMAIN s.queue : \E k \in DOMAIN g.queue : g.queue[k] = s.queue[i]
  BY GrownIs
<1> HIDE DEF g
<1>2. r.last \in Nat /\ new.last \in Nat /\ s.last \in Nat /\ s.after \in Nat /\ e.id \in Nat
      /\ r.last <= new.last
  BY DEF JobRecord, StreamRecord, EventSet, Fresher, SameEnd
<1>3. \A i \in DOMAIN g.queue : Heard(new, g.queue[i])
  <2> SUFFICES ASSUME NEW i \in DOMAIN g.queue PROVE Heard(new, g.queue[i])
    OBVIOUS
  <2>1. CASE g.queue[i] = e BY <2>1
  <2>2. ASSUME NEW k \in DOMAIN s.queue, g.queue[i] = s.queue[k] PROVE Heard(new, g.queue[i])
    <3>1. Heard(r, s.queue[k]) BY DEF Followed
    <3>2. s.queue[k].id \in Nat
      <4>1. s.queue \in Seq(EventSet) BY DEF StreamRecord
      <4>2. s.queue[k] \in EventSet BY <4>1
      <4> QED BY <4>2 DEF EventSet
    <3> QED BY <1>2, <2>2, <3>1, <3>2 DEF Heard, Fresher, SameEnd
  <2> QED BY <1>1, <2>1, <2>2
<1>4. g.pc = "live" /\ new.status \in Terminal =>
        g.lagged \/ \E i \in DOMAIN g.queue : g.queue[i] = Event(new.last, new.status)
  <2> SUFFICES ASSUME g.pc = "live", new.status \in Terminal, ~ g.lagged
               PROVE \E i \in DOMAIN g.queue : g.queue[i] = Event(new.last, new.status)
    OBVIOUS
  <2>1. CASE Fresher(r, new) /\ e.id = new.last
    <3>1. e.name = new.status BY <2>1 DEF Heard
    <3>2. e = Event(new.last, new.status) BY <2>1, <3>1 DEF Event, EventSet
    <3> QED BY <1>1, <3>2
  <2>2. CASE SameEnd(r, new)
    <3>1. ~ s.lagged /\ s.pc = "live" /\ r.status \in Terminal BY <1>1, <2>2 DEF SameEnd
    <3>2. \E i \in DOMAIN s.queue : s.queue[i] = Event(r.last, r.status) BY <3>1 DEF Followed
    <3>3. Event(r.last, r.status) = Event(new.last, new.status) BY <2>2 DEF SameEnd
    <3> QED BY <1>1, <3>2, <3>3
  <2> QED BY <2>1, <2>2
<1>5. g.pc # "ended" BY <1>1
<1>6. g.after <= new.last /\ (g.pc = "subscribed" => g.told = <<>>) /\ InOrder(g.told)
  BY <1>1, <1>2 DEF Followed
<1>7. g.pc = "live" => /\ g.last <= new.last /\ (new.status \in Terminal => g.last < new.last)
                       /\ \A i \in DOMAIN g.told : g.told[i].id <= g.last
  BY <1>1, <1>2 DEF Followed, Fresher, SameEnd
<1> QED BY <1>3, <1>4, <1>5, <1>6, <1>7 DEF Followed, g

(* A stream that does not listen, or is sent nothing.                      *)
LEMMA StillFollowed ==
  ASSUME NEW r \in JobRecord, NEW new \in JobRecord, NEW s \in StreamRecord, Followed(r, s),
         \/ Fresher(r, new) /\ new.status \notin Terminal
         \/ SameEnd(r, new)
         \/ Fresher(r, new) /\ s.pc \notin {"subscribed", "live"}
  PROVE Followed(new, s)
<1>1. r.last \in Nat /\ new.last \in Nat /\ s.last \in Nat /\ s.after \in Nat /\ r.last <= new.last
  BY DEF JobRecord, StreamRecord, Fresher, SameEnd
<1>2. \A i \in DOMAIN s.queue : s.queue[i].id \in Nat
  <2>1. s.queue \in Seq(EventSet) BY DEF StreamRecord
  <2>2. \A i \in DOMAIN s.queue : s.queue[i] \in EventSet BY <2>1
  <2> QED BY <2>2 DEF EventSet
<1>3. CASE SameEnd(r, new) BY <1>3 DEF SameEnd, Followed, Heard
<1>4. CASE Fresher(r, new) /\ new.status \notin Terminal
  <2>1. s.pc # "ended" BY <1>4 DEF Fresher, Followed
  <2>2. s.pc \in {"subscribed", "live"} => \A i \in DOMAIN s.queue : Heard(new, s.queue[i])
    BY <1>1, <1>2, <1>4 DEF Fresher, Followed, Heard
  <2> QED BY <1>1, <1>4, <2>1, <2>2 DEF Fresher, Followed
<1>5. CASE Fresher(r, new) /\ s.pc \notin {"subscribed", "live"}
  BY <1>1, <1>5 DEF Fresher, Followed
<1> QED BY <1>3, <1>4, <1>5

(* A step that sends an event of j to the streams that listen.             *)
LEMMA SendingStep ==
  ASSUME JobTypes, JobTypes', StreamInv, NEW j \in Jobs, NEW e \in EventSet,
         stream' = Sent(j, e), \A i \in Jobs : i # j => rec'[i] = rec[i] /\ canceler'[i] = canceler[i],
         rec'[j].status # "none", Numbered(rec'[j]), Signaling(j)', Heard(rec'[j], e),
         (Fresher(rec[j], rec'[j]) /\ e.id = rec'[j].last) \/ SameEnd(rec[j], rec'[j])
  PROVE StreamInv'
<1>1. \A c \in Streams : stream'[c] = IF ~ Listening(c, j) THEN stream[c] ELSE Grown(stream[c], e)
  BY DEF Sent, Grown
<1>2. DOMAIN stream' = Streams /\ stream' = [c \in Streams |-> stream'[c]]
  BY DEF Sent
<1>3. \A i \in Jobs : rec[i] \in JobRecord /\ rec'[i] \in JobRecord
  BY DEF JobTypes
<1>4. \A c \in Streams : stream[c] \in StreamRecord
  BY DEF StreamInv
<1>5. ASSUME NEW c \in Streams PROVE stream'[c] \in StreamRecord /\ Following(c)'
  <2>1. CASE Listening(c, j)
    <3> DEFINE s == stream[c]
               g == Grown(s, e)
    <3>1. s \in StreamRecord /\ g \in StreamRecord /\ g.pc = s.pc /\ g.job = s.job
      BY <1>4, GrownIs
    <3>2. s.job = j /\ s.pc \in {"subscribed", "live"} BY <2>1 DEF Listening
    <3>3. Followed(rec[j], s) BY <3>2 DEF StreamInv, Following
    <3> HIDE DEF s, g
    <3>4. Followed(rec'[j], Grown(s, e))
      BY <1>3, <3>1, <3>2, <3>3, SentFollowed
    <3>5. stream'[c] = g BY <1>1, <2>1 DEF g, s
    <3> QED BY <3>1, <3>2, <3>4, <3>5 DEF Following, g
  <2>2. CASE ~ Listening(c, j)
    <3>1. stream'[c] = stream[c] BY <1>1, <2>2
    <3>2. CASE stream[c].pc = "idle" BY <1>4, <3>1, <3>2 DEF StreamInv, Following
    <3>3. CASE stream[c].pc # "idle"
      <4> DEFINE k == stream[c].job
      <4>1. k \in Jobs /\ rec[k].status # "none" /\ Followed(rec[k], stream[c])
        BY <3>3 DEF StreamInv, Following
      <4>2. CASE k # j
        <5>1. rec'[k] = rec[k] BY <4>1, <4>2
        <5> QED BY <1>4, <3>1, <3>3, <4>1, <5>1 DEF Following
      <4>3. CASE k = j
        <5>1. stream[c].pc \notin {"subscribed", "live"} BY <2>2, <4>3 DEF Listening
        <5>2. Followed(rec'[j], stream[c])
          <6> DEFINE s == stream[c]
          <6>1. s \in StreamRecord /\ Followed(rec[j], s) /\ s.pc \notin {"subscribed", "live"}
            BY <1>4, <4>1, <4>3, <5>1
          <6> HIDE DEF s
          <6>2. Followed(rec'[j], s) BY <1>3, <6>1, StillFollowed
          <6> QED BY <6>2 DEF s
        <5> QED BY <1>4, <3>1, <3>3, <4>3, <5>2 DEF Following
      <4> QED BY <4>2, <4>3
    <3> QED BY <3>2, <3>3
  <2> QED BY <2>1, <2>2
<1>6. ASSUME NEW i \in Jobs PROVE (Numbered(rec[i]) /\ Signaling(i))'
  BY DEF StreamInv, Signaling
<1> QED BY <1>2, <1>5, <1>6 DEF StreamInv

(* A step that leaves the streams alone.                                   *)
LEMMA SilentStep ==
  ASSUME JobTypes, JobTypes', StreamInv, stream' = stream,
         \A i \in Jobs : /\ Numbered(rec'[i]) /\ Signaling(i)'
                         /\ rec[i].status # "none" =>
                              /\ rec'[i].status # "none"
                              /\ \/ SameEnd(rec[i], rec'[i])
                                 \/ Fresher(rec[i], rec'[i]) /\ rec'[i].status \notin Terminal
  PROVE StreamInv'
<1>1. ASSUME NEW c \in Streams PROVE Following(c)'
  <2>1. CASE stream[c].pc = "idle" BY <2>1 DEF StreamInv, Following
  <2>2. CASE stream[c].pc # "idle"
    <3> DEFINE k == stream[c].job
               s == stream[c]
    <3>1. k \in Jobs /\ rec[k].status # "none" /\ Followed(rec[k], s) /\ s \in StreamRecord
      BY <2>2 DEF StreamInv, Following
    <3>2. rec[k] \in JobRecord /\ rec'[k] \in JobRecord BY <3>1 DEF JobTypes
    <3> HIDE DEF k, s
    <3>3. Followed(rec'[k], s) BY <3>1, <3>2, StillFollowed
    <3>4. rec'[k].status # "none" BY <3>1
    <3> QED BY <2>2, <3>1, <3>3, <3>4 DEF Following, k, s
  <2> QED BY <2>1, <2>2
<1> QED BY <1>1 DEF StreamInv

LEMMA NothingNew ==
  ASSUME JobTypes, JobTypes', StreamInv, stream' = stream, canceler' = canceler,
         \A i \in Jobs : /\ rec'[i].events = rec[i].events /\ rec'[i].last = rec[i].last
                         /\ rec'[i].status = rec[i].status
  PROVE StreamInv'
<1>1. ASSUME NEW i \in Jobs PROVE Numbered(rec'[i]) /\ Signaling(i)' /\ SameEnd(rec[i], rec'[i])
  BY DEF StreamInv, Numbered, Signaling, SameEnd
<1> QED BY <1>1, SilentStep DEF SameEnd

(* A status that is set under the lock of the record: with its event sent, *)
(* or, by request_cancel, with the event still to be sent.                 *)
LEMMA StatusPushed ==
  ASSUME JobTypes, StreamInv, NEW j \in Jobs, NEW st \in Statuses, rec[j].status \notin Terminal,
         rec' = [rec EXCEPT ![j] = [PushEvent(@, st) EXCEPT !.status = st]]
  PROVE /\ Numbered(rec'[j]) /\ rec'[j].status = st /\ Fresher(rec[j], rec'[j])
        /\ \A i \in Jobs : i # j => rec'[i] = rec[i]
<1> DEFINE p == PushEvent(rec[j], st)
           new == [p EXCEPT !.status = st]
<1>1. rec[j] \in JobRecord /\ Numbered(rec[j]) BY DEF JobTypes, StreamInv
<1>2. p \in JobRecord /\ Numbered(p) /\ p.last = rec[j].last + 1
  BY <1>1, PushEventType, PushNumbers
<1> HIDE DEF p
<1>3. new.events = p.events /\ new.last = p.last /\ new.status = st BY <1>2 DEF JobRecord
<1>4. rec' = [rec EXCEPT ![j] = new] /\ rec \in [Jobs -> JobRecord] BY DEF JobTypes, p
<1> HIDE DEF new
<1>5. rec'[j] = new /\ \A i \in Jobs : i # j => rec'[i] = rec[i] BY <1>4
<1> QED BY <1>2, <1>3, <1>5 DEF Numbered, Fresher

LEMMA AnnounceStreams ==
  ASSUME JobTypes, JobTypes', StreamInv, NEW j \in Jobs, NEW st \in Statuses,
         Announce(j, st), rec[j].status \notin Terminal \cup {"none"}, canceler' = canceler
  PROVE StreamInv'
<1> DEFINE e == Event(rec[j].last + 1, st)
<1>1. /\ Numbered(rec'[j]) /\ rec'[j].status = st /\ Fresher(rec[j], rec'[j])
      /\ \A i \in Jobs : i # j => rec'[i] = rec[i]
  BY StatusPushed DEF Announce
<1>2. rec[j].last \in Nat /\ rec'[j].last = rec[j].last + 1 /\ canceler[j] \in Nat
  BY <1>1 DEF JobTypes, JobRecord, Fresher
<1>3. e \in EventSet /\ e.id = rec'[j].last /\ e.name = st /\ stream' = Sent(j, e)
  BY <1>2 DEF Event, EventSet, Announce
<1> HIDE DEF e
<1>4. Heard(rec'[j], e) BY <1>1, <1>2, <1>3 DEF Heard
<1>5. st # "none" BY StatusesAre
<1>6. Signaling(j)' BY <1>1, <1>2, <1>5 DEF Signaling, StreamInv
<1> QED BY <1>1, <1>3, <1>4, <1>5, <1>6, SendingStep

LEMMA FinishCanceledStreams ==
  ASSUME JobTypes, JobTypes', StreamInv, NEW j \in Jobs, FinishCanceled(j),
         rec[j].status # "none", canceler' = canceler
  PROVE StreamInv'
<1>1. CASE IsTerminal(j) BY <1>1, NothingNew DEF FinishCanceled
<1>2. CASE ~ IsTerminal(j) BY <1>2, AnnounceStreams, StatusesAre DEF FinishCanceled, IsTerminal
<1> QED BY <1>1, <1>2

LEMMA FinishStreams ==
  ASSUME JobTypes, JobTypes', StreamInv, NEW j \in Jobs, NEW st \in Terminal, Finish(j, st),
         rec[j].status # "none", canceler' = canceler
  PROVE StreamInv'
<1>1. CASE Doomed(j) BY <1>1, FinishCanceledStreams DEF Finish
<1>2. CASE ~ Doomed(j) /\ IsTerminal(j) BY <1>2, NothingNew DEF Finish
<1>3. CASE ~ Doomed(j) /\ ~ IsTerminal(j)
  <2>1. st \in Statuses BY DEF Statuses
  <2> QED BY <1>3, <2>1, AnnounceStreams DEF Finish, IsTerminal
<1> QED BY <1>1, <1>2, <1>3

LEMMA MarkCancelingStreams ==
  ASSUME JobTypes, JobTypes', StreamInv, NEW j \in Jobs, MarkCanceling(j), rec[j].status # "none",
         stream' = stream
  PROVE StreamInv'
<1>1. CASE ~ IsActive(j) \/ rec[j].status = "canceling" BY <1>1, NothingNew DEF MarkCanceling
<1>2. CASE ~(~ IsActive(j) \/ rec[j].status = "canceling")
  <2>1. "canceling" \in Statuses /\ "canceling" \notin Terminal BY StatusesAre DEF Terminal
  <2>2. /\ rec' = [rec EXCEPT ![j] = [PushEvent(@, "canceling") EXCEPT !.status = "canceling"]]
        /\ canceler' = [canceler EXCEPT ![j] = rec[j].last + 1] /\ rec[j].status \notin Terminal
    BY <1>2 DEF MarkCanceling, IsActive
  <2>3. /\ Numbered(rec'[j]) /\ rec'[j].status = "canceling" /\ Fresher(rec[j], rec'[j])
        /\ \A i \in Jobs : i # j => rec'[i] = rec[i]
    BY <2>1, <2>2, StatusPushed
  <2>4. canceler'[j] = rec'[j].last /\ \A i \in Jobs : i # j => canceler'[i] = canceler[i]
    BY <2>2, <2>3 DEF JobTypes, Fresher
  <2>5. rec'[j].last \in Nat BY DEF JobTypes, JobRecord
  <2>6. Signaling(j)' BY <2>1, <2>3, <2>4, <2>5 DEF Signaling
  <2>7. ASSUME NEW i \in Jobs, i # j
        PROVE Numbered(rec'[i]) /\ Signaling(i)' /\ SameEnd(rec[i], rec'[i])
    BY <2>3, <2>4, <2>7 DEF StreamInv, Signaling, SameEnd
  <2>8. ASSUME NEW i \in Jobs
        PROVE /\ Numbered(rec'[i]) /\ Signaling(i)'
              /\ rec[i].status # "none" =>
                   /\ rec'[i].status # "none"
                   /\ \/ SameEnd(rec[i], rec'[i])
                      \/ Fresher(rec[i], rec'[i]) /\ rec'[i].status \notin Terminal
    BY <2>1, <2>3, <2>6, <2>7 DEF SameEnd
  <2> QED BY <2>8, SilentStep
<1> QED BY <1>1, <1>2

LEMMA OutputStreams ==
  ASSUME JobTypes, JobTypes', StreamInv, NEW j \in Jobs, rec[j].status \notin Terminal \cup {"none"},
         rec' = [rec EXCEPT ![j] = PushEvent(@, "output")],
         stream' = Sent(j, Event(rec[j].last + 1, "output")), canceler' = canceler
  PROVE StreamInv'
<1> DEFINE p == PushEvent(rec[j], "output")
           e == Event(rec[j].last + 1, "output")
<1>1. rec[j] \in JobRecord /\ Numbered(rec[j]) BY DEF JobTypes, StreamInv
<1>2. p \in JobRecord /\ Numbered(p) /\ p.last = rec[j].last + 1 /\ p.status = rec[j].status
  BY <1>1, PushEventType, PushNumbers
<1>3. rec' = [rec EXCEPT ![j] = p] /\ rec \in [Jobs -> JobRecord] BY DEF JobTypes
<1> HIDE DEF p
<1>4. rec'[j] = p /\ \A i \in Jobs : i # j => rec'[i] = rec[i] BY <1>3
<1>5. rec[j].last \in Nat /\ canceler[j] \in Nat BY <1>1 DEF JobRecord, JobTypes
<1>6. e \in EventSet /\ e.id = rec'[j].last /\ e.name = "output" /\ stream' = Sent(j, e)
  BY <1>2, <1>4, <1>5 DEF Event, EventSet
<1> HIDE DEF e
<1>7. Heard(rec'[j], e) BY <1>2, <1>4, <1>5, <1>6 DEF Heard, Terminal
<1>8. Signaling(j)' BY <1>2, <1>4, <1>5 DEF Signaling, StreamInv
<1>9. Fresher(rec[j], rec'[j]) BY <1>2, <1>4 DEF Fresher
<1> QED BY <1>2, <1>4, <1>6, <1>7, <1>8, <1>9, SendingStep

LEMMA CancelSignalsStreams ==
  ASSUME JobTypes, JobTypes', StreamInv, NEW j \in Jobs, CancelSignals(j)
  PROVE StreamInv'
<1> DEFINE e == Event(canceler[j], "canceling")
           new == [rec[j] EXCEPT !.cancel = TRUE]
<1>1. rec[j] \in JobRecord /\ Numbered(rec[j]) /\ Signaling(j) /\ canceler[j] \in Nat /\ canceler[j] # 0
  BY DEF JobTypes, StreamInv, CancelSignals
<1>2. new.events = rec[j].events /\ new.last = rec[j].last /\ new.status = rec[j].status
  BY <1>1 DEF JobRecord
<1>3. rec' = [rec EXCEPT ![j] = new] /\ canceler' = [canceler EXCEPT ![j] = 0]
  BY DEF CancelSignals
<1> HIDE DEF new
<1>4. /\ rec'[j] = new /\ canceler'[j] = 0
      /\ \A i \in Jobs : i # j => rec'[i] = rec[i] /\ canceler'[i] = canceler[i]
  BY <1>3 DEF JobTypes
<1>5. "canceling" \in Statuses /\ "canceling" \notin Terminal BY StatusesAre DEF Terminal
<1>6. e \in EventSet /\ e.id = canceler[j] /\ e.name = "canceling" /\ stream' = Sent(j, e)
  BY <1>1, <1>5 DEF Event, EventSet, CancelSignals
<1> HIDE DEF e
<1>7. rec[j].last \in Nat /\ Numbered(rec'[j]) /\ SameEnd(rec[j], rec'[j])
  BY <1>1, <1>2, <1>4 DEF Numbered, SameEnd, JobRecord
<1>8. Heard(rec'[j], e) BY <1>1, <1>2, <1>4, <1>5, <1>6, <1>7 DEF Heard, Signaling
<1>9. Signaling(j)' /\ rec'[j].status # "none"
  <2>1. rec[j].last > 0 BY <1>1, <1>7 DEF Signaling
  <2> QED BY <1>1, <1>2, <1>4, <1>7, <2>1 DEF Signaling
<1> QED BY <1>4, <1>6, <1>7, <1>8, <1>9, SendingStep

(* The steps of a stream.                                                  *)
LEMMA OneStream ==
  ASSUME StreamInv, NEW c \in Streams, NEW s \in StreamRecord, stream' = [stream EXCEPT ![c] = s],
         s.pc # "idle", UNCHANGED <<rec, canceler>>,
         s.job \in Jobs, rec[s.job].status # "none", Followed(rec[s.job], s)
  PROVE StreamInv'
<1>1. /\ stream' \in [Streams -> StreamRecord] /\ stream'[c] = s
      /\ \A d \in Streams : d # c => stream'[d] = stream[d]
  BY DEF StreamInv
<1>2. ASSUME NEW d \in Streams PROVE Following(d)'
  BY <1>1 DEF StreamInv, Following
<1>3. ASSUME NEW i \in Jobs PROVE (Numbered(rec[i]) /\ Signaling(i))'
  BY DEF StreamInv, Signaling
<1> QED BY <1>1, <1>2, <1>3 DEF StreamInv

LEMMA SubscribeStreams ==
  ASSUME JobsInv, StreamInv, NEW c \in Streams, NEW j \in Jobs, NEW after \in {0, rec[j].last},
         Subscribe(c, j, after)
  PROVE StreamInv'
<1> DEFINE old == stream[c]
           s == [old EXCEPT !.pc = "subscribed", !.job = j, !.after = after]
<1>1. /\ old \in StreamRecord /\ old.pc = "idle" /\ old.told = <<>> /\ old.queue = <<>>
  BY DEF StreamInv, Following, Subscribe
<1>2. rec[j].status # "none" /\ rec[j].last \in Nat /\ after \in Nat /\ after <= rec[j].last
  BY DEF Subscribe, JobsInv, JobTypes, JobRecord, Lifecycle
<1>3. stream' = [stream EXCEPT ![c] = s] /\ UNCHANGED <<rec, canceler>>
  BY DEF Subscribe, StreamInv
<1> HIDE DEF old
<1>4. /\ s \in StreamRecord /\ s.pc = "subscribed" /\ s.job = j /\ s.after = after
      /\ s.told = <<>> /\ s.queue = <<>>
  BY <1>1, <1>2 DEF StreamRecord
<1> HIDE DEF s
<1>5. Followed(rec[j], s) BY <1>2, <1>4 DEF Followed, InOrder
<1> QED BY <1>2, <1>3, <1>4, <1>5, OneStream

LEMMA CopyStoredStreams ==
  ASSUME JobTypes, StreamInv, NEW c \in Streams, CopyStored(c)
  PROVE StreamInv'
<1> DEFINE old == stream[c]
           r == rec[old.job]
           n == Len(Stored(c))
           pc == IF IsTerminal(old.job) THEN "ended" ELSE "live"
           last == IF r.last > old.after THEN r.last ELSE old.after
           copy == Stored(c)
           s == [old EXCEPT !.pc = pc, !.told = copy, !.last = last]
<1>1. /\ old \in StreamRecord /\ old.pc = "subscribed" /\ old.job \in Jobs /\ r.status # "none"
      /\ Followed(r, old)
  BY DEF StreamInv, Following, CopyStored
<1>2. r \in JobRecord /\ r.last \in Nat /\ old.after \in Nat
  BY <1>1 DEF JobTypes, JobRecord, StreamRecord
<1>3. /\ copy \in Seq(ToldSet) /\ n <= r.last
      /\ \A i \in 1..n : copy[i] = Told(r.last - n + i, FALSE)
      /\ r.last > old.after => n > 0
  BY <1>1, StoredIs
<1>4. stream' = [stream EXCEPT ![c] = s] /\ UNCHANGED <<rec, canceler>>
  BY DEF CopyStored, StreamInv
<1>5. old.after <= r.last /\ last = r.last BY <1>1, <1>2 DEF Followed
<1>6. pc \in {"ended", "live"} /\ (pc = "ended" <=> r.status \in Terminal) BY DEF IsTerminal
<1>7. n \in Nat /\ DOMAIN copy = 1..n BY <1>3
<1> HIDE DEF old, r, pc, last, copy, n
<1>8. /\ s \in StreamRecord /\ s.pc = pc /\ s.job = old.job /\ s.after = old.after
      /\ s.told = copy /\ s.last = r.last /\ s.queue = old.queue
  BY <1>1, <1>2, <1>3, <1>5, <1>6 DEF StreamRecord
<1> HIDE DEF s
<1>9. \A i \in 1..n : copy[i].id = r.last - n + i
  <2>1. \A x : Told(x, FALSE).id = x BY DEF Told
  <2> QED BY <1>3, <2>1
<1>10. InOrder(copy)
  <2> SUFFICES ASSUME NEW i \in 1..(Len(copy) - 1) PROVE copy[i].id < copy[i + 1].id
    BY DEF InOrder
  <2>1. i \in 1..n /\ i + 1 \in 1..n BY <1>7 DEF n, copy
  <2> QED BY <1>2, <1>7, <1>9, <2>1
<1>11. \A i \in 1..n : copy[i].id <= r.last BY <1>2, <1>7, <1>9
<1>12. r.last = old.after \/ \E i \in DOMAIN copy : copy[i].id = r.last
  <2>1. CASE r.last = old.after BY <2>1
  <2>2. CASE r.last > old.after
    <3>1. n \in 1..n BY <1>3, <1>7, <2>2
    <3>2. copy[n].id = r.last BY <1>2, <1>7, <1>9, <3>1
    <3> QED BY <1>7, <3>1, <3>2
  <2> QED BY <1>2, <1>5, <2>1, <2>2
<1>13. \A i \in DOMAIN s.queue : Heard(r, s.queue[i]) BY <1>1, <1>8 DEF Followed
<1>14. Followed(r, s)
  <2>1. s.pc = "live" => r.status \notin Terminal BY <1>6, <1>8
  <2> QED BY <1>2, <1>5, <1>6, <1>7, <1>8, <1>10, <1>11, <1>12, <1>13, <2>1 DEF Followed
<1> QED BY <1>1, <1>4, <1>6, <1>8, <1>14, OneStream DEF r

LEMMA ToldAppended ==
  ASSUME NEW told \in Seq(ToldSet), InOrder(told), NEW t \in ToldSet,
         \A i \in DOMAIN told : told[i].id < t.id \/ (t.snapshot /\ told[i].id <= t.id)
  PROVE /\ Append(told, t) \in Seq(ToldSet) /\ InOrder(Append(told, t))
        /\ \A i \in DOMAIN Append(told, t) : Append(told, t)[i].id <= t.id
        /\ \E i \in DOMAIN Append(told, t) : Append(told, t)[i] = t
<1> DEFINE new == Append(told, t)
<1>1. /\ Len(told) \in Nat /\ DOMAIN told = 1..Len(told)
      /\ new \in Seq(ToldSet) /\ Len(new) = Len(told) + 1 /\ DOMAIN new = 1..(Len(told) + 1)
      /\ \A i \in 1..(Len(told) + 1) : new[i] = IF i = Len(told) + 1 THEN t ELSE told[i]
  OBVIOUS
<1> HIDE DEF new
<1>2. t.id \in Nat /\ \A i \in DOMAIN told : told[i].id \in Nat
  <2>1. \A i \in DOMAIN told : told[i] \in ToldSet OBVIOUS
  <2> QED BY <2>1 DEF ToldSet
<1>3. ASSUME NEW i \in 1..(Len(new) - 1)
      PROVE new[i].id < new[i + 1].id \/ (new[i + 1].snapshot /\ new[i].id = new[i + 1].id)
  <2>1. i \in DOMAIN told /\ i \in 1..(Len(told) + 1) /\ i + 1 \in 1..(Len(told) + 1)
        /\ i # Len(told) + 1
    BY <1>1
  <2>2. new[i] = told[i] BY <1>1, <2>1
  <2>3. CASE i = Len(told)
    <3>1. new[i + 1] = t BY <1>1, <2>1, <2>3
    <3> QED BY <1>2, <2>1, <2>2, <3>1
  <2>4. CASE i # Len(told)
    <3>1. i \in 1..(Len(told) - 1) /\ new[i + 1] = told[i + 1] BY <1>1, <2>1, <2>4
    <3> QED BY <2>2, <3>1 DEF InOrder
  <2> QED BY <2>3, <2>4
<1>4. \A i \in DOMAIN new : new[i].id <= t.id
  BY <1>1, <1>2
<1>5. Len(told) + 1 \in DOMAIN new /\ new[Len(told) + 1] = t
  <2>1. Len(told) + 1 \in 1..(Len(told) + 1) BY <1>1
  <2> QED BY <1>1, <2>1
<1>6. InOrder(new) BY <1>3 DEF InOrder
<1> QED BY <1>1, <1>4, <1>5, <1>6 DEF new

LEMMA ReceiveStreams ==
  ASSUME JobTypes, StreamInv, NEW c \in Streams, Receive(c)
  PROVE StreamInv'
<1> DEFINE old == stream[c]
           r == rec[old.job]
           e == Head(old.queue)
           news == e.id > old.last
           rest == Tail(old.queue)
           told == IF news THEN Append(old.told, Told(e.id, FALSE)) ELSE old.told
           last == IF news THEN e.id ELSE old.last
           pc == IF news /\ e.name \in Terminal THEN "ended" ELSE old.pc
           s == [old EXCEPT !.queue = rest, !.last = last, !.told = told, !.pc = pc]
<1>1. /\ old \in StreamRecord /\ old.pc = "live" /\ old.job \in Jobs /\ r.status # "none"
      /\ Followed(r, old) /\ ~ old.lagged /\ old.queue # <<>>
  BY DEF StreamInv, Following, Receive
<1>2. r \in JobRecord /\ r.last \in Nat /\ old.after \in Nat /\ old.last \in Nat
      /\ old.queue \in Seq(EventSet) /\ old.told \in Seq(ToldSet)
  BY <1>1 DEF JobTypes, JobRecord, StreamRecord
<1>3. stream' = [stream EXCEPT ![c] = s] /\ UNCHANGED <<rec, canceler>>
  BY DEF Receive, StreamInv
<1>4. /\ e \in EventSet /\ rest \in Seq(EventSet) /\ e = old.queue[1] /\ 1 \in DOMAIN old.queue
      /\ \A i \in DOMAIN rest : i + 1 \in DOMAIN old.queue /\ rest[i] = old.queue[i + 1]
      /\ \A i \in DOMAIN old.queue : i = 1 \/ (i - 1 \in DOMAIN rest /\ rest[i - 1] = old.queue[i])
  <2> HIDE DEF old
  <2>1. Len(old.queue) \in Nat \ {0} BY <1>1, <1>2, EmptySeq
  <2>2. /\ rest \in Seq(EventSet) /\ Len(rest) = Len(old.queue) - 1
        /\ \A i \in 1..Len(rest) : rest[i] = old.queue[i + 1]
    BY <1>1, <1>2, <2>1
  <2>3. e = old.queue[1] /\ e \in EventSet BY <1>1, <1>2, <2>1
  <2>4. DOMAIN old.queue = 1..Len(old.queue) /\ DOMAIN rest = 1..Len(rest) BY <1>2, <2>2
  <2> HIDE DEF rest, e
  <2>5. ASSUME NEW i \in DOMAIN rest PROVE i + 1 \in DOMAIN old.queue /\ rest[i] = old.queue[i + 1]
    BY <2>1, <2>2, <2>4
  <2>6. ASSUME NEW i \in DOMAIN old.queue, i # 1
        PROVE i - 1 \in DOMAIN rest /\ rest[i - 1] = old.queue[i]
    <3>1. i - 1 \in 1..Len(rest) /\ (i - 1) + 1 = i BY <2>1, <2>2, <2>4, <2>6
    <3> QED BY <2>2, <2>4, <3>1
  <2> QED BY <2>1, <2>2, <2>3, <2>4, <2>5, <2>6
<1>5. e.id \in Nat /\ Heard(r, e) BY <1>1, <1>4 DEF EventSet, Followed
<1>6. Told(e.id, FALSE) \in ToldSet /\ Told(e.id, FALSE).id = e.id BY <1>5 DEF Told, ToldSet
<1> HIDE DEF old, r, e, rest
<1>7. news => /\ told \in Seq(ToldSet) /\ InOrder(told)
              /\ \A i \in DOMAIN told : told[i].id <= e.id
              /\ \E i \in DOMAIN told : told[i].id = e.id
  <2> SUFFICES ASSUME news PROVE /\ told \in Seq(ToldSet) /\ InOrder(told)
                                 /\ \A i \in DOMAIN told : told[i].id <= e.id
                                 /\ \E i \in DOMAIN told : told[i].id = e.id
    OBVIOUS
  <2> DEFINE t == Told(e.id, FALSE)
  <2>1. \A i \in DOMAIN old.told : old.told[i].id <= old.last BY <1>1 DEF Followed
  <2>2. \A i \in DOMAIN old.told : old.told[i].id \in Nat
    <3>1. \A i \in DOMAIN old.told : old.told[i] \in ToldSet BY <1>2
    <3> QED BY <3>1 DEF ToldSet
  <2>3. \A i \in DOMAIN old.told : old.told[i].id < t.id
    <3>1. e.id > old.last /\ t.id = e.id BY <1>6
    <3> HIDE DEF t, news
    <3> QED BY <1>2, <1>5, <2>1, <2>2, <3>1
  <2>4. InOrder(old.told) BY <1>1 DEF Followed
  <2>5. t \in ToldSet /\ t.id = e.id BY <1>6
  <2>6. told = Append(old.told, t) OBVIOUS
  <2> HIDE DEF t, told
  <2> QED BY <1>2, <2>3, <2>4, <2>5, <2>6, ToldAppended
<1>8. ~ news => told = old.told /\ last = old.last /\ pc = old.pc OBVIOUS
<1>9. news => last = e.id /\ pc = IF e.name \in Terminal THEN "ended" ELSE "live" BY <1>1
<1> HIDE DEF news, told, last, pc
<1>10. told \in Seq(ToldSet) /\ last \in Nat /\ pc \in {"ended", "live"}
  BY <1>1, <1>2, <1>5, <1>7, <1>8, <1>9
<1>11. /\ s \in StreamRecord /\ s.pc = pc /\ s.job = old.job /\ s.after = old.after
       /\ s.told = told /\ s.last = last /\ s.queue = rest /\ s.lagged = old.lagged
  BY <1>1, <1>4, <1>10 DEF StreamRecord
<1> HIDE DEF s
<1>12. InOrder(told) BY <1>1, <1>7, <1>8 DEF Followed
<1>13. \A i \in DOMAIN rest : Heard(r, rest[i]) BY <1>1, <1>4 DEF Followed
<1>14. pc = "live" => /\ last <= r.last /\ (r.status \in Terminal => last < r.last)
                      /\ \A i \in DOMAIN told : told[i].id <= last
  <2>1. CASE ~ news BY <1>1, <1>8, <2>1 DEF Followed
  <2>2. CASE news
    <3>1. last = e.id /\ (pc = "live" => e.name \notin Terminal) BY <1>9, <2>2
    <3>2. pc = "live" /\ r.status \in Terminal => e.id # r.last BY <1>5, <3>1 DEF Heard
    <3> QED BY <1>2, <1>5, <1>7, <2>2, <3>1, <3>2 DEF Heard
  <2> QED BY <2>1, <2>2
<1>15. pc = "ended" => r.status \in Terminal /\ \E i \in DOMAIN told : told[i].id = r.last
  <2> SUFFICES ASSUME pc = "ended"
               PROVE r.status \in Terminal /\ \E i \in DOMAIN told : told[i].id = r.last
    OBVIOUS
  <2>1. news /\ e.name \in Terminal BY <1>1, <1>8, <1>9
  <2>2. e.id = r.last /\ e.name = r.status BY <1>5, <2>1 DEF Heard
  <2> QED BY <1>7, <2>1, <2>2
<1>16. pc = "live" /\ r.status \in Terminal =>
         \E i \in DOMAIN rest : rest[i] = Event(r.last, r.status)
  <2> SUFFICES ASSUME pc = "live", r.status \in Terminal
               PROVE \E i \in DOMAIN rest : rest[i] = Event(r.last, r.status)
    OBVIOUS
  <2>1. PICK i \in DOMAIN old.queue : old.queue[i] = Event(r.last, r.status) BY <1>1 DEF Followed
  <2>2. old.last < r.last BY <1>1 DEF Followed
  <2>3. i # 1
    <3> SUFFICES ASSUME i = 1 PROVE FALSE OBVIOUS
    <3>1. e = Event(r.last, r.status) BY <1>4, <2>1
    <3>2. e.id = r.last /\ e.name = r.status BY <3>1 DEF Event
    <3>3. news BY <2>2, <3>2 DEF news
    <3> QED BY <1>9, <3>2, <3>3
  <2> QED BY <1>4, <2>1, <2>3
<1>17. Followed(r, s)
  BY <1>1, <1>10, <1>11, <1>12, <1>13, <1>14, <1>15, <1>16 DEF Followed
<1> QED BY <1>1, <1>3, <1>10, <1>11, <1>17, OneStream DEF r

LEMMA ReceiveLaggedStreams ==
  ASSUME JobTypes, StreamInv, NEW c \in Streams, ReceiveLagged(c)
  PROVE StreamInv'
<1> DEFINE old == stream[c]
           r == rec[old.job]
           t == Told(r.last, TRUE)
           told == Append(old.told, t)
           last == r.last
           pc == IF IsTerminal(old.job) THEN "ended" ELSE old.pc
           s == [old EXCEPT !.lagged = FALSE, !.last = last, !.told = told, !.pc = pc]
<1>1. /\ old \in StreamRecord /\ old.pc = "live" /\ old.job \in Jobs /\ r.status # "none"
      /\ Followed(r, old)
  BY DEF StreamInv, Following, ReceiveLagged
<1>2. r \in JobRecord /\ r.last \in Nat /\ old.after \in Nat /\ old.last \in Nat
      /\ old.told \in Seq(ToldSet)
  BY <1>1 DEF JobTypes, JobRecord, StreamRecord
<1>3. stream' = [stream EXCEPT ![c] = s] /\ UNCHANGED <<rec, canceler>>
  BY DEF ReceiveLagged, StreamInv
<1>4. t \in ToldSet /\ t.id = r.last /\ t.snapshot BY <1>2 DEF Told, ToldSet
<1>5. pc \in {"ended", "live"} /\ (pc = "ended" <=> r.status \in Terminal) BY <1>1 DEF IsTerminal
<1> HIDE DEF old, r, t
<1>6. /\ told \in Seq(ToldSet) /\ InOrder(told)
      /\ \A i \in DOMAIN told : told[i].id <= t.id
      /\ \E i \in DOMAIN told : told[i] = t
  <2>1. \A i \in DOMAIN old.told : old.told[i].id <= old.last BY <1>1 DEF Followed
  <2>2. \A i \in DOMAIN old.told : old.told[i].id \in Nat
    <3>1. \A i \in DOMAIN old.told : old.told[i] \in ToldSet BY <1>2
    <3> QED BY <3>1 DEF ToldSet
  <2>3. old.last <= r.last BY <1>1 DEF Followed
  <2>4. \A i \in DOMAIN old.told : old.told[i].id <= t.id BY <1>2, <1>4, <2>1, <2>2, <2>3
  <2>5. InOrder(old.told) BY <1>1 DEF Followed
  <2> HIDE DEF told
  <2> QED BY <1>2, <1>4, <2>4, <2>5, ToldAppended DEF told
<1> HIDE DEF told, pc, last
<1>7. /\ s \in StreamRecord /\ s.pc = pc /\ s.job = old.job /\ s.after = old.after
      /\ s.told = told /\ s.last = last /\ s.queue = old.queue
  BY <1>1, <1>2, <1>5, <1>6 DEF StreamRecord, last
<1> HIDE DEF s
<1>8. \A i \in DOMAIN s.queue : Heard(r, s.queue[i]) BY <1>1, <1>7 DEF Followed
<1>9. s.pc = "live" => r.status \notin Terminal BY <1>5, <1>7
<1>10. s.after <= r.last /\ s.last = r.last BY <1>1, <1>7 DEF Followed, last
<1>11. \E i \in DOMAIN told : told[i].id = r.last BY <1>4, <1>6
<1>12. Followed(r, s)
  BY <1>2, <1>4, <1>5, <1>6, <1>7, <1>8, <1>9, <1>10, <1>11 DEF Followed
<1> QED BY <1>1, <1>3, <1>5, <1>7, <1>12, OneStream DEF r

(* What the other actions do to the records the streams follow.            *)
LEMMA StreamInit == Init => StreamInv
<1> SUFFICES ASSUME Init PROVE StreamInv
  OBVIOUS
<1>1. ASSUME NEW j \in Jobs PROVE Numbered(rec[j]) /\ Signaling(j)
  <2>1. rec[j].events = <<Event(1, "queued")>> /\ rec[j].last = 1 /\ rec[j].status = "none"
    BY DEF Init, NoRecord, NewRecord
  <2>2. canceler[j] = 0 BY DEF Init
  <2>3. "none" \notin Terminal BY DEF Terminal
  <2> QED BY <2>1, <2>2, <2>3 DEF Numbered, Signaling, Event
<1>2. stream \in [Streams -> StreamRecord]
  <2>1. <<>> \in Seq(EventSet) /\ <<>> \in Seq(ToldSet) OBVIOUS
  <2> QED BY <2>1 DEF Init, StreamRecord
<1>3. ASSUME NEW c \in Streams PROVE Following(c)
  BY DEF Init, Following
<1> QED BY <1>1, <1>2, <1>3 DEF StreamInv

LEMMA CreateStreams ==
  ASSUME JobsInv, JobTypes', StreamInv, NEW j \in Jobs, Create(j)
  PROVE StreamInv'
<1>0. JobTypes /\ UNCHANGED <<stream, canceler>> BY DEF JobsInv, Create
<1>1. CASE UNCHANGED rec BY <1>0, <1>1, NothingNew
<1>2. CASE rec' = [rec EXCEPT ![j] = NewRecord(rec[j].session)]
  <2>1. rec[j].status = "none" /\ canceler[j] = 0
    BY DEF JobsInv, Lifecycle, Create, StreamInv, Signaling
  <2>2. /\ rec'[j] = NewRecord(rec[j].session) /\ \A i \in Jobs : i # j => rec'[i] = rec[i]
    BY <1>0, <1>2 DEF JobTypes
  <2>3. rec'[j].events = <<Event(1, "queued")>> /\ rec'[j].last = 1 /\ rec'[j].status = "queued"
    BY <2>2 DEF NewRecord
  <2>4. Numbered(rec'[j]) BY <2>3 DEF Numbered, Event
  <2>5. Signaling(j)' BY <1>0, <2>1, <2>3 DEF Signaling, Terminal
  <2>6. ASSUME NEW i \in Jobs, i # j
        PROVE Numbered(rec'[i]) /\ Signaling(i)' /\ SameEnd(rec[i], rec'[i])
    BY <1>0, <2>2, <2>6 DEF StreamInv, Signaling, SameEnd
  <2>7. ASSUME NEW i \in Jobs
        PROVE /\ Numbered(rec'[i]) /\ Signaling(i)'
              /\ rec[i].status # "none" => rec'[i].status # "none" /\ SameEnd(rec[i], rec'[i])
    BY <2>1, <2>4, <2>5, <2>6 DEF SameEnd
  <2> QED BY <1>0, <2>7, SilentStep
<1> QED BY <1>1, <1>2, CreateOutcome

LEMMA FieldStreams ==
  ASSUME JobTypes, JobTypes', StreamInv, UNCHANGED <<stream, canceler>>, NEW j \in Jobs,
         NEW x, \/ rec' = [rec EXCEPT ![j].session = x]
                \/ rec' = [rec EXCEPT ![j].handle = x]
                \/ rec' = rec
  PROVE StreamInv'
<1>1. \A i \in Jobs : /\ rec'[i].events = rec[i].events /\ rec'[i].last = rec[i].last
                      /\ rec'[i].status = rec[i].status
  <2>1. rec \in [Jobs -> JobRecord] BY DEF JobTypes
  <2> DEFINE a == [rec[j] EXCEPT !.session = x]
             b == [rec[j] EXCEPT !.handle = x]
  <2>2. /\ a.events = rec[j].events /\ a.last = rec[j].last /\ a.status = rec[j].status
        /\ b.events = rec[j].events /\ b.last = rec[j].last /\ b.status = rec[j].status
    BY <2>1 DEF JobRecord
  <2>3. rec' = [rec EXCEPT ![j] = a] \/ rec' = [rec EXCEPT ![j] = b] \/ rec' = rec
    OBVIOUS
  <2> HIDE DEF a, b
  <2>4. \A i \in Jobs : rec'[i] = rec[i] \/ (i = j /\ rec'[i] \in {a, b})
    BY <2>1, <2>3
  <2> QED BY <2>2, <2>4
<1> QED BY <1>1, NothingNew

LEMMA StreamKept == JobsInv /\ StreamInv /\ [Next]_vars => StreamInv'
<1> SUFFICES ASSUME JobsInv, StreamInv, [Next]_vars PROVE StreamInv'
  OBVIOUS
<1>0. JobTypes /\ JobTypes'
  BY JobsStep DEF JobsInv
<1>1. ASSUME UNCHANGED <<rec, stream, canceler>> PROVE StreamInv'
  BY <1>0, <1>1, NothingNew
<1>2. ASSUME NEW j \in Jobs, task[j].pc # "none" PROVE rec[j].status # "none"
  BY <1>2 DEF JobsInv, Lifecycle
<1>3. ASSUME NEW j \in Jobs, \E s \in Sessions : Admit(j, s) PROVE StreamInv'
  BY <1>0, <1>3, FieldStreams DEF Admit
<1>4. ASSUME NEW j \in Jobs, Create(j) PROVE StreamInv'
  BY <1>0, <1>4, CreateStreams
<1>5. ASSUME NEW j \in Jobs, Spawn(j) \/ DropCreator(j) PROVE StreamInv'
  BY <1>1, <1>5 DEF Spawn, DropCreator
<1>6. ASSUME NEW j \in Jobs, AttachHandle(j) PROVE StreamInv'
  BY <1>0, <1>6, FieldStreams DEF AttachHandle
<1>7. ASSUME NEW j \in Jobs, RestCancel(j) PROVE StreamInv'
  <2>1. rec[j].status # "none" BY <1>7 DEF RestCancel, JobsInv, Lifecycle
  <2> QED BY <1>0, <1>7, <2>1, MarkCancelingStreams DEF RestCancel
<1>8. ASSUME NEW j \in Jobs, CancelSignals(j) PROVE StreamInv'
  BY <1>0, <1>8, CancelSignalsStreams
<1>9. ASSUME NEW j \in Jobs, MarkConnecting(j) \/ MarkRunning(j) PROVE StreamInv'
  <2>1. rec[j].status # "none" /\ canceler' = canceler
    BY <1>2, <1>9 DEF MarkConnecting, MarkRunning
  <2>2. CASE FinishCanceled(j) BY <1>0, <2>1, <2>2, FinishCanceledStreams
  <2>3. CASE UNCHANGED <<rec, stream>> BY <1>1, <2>1, <2>3
  <2>4. CASE ~ IsTerminal(j) /\ (Announce(j, "connecting") \/ Announce(j, "running"))
    BY <1>0, <2>1, <2>4, AnnounceStreams, StatusesAre DEF IsTerminal
  <2> QED BY <1>9, <2>2, <2>3, <2>4 DEF MarkConnecting, MarkRunning
<1>10. ASSUME NEW j \in Jobs, CanceledWhileWaiting(j) PROVE StreamInv'
  BY <1>0, <1>2, <1>10, FinishCanceledStreams DEF CanceledWhileWaiting
<1>11. ASSUME NEW j \in Jobs,
              ConnectReturns(j) \/ EnterQueue(j) \/ AcquireSession(j) \/ AcquireGlobal(j)
              \/ QueueTimesOut(j) \/ VerifyAccess(j)
              \/ \E v \in {"completed", "failed", "timedOut"} : ExecReturns(j, v)
       PROVE StreamInv'
  BY <1>1, <1>11 DEF ConnectReturns, EnterQueue, AcquireSession, AcquireGlobal, QueueTimesOut,
                     VerifyAccess, ExecReturns
<1>12. ASSUME NEW j \in Jobs, Conclude(j) PROVE StreamInv'
  <2>1. rec[j].status # "none" /\ task[j].verdict \in Terminal
    BY <1>12 DEF Conclude, JobsInv, Lifecycle
  <2> QED BY <1>0, <1>12, <2>1, FinishStreams DEF Conclude
<1>13. ASSUME NEW j \in Jobs, AppendOutput(j) PROVE StreamInv'
  <2>1. rec[j].status # "none" /\ canceler' = canceler BY <1>2, <1>13 DEF AppendOutput
  <2>2. CASE FinishCanceled(j) BY <1>0, <2>1, <2>2, FinishCanceledStreams
  <2>3. CASE ~ FinishCanceled(j)
    BY <1>0, <1>13, <2>1, <2>3, OutputStreams DEF AppendOutput, IsTerminal
  <2> QED BY <2>2, <2>3
<1>14. ASSUME NEW j \in Jobs, CancelDisallowed(j) PROVE StreamInv'
  <2>1. rec[j].status # "none" BY <1>14 DEF CancelDisallowed, JobsInv, Withdrawal
  <2>2. CASE MarkCanceling(j)
    BY <1>0, <1>14, <2>1, <2>2, MarkCancelingStreams DEF CancelDisallowed
  <2>3. CASE UNCHANGED <<rec, canceler>> BY <1>1, <1>14, <2>3 DEF CancelDisallowed
  <2> QED BY <1>14, <2>2, <2>3 DEF CancelDisallowed
<1>15. ASSUME NEW j \in Jobs, ShutdownCancels(j) PROVE StreamInv'
  <2>1. rec[j].status # "none" BY <1>15 DEF ShutdownCancels, JobsInv, Closing
  <2> QED BY <1>0, <1>15, <2>1, MarkCancelingStreams DEF ShutdownCancels
<1>16. ASSUME NEW j \in Jobs, TakeHandle(j) PROVE StreamInv'
  <2>1. rec[j].status # "none" BY <1>16 DEF TakeHandle, JobsInv, Closing
  <2>2. CASE rec[j].handle = "set" BY <1>0, <1>16, <2>2, FieldStreams DEF TakeHandle
  <2>3. CASE rec[j].handle # "set"
    BY <1>0, <1>16, <2>1, <2>3, FinishCanceledStreams DEF TakeHandle
  <2> QED BY <2>2, <2>3
<1>17. ASSUME NEW set \in SUBSET Sessions, ReplaceCache(set) PROVE StreamInv'
  BY <1>1, <1>17 DEF ReplaceCache
<1>18. CASE LookUp \/ UpdateSessions \/ SnapshotJobs \/ PolicyDone
  BY <1>1, <1>18 DEF LookUp, UpdateSessions, SnapshotJobs, PolicyDone
<1>19. CASE ShutdownBegins \/ ShutdownCollects \/ ShutdownEnds
  BY <1>1, <1>19 DEF ShutdownBegins, ShutdownCollects, ShutdownEnds
<1>20. ASSUME NEW c \in Streams, NEW j \in Jobs, NEW after \in {0, rec[j].last},
              Subscribe(c, j, after)
       PROVE StreamInv'
  BY <1>20, SubscribeStreams
<1>21. ASSUME NEW c \in Streams, StreamStep(c) PROVE StreamInv'
  BY <1>0, <1>21, CopyStoredStreams, ReceiveStreams, ReceiveLaggedStreams DEF StreamStep
<1>22. CASE UNCHANGED vars BY <1>1, <1>22 DEF vars
<1> QED BY <1>3, <1>4, <1>5, <1>6, <1>7, <1>8, <1>9, <1>10, <1>11, <1>12, <1>13, <1>14, <1>15,
           <1>16, <1>17, <1>18, <1>19, <1>20, <1>21, <1>22 DEF Next, TaskStep

(* No event stream repeats or reorders events or misses the end of its     *)
(* job, for any number of streams and any size of the stored events and of *)
(* the channel (subscribe, rest_job_events, request_cancel).               *)
THEOREM StreamFaithfulTheorem == Spec => []StreamFaithful
<1>1. StreamInv => StreamFaithful
  <2> SUFFICES ASSUME StreamInv, NEW c \in Streams, stream[c].job # NoJob
               PROVE LET r == rec[stream[c].job]
                         seen == {stream[c].told[i].id : i \in DOMAIN stream[c].told}
                                 \cup {stream[c].after} IN
                     /\ InOrder(stream[c].told)
                     /\ stream[c].pc = "ended" => r.status \in Terminal /\ r.last \in seen
                     /\ stream[c].pc = "live" /\ r.status \in Terminal =>
                          stream[c].lagged \/ Contains(stream[c].queue, Event(r.last, r.status))
    BY DEF StreamFaithful
  <2> DEFINE s == stream[c]
             r == rec[s.job]
  <2>1. Followed(r, s) /\ s \in StreamRecord BY DEF StreamInv, Following
  <2>2. DOMAIN s.queue = 1..Len(s.queue)
    <3> HIDE DEF s
    <3>1. s.queue \in Seq(EventSet) BY <2>1 DEF StreamRecord
    <3> QED BY <3>1
  <2> QED BY <2>1, <2>2 DEF Followed, Contains
<1>2. StreamInv /\ JobsInv /\ [Next]_vars => StreamInv' BY StreamKept
<1> QED BY <1>1, <1>2, StreamInit, JobsInvariant, PTL DEF Spec
=============================================================================
