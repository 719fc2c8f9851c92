----------------------------- MODULE ExecCommand -----------------------------
(***************************************************************************)
(* Running a command for the REST interface (remote/ssh.rs): the warm      *)
(* channel of a connection, the probe for process groups, the command with *)
(* its output, timeout and cancellation, and the termination of a command  *)
(* nobody waits for any more.                                              *)
(*                                                                         *)
(* The bytes of a command are numbered in the order it writes them.  The   *)
(* server handles the messages of a connection in order; whether it acts   *)
(* on a signal request (old servers do not) is chosen at the start.        *)
(***************************************************************************)
EXTENDS Naturals, Sequences, FiniteSets, SequencesExt

CONSTANTS
  Commands,    \* commands run on the connection
  Streamed,    \* those run as jobs: exec_stream_with_channel; the others: exec_with_channel
  Loads,       \* bound: what each command writes at most, None if it is not run
  MaxMessage,  \* bound: bytes of one channel message
  Limit,       \* MAX_API_EXEC_OUTPUT_BYTES
  Chunk,       \* EXEC_STREAM_CHUNK_BYTES
  Faults,      \* bound: requests dropped, requests that fail, channels refused
  None

ASSUME ExecAssumption ==
  /\ Streamed \subseteq Commands
  /\ Loads \subseteq [Commands -> Nat \cup {None}] /\ Faults \in Nat
  /\ {MaxMessage, Limit, Chunk} \subseteq Nat \ {0}
  /\ None \notin {"completed", "timed_out"}

VARIABLES
  pool,     \* ExecChannelPool
  refill,   \* refill[c]: the refill task command c has scheduled
  tracker,  \* ExecProcessTracker: what is known, and who probes
  cmd,      \* cmd[c]: the future of command c
  proc,     \* proc[c]: its process on the server
  inbox,    \* inbox[c]: messages of its channel the client has not read
  term,     \* term[c]: the termination task of c
  net       \* transport, signal support, faults left, what commands write

vars == <<pool, refill, tracker, cmd, proc, inbox, term, net>>

Streams == {"out", "err"}
Newline == 0            \* the byte push_line adds
TimeoutText == 1000     \* the text push_line adds

---------------------------------------------------------------------------
(* BoundedOutput *)

Bounded == [bytes |-> <<>>, total |-> 0, truncated |-> FALSE]

LastN(s, n) == SubSeq(s, Len(s) - n + 1, Len(s))

\* seeded fault: a message that replaces everything forgets what came before it
PushForgets(b, bytes) ==
  LET total == b.total + Len(bytes)
      all == b.bytes \o bytes IN
  IF Len(bytes) >= Limit
    THEN [bytes |-> LastN(bytes, Limit), total |-> total,
          truncated |-> b.truncated \/ Len(bytes) > Limit]
    ELSE [bytes |-> IF Len(all) > Limit THEN LastN(all, Limit) ELSE all, total |-> total,
          truncated |-> b.truncated \/ Len(all) > Limit]

\* a message of Limit bytes or more replaces everything; otherwise the front is drained
Push(b, bytes) ==
  LET total == b.total + Len(bytes)
      all == b.bytes \o bytes IN
  IF Len(bytes) >= Limit
    THEN [bytes |-> LastN(bytes, Limit), total |-> total,
          truncated |-> b.truncated \/ total > Limit]
    ELSE [bytes |-> IF Len(all) > Limit THEN LastN(all, Limit) ELSE all, total |-> total,
          truncated |-> b.truncated \/ Len(all) > Limit]

\* push_line: the text on a line of its own
Line(b) == (IF b.bytes # <<>> /\ Last(b.bytes) # Newline THEN <<Newline>> ELSE <<>>) \o <<TimeoutText>>
PushLine(b) ==
  LET parted == IF Len(Line(b)) = 2 THEN Push(b, <<Newline>>) ELSE b
  IN Push(parted, <<TimeoutText>>)

---------------------------------------------------------------------------
(* queue_stream_output and flush_stream_output: bytes of one stream are    *)
(* gathered in pending and sent as one chunk.                              *)

NoOutput == [s |-> None, bytes |-> <<>>]
Flushed(c) == [c EXCEPT !.sent = @ \o c.pending.bytes, !.pending = NoOutput]

Queued(c, s, bytes) ==
  LET ready == IF c.pending.s # s THEN Flushed(c) ELSE c
      grown == [ready EXCEPT !.pending = [s |-> s, bytes |-> ready.pending.bytes \o bytes]]
  IN IF Len(grown.pending.bytes) >= Chunk THEN Flushed(grown) ELSE grown

---------------------------------------------------------------------------
Idle == [pc |-> "begin", tracked |-> FALSE, active |-> FALSE, out |-> Bounded, err |-> Bounded,
         pending |-> NoOutput, sent |-> <<>>, seen |-> <<>>, reply |-> None]

Init ==
  /\ pool = [closed |-> FALSE, refilling |-> FALSE, warm |-> FALSE, task |-> None, closer |-> "idle"]
  /\ refill = [c \in Commands |-> "none"]
  /\ tracker = [state |-> "unknown", probing |-> None]
  /\ proc = [c \in Commands |-> "none"]
  /\ inbox = [c \in Commands |-> <<>>]
  /\ term = [c \in Commands |-> [signal |-> "none", sweep |-> "none", missed |-> FALSE]]
  /\ \E honours \in BOOLEAN, load \in Loads :
       /\ net = [up |-> TRUE, signals |-> honours, faults |-> Faults, load |-> load]
       /\ cmd = [c \in Commands |-> [Idle EXCEPT !.pc = IF load[c] = None THEN "done" ELSE "begin"]]

At(c, pc) == cmd[c].pc = pc
Goto(c, pc) == cmd' = [cmd EXCEPT ![c].pc = pc]
\* an error, or the future is dropped: the output goes with it
Fail(c, reply) == cmd' = [cmd EXCEPT ![c] = [Idle EXCEPT !.pc = "done", !.reply = reply, !.tracked = cmd[c].tracked]]
Fault == net.faults > 0 /\ net' = [net EXCEPT !.faults = @ - 1]
\* a request of the client fails: the transport is gone, or by a fault
RequestFails == IF net.up THEN Fault ELSE UNCHANGED net

---------------------------------------------------------------------------
(* The warm channel. *)

\* take: the warm channel, unless it is too old; then schedule_refill is called
Take(c) ==
  /\ At(c, "begin")
  /\ pool' = [pool EXCEPT !.warm = FALSE]
  /\ \/ pool.warm /\ Goto(c, "schedule_warm")
     \/ Goto(c, "schedule")
  /\ UNCHANGED <<refill, tracker, proc, inbox, term, net>>

After(c) == IF At(c, "schedule_warm") THEN "probe" ELSE "open"

\* the compare_exchange on refilling lets one caller spawn the task
Schedule(c) ==
  /\ cmd[c].pc \in {"schedule", "schedule_warm"}
  /\ IF pool.closed \/ pool.refilling
       THEN Goto(c, After(c)) /\ UNCHANGED <<pool, refill>>
       ELSE /\ pool' = [pool EXCEPT !.refilling = TRUE]
            /\ refill' = [refill EXCEPT ![c] = "opening"]
            /\ Goto(c, IF At(c, "schedule_warm") THEN "register_warm" ELSE "register")
  /\ UNCHANGED <<tracker, proc, inbox, term, net>>

Running(t) == t # None /\ refill[t] \in {"opening", "opened", "checked"}
Aborted(t) == IF Running(t) THEN [refill EXCEPT ![t] = "aborted"] ELSE refill
Onwards(c) == IF At(c, "register_warm") THEN "probe" ELSE "open"

\* seeded fault: the task is put in its slot without looking at closed again
RegisterAlways(c) ==
  /\ cmd[c].pc \in {"register", "register_warm"}
  /\ refill' = Aborted(pool.task) /\ pool' = [pool EXCEPT !.task = c]
  /\ Goto(c, Onwards(c))
  /\ UNCHANGED <<tracker, proc, inbox, term, net>>

\* with the slot locked: a pool closed meanwhile aborts the task, another task is replaced
Register(c) ==
  /\ cmd[c].pc \in {"register", "register_warm"}
  /\ IF pool.closed
       THEN refill' = Aborted(c) /\ pool' = [pool EXCEPT !.refilling = FALSE]
       ELSE refill' = Aborted(pool.task) /\ pool' = [pool EXCEPT !.task = c]
  /\ Goto(c, Onwards(c))
  /\ UNCHANGED <<tracker, proc, inbox, term, net>>

\* the refill task: open a channel, look at closed, put the channel in the empty place
Refill(c) ==
  /\ \/ /\ refill[c] = "opening" /\ net.up
        /\ refill' = [refill EXCEPT ![c] = "opened"] /\ UNCHANGED <<pool, net>>
     \/ /\ refill[c] = "opening" /\ RequestFails
        /\ refill' = [refill EXCEPT ![c] = "ended"]
        /\ pool' = [pool EXCEPT !.refilling = FALSE]
     \/ /\ refill[c] = "opened" /\ pool.closed
        /\ refill' = [refill EXCEPT ![c] = "ended"]
        /\ pool' = [pool EXCEPT !.refilling = FALSE] /\ UNCHANGED net
     \/ /\ refill[c] = "opened" /\ ~pool.closed
        /\ refill' = [refill EXCEPT ![c] = "checked"] /\ UNCHANGED <<pool, net>>
     \/ /\ refill[c] = "checked"
        /\ refill' = [refill EXCEPT ![c] = "ended"]
        /\ pool' = [pool EXCEPT !.refilling = FALSE, !.warm = TRUE] /\ UNCHANGED net
  /\ UNCHANGED <<tracker, cmd, proc, inbox, term>>

\* ExecChannelPool::close, then the transport goes
ClosePool ==
  /\ \/ /\ pool.closer = "idle"
        /\ pool' = [pool EXCEPT !.closed = TRUE, !.closer = "task"] /\ UNCHANGED <<refill, net>>
     \/ /\ pool.closer = "task"
        /\ refill' = Aborted(pool.task)
        /\ pool' = [pool EXCEPT !.task = None, !.refilling = FALSE, !.closer = "idle_channel"]
        /\ UNCHANGED net
     \/ /\ pool.closer = "idle_channel"
        /\ pool' = [pool EXCEPT !.warm = FALSE, !.closer = "closed"] /\ UNCHANGED <<refill, net>>
     \/ /\ pool.closer = "closed" /\ net.up
        /\ net' = [net EXCEPT !.up = FALSE] /\ UNCHANGED <<pool, refill>>
  /\ UNCHANGED <<tracker, cmd, proc, inbox, term>>

OpenChannel(c) ==
  /\ At(c, "open")
  /\ \/ net.up /\ Goto(c, "probe") /\ UNCHANGED net
     \/ Fail(c, "error") /\ RequestFails
  /\ UNCHANGED <<pool, refill, tracker, proc, inbox, term>>

---------------------------------------------------------------------------
(* The probe: one at a time, its answer kept for the connection. *)

Probe(c) ==
  /\ At(c, "probe")
  /\ \/ /\ tracker.state # "unknown"
        /\ cmd' = [cmd EXCEPT ![c].tracked = tracker.state = "supported", ![c].pc = "start"]
        /\ UNCHANGED tracker
     \/ /\ tracker.state = "unknown" /\ tracker.probing = None
        /\ tracker' = [tracker EXCEPT !.probing = c]
        /\ Goto(c, "probing")
  /\ UNCHANGED <<pool, refill, proc, inbox, term, net>>

ProbeReturns(c) ==
  /\ At(c, "probing")
  /\ \E state \in {"supported", "unsupported"} :
       /\ tracker' = [state |-> state, probing |-> None]
       /\ cmd' = [cmd EXCEPT ![c].tracked = state = "supported", ![c].pc = "start"]
  /\ UNCHANGED <<pool, refill, proc, inbox, term, net>>

---------------------------------------------------------------------------
(* The command. *)

\* seeded fault: the guard becomes active only with the server's confirmation
StartUnguarded(c) ==
  /\ At(c, "start")
  /\ cmd' = [cmd EXCEPT ![c].pc = "starting"]
  /\ proc' = IF net.up THEN [proc EXCEPT ![c] = "requested"] ELSE proc
  /\ UNCHANGED <<pool, refill, tracker, inbox, term, net>>

\* mark_active, then exec is requested
Start(c) ==
  /\ At(c, "start")
  /\ cmd' = [cmd EXCEPT ![c].pc = "starting", ![c].active = TRUE]
  /\ proc' = IF net.up THEN [proc EXCEPT ![c] = "requested"] ELSE proc
  /\ UNCHANGED <<pool, refill, tracker, inbox, term, net>>

Started(c) ==
  /\ At(c, "starting") /\ proc[c] # "requested" /\ net.up
  /\ cmd' = [cmd EXCEPT ![c].pc = "running", ![c].active = TRUE]
  /\ UNCHANGED <<pool, refill, tracker, proc, inbox, term, net>>

\* terminate: a task of its own signals and sweeps; the command waits for it
Terminating(c) == [term EXCEPT ![c] = [signal |-> "send", missed |-> FALSE,
                     sweep |-> IF cmd[c].tracked THEN "open" ELSE "done"]]

\* no confirmation within SSH_CONTROL_TIMEOUT
StartFails(c) ==
  /\ At(c, "starting") /\ RequestFails
  /\ term' = Terminating(c)
  /\ cmd' = [cmd EXCEPT ![c].pc = "failed", ![c].active = FALSE]
  /\ UNCHANGED <<pool, refill, tracker, proc, inbox>>

\* a message of the channel: kept for the result and, in a job, queued for the reader
Receive(c) ==
  LET msg == Head(inbox[c])
      one == [cmd[c] EXCEPT !.seen = @ \o [i \in DOMAIN msg.bytes |-> [s |-> msg.s, b |-> msg.bytes[i]]],
                            !.out = IF msg.s = "out" THEN Push(@, msg.bytes) ELSE @,
                            !.err = IF msg.s = "err" THEN Push(@, msg.bytes) ELSE @] IN
  /\ At(c, "running") /\ inbox[c] # <<>>
  /\ cmd' = [cmd EXCEPT ![c] = IF c \in Streamed THEN Queued(one, msg.s, msg.bytes) ELSE one]
  /\ inbox' = [inbox EXCEPT ![c] = Tail(@)]
  /\ UNCHANGED <<pool, refill, tracker, proc, term, net>>

\* the tick of flush_interval
FlushTick(c) ==
  /\ At(c, "running") /\ c \in Streamed /\ cmd[c].pending # NoOutput
  /\ cmd' = [cmd EXCEPT ![c] = Flushed(@)]
  /\ UNCHANGED <<pool, refill, tracker, proc, inbox, term, net>>

\* seeded fault: what is pending is not sent when the command completes
CompleteUnflushed(c) ==
  /\ At(c, "running") /\ inbox[c] = <<>> /\ (proc[c] \in {"exited", "killed"} \/ ~net.up)
  /\ cmd' = [cmd EXCEPT ![c].pc = "done", ![c].reply = "completed", ![c].active = FALSE]
  /\ UNCHANGED <<pool, refill, tracker, proc, inbox, term, net>>

\* the channel has ended: finish, the last flush and the result
Complete(c) ==
  /\ At(c, "running") /\ inbox[c] = <<>> /\ (proc[c] \in {"exited", "killed"} \/ ~net.up)
  /\ cmd' = [cmd EXCEPT ![c] = [Flushed(@) EXCEPT !.pc = "done", !.reply = "completed", !.active = FALSE]]
  /\ UNCHANGED <<pool, refill, tracker, proc, inbox, term, net>>

\* the timeout of the command, or the cancellation of its job
Stop(c) ==
  /\ At(c, "running")
  /\ term' = Terminating(c)
  /\ \/ cmd' = [cmd EXCEPT ![c].pc = "timed_out", ![c].active = FALSE]
     \/ c \in Streamed /\ cmd' = [cmd EXCEPT ![c].pc = "canceled", ![c].active = FALSE]
  /\ UNCHANGED <<pool, refill, tracker, proc, inbox, net>>

TermOver(c) == term[c].signal = "done" /\ term[c].sweep = "done"

\* the termination has ended: the text of the timeout, and the result; a cancellation is an error
Stopped(c) ==
  LET line == Line(cmd[c].err)
      late == [cmd[c] EXCEPT !.err = PushLine(@),
                             !.seen = @ \o [i \in DOMAIN line |-> [s |-> "err", b |-> line[i]]]]
      sent == IF c \in Streamed THEN Flushed(Queued(late, "err", <<TimeoutText>>)) ELSE late IN
  /\ TermOver(c)
  /\ \/ At(c, "timed_out") /\ cmd' = [cmd EXCEPT ![c] = [sent EXCEPT !.pc = "done", !.reply = "timed_out"]]
     \/ cmd[c].pc \in {"canceled", "failed"} /\ Fail(c, "error")
  /\ inbox' = [inbox EXCEPT ![c] = <<>>]
  /\ UNCHANGED <<pool, refill, tracker, proc, term, net>>

\* RemoteCommandGuard::drop: the future goes at an await, with its client or its job
Dropped(c) ==
  /\ cmd[c].pc \in {"open", "probe", "probing", "starting", "running", "timed_out", "canceled", "failed"}
  /\ Fault /\ Fail(c, "dropped")
  /\ tracker' = [tracker EXCEPT !.probing = IF @ = c THEN None ELSE @]
  /\ term' = IF cmd[c].active THEN Terminating(c) ELSE term
  /\ inbox' = [inbox EXCEPT ![c] = <<>>]
  /\ UNCHANGED <<pool, refill, proc>>

---------------------------------------------------------------------------
(* terminate_remote_command. *)

\* KILL over the channel of the command; it is handled after the exec request
Signal(c) ==
  /\ term[c].signal = "send"
  /\ \/ /\ net.up /\ proc[c] # "requested"
        /\ proc' = IF net.signals /\ proc[c] = "running" THEN [proc EXCEPT ![c] = "killed"] ELSE proc
        /\ term' = [term EXCEPT ![c].signal = "done"] /\ UNCHANGED net
     \/ /\ RequestFails
        /\ term' = [term EXCEPT ![c].signal = "done", ![c].missed = TRUE] /\ UNCHANGED proc
  /\ UNCHANGED <<pool, refill, tracker, cmd, inbox>>

\* terminate_tracked_process: a command of its own kills the process group with the token
SweepGroup(c) ==
  /\ term[c].sweep = "open"
  /\ \/ /\ net.up /\ proc[c] # "requested"
        /\ proc' = IF proc[c] = "running" THEN [proc EXCEPT ![c] = "killed"] ELSE proc
        /\ term' = [term EXCEPT ![c].sweep = "done"] /\ UNCHANGED net
     \/ /\ RequestFails
        /\ term' = [term EXCEPT ![c].sweep = "done", ![c].missed = TRUE] /\ UNCHANGED proc
  /\ UNCHANGED <<pool, refill, tracker, cmd, inbox>>

---------------------------------------------------------------------------
(* The server. *)

Served(c) == proc[c] = "requested" /\ net.up /\ proc' = [proc EXCEPT ![c] = "running"]
             /\ UNCHANGED <<pool, refill, tracker, cmd, inbox, term, net>>

\* the bytes the process has written so far, those of its channel and those received
Written(c) ==
  Cardinality({b \in 1..net.load[c] : \/ \E i \in DOMAIN cmd[c].seen : cmd[c].seen[i].b = b
                                      \/ \E i \in DOMAIN inbox[c] : b \in Range(inbox[c][i].bytes)})

Writes(c) ==
  /\ proc[c] = "running" /\ net.up /\ cmd[c].pc \in {"starting", "running"}
  /\ \E s \in Streams, n \in 1..MaxMessage :
       /\ Written(c) + n <= net.load[c]
       /\ inbox' = [inbox EXCEPT ![c] = Append(@, [s |-> s, bytes |-> [i \in 1..n |-> Written(c) + i]])]
  /\ UNCHANGED <<pool, refill, tracker, cmd, proc, term, net>>

Exits(c) ==
  /\ proc[c] = "running"
  /\ proc' = [proc EXCEPT ![c] = "exited"]
  /\ UNCHANGED <<pool, refill, tracker, cmd, inbox, term, net>>

---------------------------------------------------------------------------
Command(c) ==
  \/ Take(c) \/ Schedule(c) \/ Register(c) \/ OpenChannel(c) \/ Probe(c) \/ ProbeReturns(c)
  \/ Start(c) \/ Started(c) \/ StartFails(c) \/ Receive(c) \/ FlushTick(c) \/ Complete(c)
  \/ Stop(c) \/ Stopped(c) \/ Dropped(c)

Next ==
  \/ \E c \in Commands : Command(c) \/ Refill(c) \/ Signal(c) \/ SweepGroup(c)
                         \/ Served(c) \/ Writes(c) \/ Exits(c)
  \/ ClosePool

Spec == Init /\ [][Next]_vars

---------------------------------------------------------------------------
\* a command nobody waits for any more is not left running on the server: once the future is
\* gone or has returned and its termination has ended, the process has ended, as long as the
\* server honours signals or groups are tracked, and no termination request was lost
\* (RemoteCommandGuard::mark_active, terminate_remote_command)
AbandonedIsKilled ==
  \A c \in Commands :
    /\ At(c, "done") /\ net.up /\ term[c].signal \in {"none", "done"} /\ term[c].sweep \in {"none", "done"}
    /\ net.signals \/ cmd[c].tracked
    /\ ~term[c].missed
    => proc[c] \notin {"requested", "running"}

\* the bytes among those delivered that are in S, in the order of their delivery
Picked(seen, S) ==
  LET upto[n \in 0..Len(seen)] ==
        IF n = 0 THEN <<>>
        ELSE IF seen[n] \in S THEN Append(upto[n - 1], seen[n].b) ELSE upto[n - 1]
  IN upto[Len(seen)]

OfStream(s) == [s : {s}, b : Nat]
Texts == [s : Streams, b : Nat \ {Newline}]

\* what the reader of a job gets is what the channel delivered, in that order across both
\* streams; a command that ends by itself or by its timeout keeps nothing back
\* (queue_stream_output, flush_stream_output)
OutputInOrder ==
  \A c \in Streamed :
    /\ cmd[c].sent \o cmd[c].pending.bytes = Picked(cmd[c].seen, Texts)
    /\ cmd[c].reply \in {"completed", "timed_out"} => cmd[c].pending = NoOutput

\* b holds the last Limit bytes of all and says whether any are missing
TailOf(b, all) ==
  /\ b.bytes = IF Len(all) > Limit THEN LastN(all, Limit) ELSE all
  /\ b.truncated = (Len(all) > Limit) /\ b.total = Len(all)

\* the result holds the last Limit bytes of each stream and says whether any are missing,
\* whatever the sizes of the messages (BoundedOutput::push)
TailKept ==
  \A c \in Commands : /\ TailOf(cmd[c].out, Picked(cmd[c].seen, OfStream("out")))
                      /\ TailOf(cmd[c].err, Picked(cmd[c].seen, OfStream("err")))

\* once the pool is closed and no caller is between spawning a refill and registering it,
\* no refill runs: none can open a channel on the connection any more
\* (ExecChannelPool::schedule_refill, close)
NoRefillAfterClose ==
  /\ pool.closer \in {"idle_channel", "closed"}
  /\ \A c \in Commands : cmd[c].pc \notin {"register", "register_warm"}
  => \A c \in Commands : ~Running(c)
=============================================================================
