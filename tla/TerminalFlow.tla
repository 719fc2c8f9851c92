---------------------------- MODULE TerminalFlow ----------------------------
(***************************************************************************)
(* The output path of one terminal (runtime_terminal.rs,                   *)
(* terminal_stream.rs, TerminalOutputGate in remote.rs) and its consumer   *)
(* in the WebView (terminalStream.ts, terminalFrame.ts).                   *)
(*                                                                         *)
(* Three tasks of the back end share the output gate, an async mutex: the  *)
(* reader of the SSH channel, the terminal_start command that releases the *)
(* output buffered so far, and a close (terminal_close or the cleanup of   *)
(* the connection).  Whoever sends a frame keeps the gate while it waits   *)
(* for credit, and credit comes back only as the WebView acknowledges what *)
(* xterm has consumed.  A byte is its number in the order the server sent  *)
(* it; one unit of length stands for one byte.                             *)
(***************************************************************************)
EXTENDS Naturals, FiniteSets, Sequences, SequencesExt

CONSTANTS
  Feeds,        \* what the server may send: sequences of [kind, n] messages
  Capacity,     \* TERMINAL_IN_FLIGHT_BYTES
  BatchBytes,   \* TERMINAL_BATCH_BYTES = TERMINAL_FRAME_BYTES
  MaxPending,   \* MAX_TERMINAL_STARTUP_OUTPUT_BYTES
  AckBytes,     \* consumed bytes that flush an acknowledgment at once
  IpcMayFail    \* whether the WebView may go away

Kinds == {"output", "error", "system"}

(* Messages of the server have any length; the exit notice, which is not   *)
(* batched, is a short text that send_frame accepts.                       *)
ASSUME FlowAssumption ==
  /\ Capacity \in Nat /\ BatchBytes \in 1..Capacity
  /\ MaxPending \in Nat /\ BatchBytes <= MaxPending
  /\ AckBytes \in Nat \ {0}
  /\ IpcMayFail \in BOOLEAN
  /\ Feeds \subseteq Seq({m \in [kind : Kinds, n : Nat \ {0}] :
                           m.kind = "system" => m.n <= BatchBytes})

VARIABLES
  feed,       \* messages of the SSH channel not read yet
  arrived,    \* bytes read so far
  pc,         \* progress of the three tasks
  gate,       \* holder of the output_gate mutex across an await
  ready,      \* frames the reader still has to emit
  batch,      \* TerminalOutputBatch.pending
  leaving,    \* the reader has left its read loop
  channel,    \* TerminalOutputGate.channel.is_some()
  streaming,  \* TerminalOutputGate.streaming
  pending,    \* TerminalOutputGate.pending
  startq,     \* frames terminal_start still has to release
  slots,      \* available permits of TerminalFlowControl.slots
  sent,       \* TerminalFlowControl.sent
  acked,      \* TerminalFlowControl.acknowledged
  flowClosed, \* the semaphore is closed
  registered, \* the record is in RemoteRuntime.terminals
  recClosed,  \* TerminalRecord.closed
  wire,       \* frames in the IPC channel
  events,     \* terminal://closed events on their way
  ipcUp,      \* the WebView still exists
  stream,     \* the entry of this terminal in "streams" of the front end
  xterm,      \* frames handed to xterm, not parsed yet
  shown,      \* bytes xterm has parsed, in order
  consumed,   \* TerminalConsumption.consumed
  flushed,    \* TerminalConsumption.acknowledged
  timer,      \* TerminalConsumption.timer is set
  acks,       \* terminal_ack commands on their way
  rejected,   \* an acknowledgment was refused
  told        \* how often the closed handlers ran

reader == <<feed, arrived, ready, batch, leaving>>
gateState == <<channel, streaming, pending, startq>>
flow == <<slots, sent, acked, flowClosed>>
registry == <<registered, recClosed>>
ipc == <<wire, events, ipcUp>>
front == <<stream, xterm, shown, consumed, flushed, timer, acks, rejected, told>>
vars == <<pc, gate, reader, gateState, flow, registry, ipc, front>>

Tasks == {"reader", "start", "close"}
Frame(kind, data) == [kind |-> kind, data |-> data]
CloseFrame == Frame("closed", <<>>)
NoBatch == Frame("output", <<>>)
AsFrames(b) == IF b.data = <<>> THEN <<>> ELSE <<b>>
Bytes(frames) ==
  LET upto[k \in 0..Len(frames)] == IF k = 0 THEN <<>> ELSE upto[k - 1] \o frames[k].data
  IN upto[Len(frames)]
Payload(frames) == Len(Bytes(frames))

Init ==
  /\ feed \in Feeds /\ arrived = 0
  /\ pc = [t \in Tasks |-> IF t = "reader" THEN "read" ELSE "idle"]
  /\ gate = "free" /\ ready = <<>> /\ batch = NoBatch /\ leaving = FALSE
  /\ channel = FALSE /\ streaming = FALSE /\ pending = <<>> /\ startq = <<>>
  /\ slots = Capacity /\ sent = 0 /\ acked = 0 /\ flowClosed = FALSE
  /\ registered = TRUE /\ recClosed = FALSE
  /\ wire = <<>> /\ events = 0 /\ ipcUp = TRUE
  /\ stream = "none" /\ xterm = <<>> /\ shown = <<>>
  /\ consumed = 0 /\ flushed = 0 /\ timer = FALSE
  /\ acks = {} /\ rejected = FALSE /\ told = 0

-----------------------------------------------------------------------------
(* The reader task.                                                        *)

(* The batch is flushed when the kind changes or it would overflow; what   *)
(* is full goes out, the remainder waits for more.                         *)
Push(b, kind, data) ==
  LET flush == b.data # <<>> /\ (b.kind # kind \/ Len(b.data) + Len(data) > BatchBytes)
      total == IF flush THEN data ELSE b.data \o data
      full == Len(total) \div BatchBytes
      chunk(i) == Frame(kind, SubSeq(total, (i - 1) * BatchBytes + 1, i * BatchBytes))
  IN [ready |-> (IF flush THEN <<b>> ELSE <<>>) \o [i \in 1..full |-> chunk(i)],
      rest |-> Frame(kind, SubSeq(total, full * BatchBytes + 1, Len(total)))]

Numbered(n) == [i \in 1..n |-> arrived + i]

GoEmit(frames, last) ==
  /\ ready' = frames
  /\ leaving' = last
  /\ pc' = [pc EXCEPT !["reader"] =
              IF frames # <<>> THEN "emit" ELSE IF last THEN "remove" ELSE "read"]

(* A data message; urgent output (first after input, or after 8 ms of      *)
(* silence) does not wait for the batch to fill.                           *)
ReadData ==
  /\ pc["reader"] = "read" /\ ~recClosed
  /\ feed # <<>> /\ Head(feed).kind # "system"
  /\ feed' = Tail(feed)
  /\ arrived' = arrived + Head(feed).n
  /\ LET p == Push(batch, Head(feed).kind, Numbered(Head(feed).n))
     IN \E urgent \in BOOLEAN :
          /\ batch' = IF urgent THEN NoBatch ELSE p.rest
          /\ GoEmit(IF urgent THEN p.ready \o AsFrames(p.rest) ELSE p.ready, FALSE)
  /\ UNCHANGED <<gate, gateState, flow, registry, ipc, front>>

\* seeded fault: the exit notice overtakes the batched output
ReadExitFirst ==
  /\ pc["reader"] = "read" /\ ~recClosed
  /\ feed # <<>> /\ Head(feed).kind = "system"
  /\ feed' = Tail(feed)
  /\ arrived' = arrived + Head(feed).n
  /\ GoEmit(<<Frame("system", Numbered(Head(feed).n))>>, FALSE)
  /\ UNCHANGED <<batch, gate, gateState, flow, registry, ipc, front>>

(* The exit status: what is batched goes out before the notice.            *)
ReadExit ==
  /\ pc["reader"] = "read" /\ ~recClosed
  /\ feed # <<>> /\ Head(feed).kind = "system"
  /\ feed' = Tail(feed)
  /\ arrived' = arrived + Head(feed).n
  /\ batch' = NoBatch
  /\ GoEmit(AsFrames(batch) \o <<Frame("system", Numbered(Head(feed).n))>>, FALSE)
  /\ UNCHANGED <<gate, gateState, flow, registry, ipc, front>>

(* A message that arrives after the record was closed ends the task.       *)
ReadClosed ==
  /\ pc["reader"] = "read" /\ recClosed /\ feed # <<>>
  /\ feed' = Tail(feed)
  /\ pc' = [pc EXCEPT !["reader"] = "done"]
  /\ UNCHANGED <<arrived, ready, batch, leaving, gate, gateState, flow, registry, ipc, front>>

\* seeded fault: the tick sends only a full batch
FlushTickFull ==
  /\ pc["reader"] = "read" /\ Len(batch.data) >= BatchBytes
  /\ batch' = NoBatch
  /\ GoEmit(<<batch>>, FALSE)
  /\ UNCHANGED <<feed, arrived, gate, gateState, flow, registry, ipc, front>>

FlushTick ==
  /\ pc["reader"] = "read" /\ batch.data # <<>>
  /\ batch' = NoBatch
  /\ GoEmit(<<batch>>, FALSE)
  /\ UNCHANGED <<feed, arrived, gate, gateState, flow, registry, ipc, front>>

(* The channel ends, with or without an exit status.                       *)
ReadEof ==
  /\ pc["reader"] = "read"
  /\ batch' = NoBatch
  /\ GoEmit(AsFrames(batch), TRUE)
  /\ UNCHANGED <<feed, arrived, gate, gateState, flow, registry, ipc, front>>

(* Before terminal_start output is kept, the oldest frames giving way.     *)
KeepLast(f) ==
  IF Len(f.data) <= MaxPending THEN f
  ELSE Frame(f.kind, SubSeq(f.data, Len(f.data) - MaxPending + 1, Len(f.data)))

PushPending(p, f) ==
  LET kept == KeepLast(f)
      fits == {k \in 0..Len(p) : Payload(SubSeq(p, k + 1, Len(p))) + Len(kept.data) <= MaxPending}
  IN Append(SubSeq(p, Min(fits) + 1, Len(p)), kept)

(* emit_or_buffer_terminal_output under the gate: with a channel the gate  *)
(* stays locked while send_frame waits, otherwise the frame is buffered.   *)
Emit ==
  /\ pc["reader"] = "emit" /\ gate = "free"
  /\ IF channel
     THEN /\ gate' = "reader"
          /\ pc' = [pc EXCEPT !["reader"] = "send"]
          /\ UNCHANGED <<ready, leaving, pending>>
     ELSE /\ pending' = IF streaming THEN pending ELSE PushPending(pending, Head(ready))
          /\ GoEmit(Tail(ready), leaving)
          /\ UNCHANGED gate
  /\ UNCHANGED <<feed, arrived, batch, channel, streaming, startq, flow, registry, ipc, front>>

-----------------------------------------------------------------------------
(* send_frame, called by the reader and by terminal_start.                 *)

NextFrame(t) == IF t = "reader" THEN Head(ready) ELSE Head(startq)

(* The caller of send_frame returns an error: the reader leaves its loop   *)
(* and tries what is still batched once, terminal_start fails.             *)
SendFails(t) ==
  /\ gate' = "free"
  /\ IF t = "reader"
     THEN /\ GoEmit(IF leaving THEN <<>> ELSE AsFrames(batch), TRUE)
          /\ batch' = NoBatch
          /\ UNCHANGED startq
     ELSE /\ pc' = [pc EXCEPT !["start"] = "err"]
          /\ startq' = <<>>
          /\ UNCHANGED <<ready, leaving, batch>>

(* Credit for the payload is taken and counted as sent.                    *)
Acquire(t) ==
  /\ pc[t] = "send" /\ ~flowClosed
  /\ LET n == Len(NextFrame(t).data)
     IN /\ slots >= n
        /\ slots' = slots - n
        /\ sent' = sent + n
  /\ pc' = [pc EXCEPT ![t] = "push"]
  /\ UNCHANGED <<gate, reader, gateState, acked, flowClosed, registry, ipc, front>>

AcquireFails(t) ==
  /\ pc[t] = "send" /\ flowClosed
  /\ SendFails(t)
  /\ UNCHANGED <<feed, arrived, channel, streaming, pending, flow, registry, ipc, front>>

ChannelSend(t) ==
  /\ pc[t] = "push" /\ ipcUp
  /\ wire' = Append(wire, NextFrame(t))
  /\ IF t = "reader"
     THEN /\ gate' = "free"
          /\ GoEmit(Tail(ready), leaving)
          /\ UNCHANGED startq
     ELSE /\ startq' = Tail(startq)
          /\ gate' = IF Tail(startq) = <<>> THEN "free" ELSE "start"
          /\ pc' = [pc EXCEPT !["start"] = IF Tail(startq) = <<>> THEN "ok" ELSE "send"]
          /\ UNCHANGED <<ready, leaving>>
  /\ UNCHANGED <<feed, arrived, batch, channel, streaming, pending, flow, registry,
                 events, ipcUp, front>>

ChannelSendFails(t) ==
  /\ pc[t] = "push" /\ ~ipcUp
  /\ flowClosed' = TRUE
  /\ SendFails(t)
  /\ UNCHANGED <<feed, arrived, channel, streaming, pending, slots, sent, acked, registry,
                 ipc, front>>

-----------------------------------------------------------------------------
(* terminal_start: the record is looked up first, the gate taken later.    *)

StartLookup ==
  /\ pc["start"] = "lookup"
  /\ pc' = [pc EXCEPT !["start"] = IF registered THEN "lock" ELSE "err"]
  /\ UNCHANGED <<gate, reader, gateState, flow, registry, ipc, front>>

StartLock ==
  /\ pc["start"] = "lock" /\ gate = "free"
  /\ channel' = TRUE /\ streaming' = TRUE
  /\ startq' = pending /\ pending' = <<>>
  /\ gate' = IF pending = <<>> THEN "free" ELSE "start"
  /\ pc' = [pc EXCEPT !["start"] = IF pending = <<>> THEN "ok" ELSE "send"]
  /\ UNCHANGED <<reader, flow, registry, ipc, front>>

-----------------------------------------------------------------------------
(* The end of a terminal: whoever removes the record announces it.         *)

(* emit_terminal_closed: the close frame follows the output through the    *)
(* channel; a terminal that never streamed is announced by an event.       *)
Announce(t) ==
  /\ pc[t] = "announce" /\ gate = "free"
  /\ pc' = [pc EXCEPT ![t] = "done"]
  /\ channel' = FALSE
  /\ wire' = IF channel /\ ipcUp THEN Append(wire, CloseFrame) ELSE wire
  /\ events' = IF ~channel /\ ~streaming /\ ipcUp THEN events + 1 ELSE events
  /\ UNCHANGED <<gate, reader, streaming, pending, startq, flow, registry, ipcUp, front>>

(* The reader, having left its loop, removes the record if it still is in  *)
(* the registry.                                                           *)
RemoveRecord ==
  /\ pc["reader"] = "remove"
  /\ registered' = FALSE
  /\ recClosed' = (recClosed \/ registered)
  /\ pc' = [pc EXCEPT !["reader"] = IF registered THEN "announce" ELSE "done"]
  /\ UNCHANGED <<gate, reader, gateState, flow, ipc, front>>

(* terminal_close, or close_children_for_connection, takes the record.     *)
Close ==
  /\ pc["close"] = "idle" /\ registered
  /\ registered' = FALSE
  /\ pc' = [pc EXCEPT !["close"] = "shut"]
  /\ UNCHANGED <<gate, reader, gateState, flow, recClosed, ipc, front>>

\* seeded fault: the flow control stays open when the record is closed
CloseFlowKept ==
  /\ pc["close"] = "shut"
  /\ recClosed' = TRUE
  /\ pc' = [pc EXCEPT !["close"] = "join"]
  /\ UNCHANGED <<gate, reader, gateState, flow, registered, ipc, front>>

CloseFlow ==
  /\ pc["close"] = "shut"
  /\ recClosed' = TRUE
  /\ flowClosed' = TRUE
  /\ pc' = [pc EXCEPT !["close"] = "join"]
  /\ UNCHANGED <<gate, reader, gateState, slots, sent, acked, registered, ipc, front>>

(* abort_and_join_task: the reader stops at an await, never between taking *)
(* credit and sending; an aborted holder gives the gate back.              *)
JoinReader ==
  /\ pc["close"] = "join" /\ pc["reader"] # "push"
  /\ pc' = [pc EXCEPT !["reader"] = "done", !["close"] = "announce"]
  /\ gate' = IF gate = "reader" THEN "free" ELSE gate
  /\ ready' = <<>> /\ batch' = NoBatch
  /\ UNCHANGED <<feed, arrived, leaving, gateState, flow, registry, ipc, front>>

-----------------------------------------------------------------------------
(* The front end.                                                          *)

StartStream ==
  /\ ipcUp /\ pc["start"] = "idle"
  /\ stream' = "open"
  /\ pc' = [pc EXCEPT !["start"] = "lookup"]
  /\ UNCHANGED <<gate, reader, gateState, flow, registry, ipc, xterm, shown, consumed,
                 flushed, timer, acks, rejected, told>>

(* The result of terminal_start; after an error frames are ignored.        *)
StartReply ==
  /\ ipcUp /\ pc["start"] \in {"ok", "err"}
  /\ pc' = [pc EXCEPT !["start"] = IF pc["start"] = "ok" THEN "started" ELSE "refused"]
  /\ stream' = IF pc["start"] = "err" /\ stream = "open" THEN "cut" ELSE stream
  /\ timer' = (timer /\ stream' = "open")
  /\ UNCHANGED <<gate, reader, gateState, flow, registry, ipc, xterm, shown, consumed,
                 flushed, acks, rejected, told>>

(* terminalClosed: the stream ends and the closed handlers run.            *)
TerminalClosed(how) ==
  /\ stream' = IF stream = "open" THEN how ELSE stream
  /\ timer' = FALSE
  /\ told' = told + 1

Receive ==
  /\ ipcUp /\ wire # <<>>
  /\ wire' = Tail(wire)
  /\ IF stream = "open" /\ Head(wire) = CloseFrame
     THEN TerminalClosed("ended") /\ UNCHANGED xterm
     ELSE /\ xterm' = IF stream = "open" THEN Append(xterm, Head(wire)) ELSE xterm
          /\ UNCHANGED <<stream, timer, told>>
  /\ UNCHANGED <<pc, gate, reader, gateState, flow, registry, events, ipcUp, shown, consumed,
                 flushed, acks, rejected>>

ClosedEvent ==
  /\ ipcUp /\ events > 0
  /\ events' = events - 1
  /\ TerminalClosed("cut")
  /\ UNCHANGED <<pc, gate, reader, gateState, flow, registry, wire, ipcUp, xterm, shown,
                 consumed, flushed, acks, rejected>>

(* xterm has parsed a frame: TerminalConsumption.consume.                  *)
Consume ==
  /\ ipcUp /\ xterm # <<>>
  /\ shown' = shown \o Head(xterm).data /\ xterm' = Tail(xterm)
  /\ IF stream = "open"
     THEN LET total == consumed + Len(Head(xterm).data)
          IN /\ consumed' = total
             /\ flushed' = IF total - flushed >= AckBytes THEN total ELSE flushed
             /\ acks' = IF total - flushed >= AckBytes THEN acks \cup {total} ELSE acks
             /\ timer' = (total - flushed < AckBytes)
     ELSE UNCHANGED <<consumed, flushed, acks, timer>>
  /\ UNCHANGED <<pc, gate, reader, gateState, flow, registry, ipc, stream, rejected, told>>

AckTimer ==
  /\ ipcUp /\ timer
  /\ timer' = FALSE
  /\ flushed' = consumed
  /\ acks' = acks \cup {consumed}
  /\ UNCHANGED <<pc, gate, reader, gateState, flow, registry, ipc, stream, xterm, shown,
                 consumed, rejected, told>>

\* seeded fault: the last acknowledgment to arrive wins, whatever its value
AcknowledgeLastWins(c) ==
  /\ c \in acks /\ acks' = acks \ {c}
  /\ acked' = IF registered THEN c ELSE acked
  /\ slots' = IF registered /\ c > acked THEN slots + (c - acked) ELSE slots
  /\ UNCHANGED <<pc, gate, reader, gateState, sent, flowClosed, registry, ipc, stream, xterm,
                 shown, consumed, flushed, timer, rejected, told>>

(* terminal_ack, in any order: the cumulative count returns credit once; a *)
(* terminal that is gone ignores it, one beyond what was sent is an error  *)
(* that ends the stream.                                                   *)
Acknowledge(c) ==
  /\ c \in acks /\ acks' = acks \ {c}
  /\ IF registered /\ c > sent
     THEN /\ rejected' = TRUE
          /\ IF stream = "open" THEN TerminalClosed("cut") ELSE UNCHANGED <<stream, timer, told>>
          /\ UNCHANGED <<slots, acked>>
     ELSE /\ acked' = IF registered /\ c > acked THEN c ELSE acked
          /\ slots' = IF registered /\ c > acked THEN slots + (c - acked) ELSE slots
          /\ UNCHANGED <<stream, timer, told, rejected>>
  /\ UNCHANGED <<pc, gate, reader, gateState, sent, flowClosed, registry, ipc, xterm, shown,
                 consumed, flushed>>

(* The WebView goes away.                                                  *)
IpcFails ==
  /\ IpcMayFail /\ ipcUp
  /\ ipcUp' = FALSE
  /\ UNCHANGED <<pc, gate, reader, gateState, flow, registry, wire, events, front>>

-----------------------------------------------------------------------------
Senders == {"reader", "start"}
Closers == {"reader", "close"}

Next ==
  \/ ReadData \/ ReadExit \/ ReadClosed \/ FlushTick \/ ReadEof \/ Emit \/ RemoveRecord
  \/ \E t \in Senders : Acquire(t) \/ AcquireFails(t) \/ ChannelSend(t) \/ ChannelSendFails(t)
  \/ StartLookup \/ StartLock
  \/ Close \/ CloseFlow \/ JoinReader
  \/ \E t \in Closers : Announce(t)
  \/ StartStream \/ StartReply \/ Receive \/ ClosedEvent \/ Consume \/ AckTimer
  \/ \E c \in acks : Acknowledge(c)
  \/ IpcFails

Spec == Init /\ [][Next]_vars

(* Tasks run on and the async mutex is first come, first served; the front *)
(* end handles what reaches it, xterm parses, timers fire and commands are *)
(* executed.  Nothing makes the server send, the channel end or the user   *)
(* close the terminal, except that a refused start is followed by a close. *)
Fairness ==
  /\ SF_vars(Emit) /\ SF_vars(StartLock) /\ SF_vars(JoinReader)
  /\ \A t \in Closers : SF_vars(Announce(t))
  /\ WF_vars(FlushTick) /\ WF_vars(RemoveRecord) /\ WF_vars(CloseFlow)
  /\ \A t \in Senders : /\ WF_vars(Acquire(t)) /\ WF_vars(AcquireFails(t))
                        /\ WF_vars(ChannelSend(t)) /\ WF_vars(ChannelSendFails(t))
  /\ WF_vars(StartLookup) /\ WF_vars(StartStream) /\ WF_vars(StartReply)
  /\ WF_vars(Receive) /\ WF_vars(ClosedEvent) /\ WF_vars(Consume) /\ WF_vars(AckTimer)
  /\ WF_vars(\E c \in acks : Acknowledge(c))
  /\ WF_vars(pc["start"] = "refused" /\ Close)

FairSpec == Spec /\ Fairness

-----------------------------------------------------------------------------
(* Properties.                                                             *)

(* The flow control of the running terminal implements TerminalCredit:    *)
(* whatever the tasks do with the gate, in whatever order terminal_ack     *)
(* runs and wherever a task fails or is aborted, credit is spent and       *)
(* returned as TerminalCredit says, so none leaks and none is invented.    *)
Credit == INSTANCE TerminalCredit
            WITH Capacity <- Capacity, BatchBytes <- BatchBytes, slots <- slots, sent <- sent,
                 acked <- acked, consumed <- consumed, acks <- acks
ImplementsCredit == Credit!Spec

(* Output is never lost, duplicated or reordered between the SSH channel   *)
(* and the screen: what is shown, in flight, buffered and batched is the   *)
(* gapless tail of what arrived, and bytes are missing at its front only   *)
(* when the startup buffer overflowed.  A closed terminal and a WebView    *)
(* that went away are excepted.                                            *)
InTransit ==
  shown \o Bytes(xterm) \o Bytes(wire) \o Bytes(startq) \o Bytes(pending) \o Bytes(ready)
    \o batch.data
OutputConserved ==
  ~flowClosed /\ ipcUp /\ stream # "cut" =>
    /\ \A i \in DOMAIN InTransit : InTransit[i] = arrived - Len(InTransit) + i
    /\ Len(InTransit) = arrived \/ Len(InTransit) > MaxPending - BatchBytes

(* The close frame is the last frame of the channel, and the front end     *)
(* runs its closed handlers at most once.                                  *)
AtMostOnce ==
  /\ \A i \in DOMAIN wire : wire[i] = CloseFrame => i = Len(wire)
  /\ told + events + Cardinality({i \in DOMAIN wire : wire[i] = CloseFrame /\ stream = "open"}) <= 1

(* What terminal_start still has to release fits into the credit at hand.  *)
CreditSuffices == Payload(pending) + Payload(startq) <= slots

(* The end of a terminal is announced exactly once.  Never twice: the      *)
(* reader's end, a close command and the cleanup of the connection do not  *)
(* each announce it.  And once the record of a terminal is gone the front  *)
(* end learns of it, by the close frame, the event or the error of         *)
(* terminal_start: closing a terminal wakes a sender that waits for credit *)
(* with the gate locked.  A reader that ends while terminal_start still    *)
(* needs acknowledgments is the exception (see LateAcksHarmless).          *)
CloseAnnounced ==
  /\ []AtMostOnce
  /\ (~registered /\ (CreditSuffices \/ pc["close"] # "idle"))
       ~> (told > 0 \/ pc["start"] = "refused" \/ ~ipcUp)

(* Output that arrived is eventually on the screen while the terminal      *)
(* lives: no frame stays behind in the batch, the startup buffer or a      *)
(* sender waiting for credit.  Bytes an overflow of the startup buffer     *)
(* dropped are excepted (see OutputConserved).                             *)
OutputShown ==
  \A b \in 1..MaxPending :
    arrived = b ~> (Contains(shown, b) \/ b \notin Range(InTransit) \/ ~registered \/ ~ipcUp)

(* "Late acknowledgments after EOF/close are harmless"                     *)
(* (runtime_terminal.rs:348): also when the reader ends, the front end     *)
(* learns that the terminal is gone.                                       *)
LateAcksHarmless ==
  ~registered ~> (told > 0 \/ pc["start"] = "refused" \/ ~ipcUp)
=============================================================================
