--------------------------- MODULE TerminalCredit ---------------------------
(***************************************************************************)
(* What the flow control of a terminal promises (TerminalFlowControl in    *)
(* terminal_stream.rs and TerminalConsumption in terminalFrame.ts), apart  *)
(* from gates, tasks and frames: a sender spends credit, the consumer      *)
(* counts what it has processed, and cumulative acknowledgments that may   *)
(* overtake each other, or be ignored, bring the credit back.              *)
(* TerminalFlow is shown to implement this specification.                  *)
(***************************************************************************)
EXTENDS Naturals

CONSTANTS
  Capacity,    \* TERMINAL_IN_FLIGHT_BYTES
  BatchBytes   \* the largest payload of a frame

VARIABLES
  slots,     \* available permits
  sent,      \* bytes handed to the channel so far
  acked,     \* the highest acknowledgment so far
  consumed,  \* bytes the consumer has processed
  acks       \* acknowledgments on their way

creditVars == <<slots, sent, acked, consumed, acks>>

Init == slots = Capacity /\ sent = 0 /\ acked = 0 /\ consumed = 0 /\ acks = {}

(* A frame of n bytes is sent against n units of credit.                   *)
Send(n) ==
  /\ slots >= n
  /\ slots' = slots - n
  /\ sent' = sent + n
  /\ UNCHANGED <<acked, consumed, acks>>

(* The consumer has processed n more bytes, and may say so at once.        *)
Process(n) ==
  /\ consumed + n <= sent
  /\ consumed' = consumed + n
  /\ \/ acks' = acks
     \/ acks' = acks \cup {consumed'}
  /\ UNCHANGED <<slots, sent, acked>>

Announce ==
  /\ acks' = acks \cup {consumed}
  /\ UNCHANGED <<slots, sent, acked, consumed>>

(* An acknowledgment arrives: only what exceeds the highest so far counts. *)
Return(c) ==
  /\ acked' = IF c > acked THEN c ELSE acked
  /\ slots' = IF c > acked THEN slots + (c - acked) ELSE slots
  /\ acks' = acks \ {c}
  /\ UNCHANGED <<sent, consumed>>

(* An acknowledgment finds the terminal gone.                              *)
Ignore(c) ==
  /\ acks' = acks \ {c}
  /\ UNCHANGED <<slots, sent, acked, consumed>>

Next ==
  \/ \E n \in 1..BatchBytes : Send(n) \/ Process(n)
  \/ Announce
  \/ \E c \in acks : Return(c) \/ Ignore(c)

Spec == Init /\ [][Next]_creditVars

-----------------------------------------------------------------------------
(* No credit leaks and none is invented: what the semaphore holds and what *)
(* was sent but not acknowledged add up to the capacity, in whatever order *)
(* acknowledge runs.                                                       *)
CreditConserved ==
  /\ slots \in Nat /\ sent \in Nat /\ acked \in Nat
  /\ acked <= sent /\ slots + (sent - acked) = Capacity

(* The consumer never has more than the capacity before it: bytes sent and *)
(* not yet processed are bounded, however slow it is.                      *)
BacklogBounded == sent - consumed <= Capacity
=============================================================================
