--------------------------- MODULE MC_ExecCommand ---------------------------
(* A job and a plain command on one connection. *)
EXTENDS ExecCommand

CONSTANTS job, plain

\* two silent commands share the pool and the probe, or one command writes
MCLoads ==
  {[c \in {job, plain} |-> 0]} \cup
  {[c \in {job, plain} |-> IF c = who THEN 3 ELSE None] : who \in {job, plain}}
=============================================================================
