-------------------------- MODULE MC_TransferQueue --------------------------
(* TransferQueue with two transfers, the first of which uses every slot.   *)
EXTENDS TransferQueue, TLC

CONSTANTS t1, t2

SamePath == t1 :> "p" @@ t2 :> "p"
TwoPaths == t1 :> "p" @@ t2 :> "q"
Widths == t1 :> 2 @@ t2 :> 1

(* Two transfers that compete for the slots; starts and retries on one     *)
(* path, with failing history writes and a crash.                          *)
Competing ==
  [path |-> TwoPaths, uses |-> {"pause", "cancel", "remove", "close", "progress"},
   history |-> 1, sessions |-> 1, crashes |-> 0]
Repeated ==
  [path |-> SamePath, uses |-> {"cancel", "remove", "retry", "error"},
   history |-> 2, sessions |-> 2, crashes |-> 1]
PausedOrCanceled ==
  [path |-> TwoPaths, uses |-> {"pause", "cancel"}, history |-> 0, sessions |-> 1, crashes |-> 0]
MCScenarios == {Competing, Repeated}
MCLive == {PausedOrCanceled}

TaskOver(i) == pc[Task(i)] = "done"
Over(i) == TaskOver(i) /\ pc[Start(i)] = "done"

(* States that differ only in what nothing will read again are one state:  *)
(* the flags of a task that is past looking at them, the session of a      *)
(* record that is gone.                                                    *)
LiveView ==
  <<scenario, rec, recent, pc, target, held, queue, session, live, todo, disk, loaded, crashes,
    {i \in Ids : started[i] /\ rec[i] \in Active},
    {i \in Ids : paused[i] /\ ~cancel[i] /\ ~TaskOver(i)},
    {i \in Ids : cancel[i] /\ ~TaskOver(i)},
    {i \in Ids : notified[i] /\ pc[Task(i)] \in {"gate", "check", "parked", "select", "granted"}},
    [i \in Ids |-> IF Over(i) /\ rec[i] = "none" THEN 0 ELSE sess[i]],
    [i \in Ids |-> IF Over(i) THEN NoId ELSE retryOf[i]]>>

=============================================================================
