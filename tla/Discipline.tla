----------------------------- MODULE Discipline -----------------------------
(***************************************************************************)
(* What is known at each step of each program of Programs, computed from   *)
(* the programs alone: the locks its process surely has and may have asked *)
(* for, and the facts that earlier steps established and the locks since   *)
(* held protect.  The rules every step must keep to are what the locks and *)
(* checks of commands/ and api_server/ are there for; that all programs do *)
(* is an assumption about constants, evaluated by TLC, and the proofs      *)
(* about Operations rest on nothing else of the programs.                  *)
(***************************************************************************)
EXTENDS Programs, SequencesExt

(* Facts about the state while a process is at a step.  A debt is a fact   *)
(* of every process that owes nothing: the state is as it should be, as    *)
(* far as this process is concerned.                                       *)
Debts ==
  {"clean",       \* it has left no forward of a tunnel that is gone
   "current",     \* it has left no connection of Target with an old version
   "currentAll",  \* nor one of another session
   "checked",     \* the automation connection it made was compared with the vault
   "settled"}     \* a server it took out of its slot is shut down or back
Facts ==
  Debts \cup
  {"cancelled",   \* the automatic start is cancelled
   "unstopped",   \* no stop has returned yet
   "planned",     \* the records of its plan have their files
   "doomed",      \* the files it may remove have no record
   "noForwards",  \* there are no forwards
   "exclusive",   \* its request for the gate is a writer's
   "built",       \* what it built is what the vault holds
   "noConns",     \* there are no connections
   "taken",       \* it has the server that ran, if one ran
   "drained"}     \* the server is closed and no handler runs

\* the lock without which a fact may change behind the back of its process
Guard ==
  [unstopped |-> "apiOp", planned |-> "backup", doomed |-> "backup", noForwards |-> "tunnel",
   exclusive |-> "gate", built |-> "gate", noConns |-> "gate", taken |-> "apiOp", drained |-> "apiOp"]

Edits ==
  {"other", "key", "session", "delete", "trust", "proxy", "allow", "tunnelCreate", "tunnelUpdate",
   "tunnelDelete", "enabled", "disable", "retention", "records", "recordDelete", "recordsClear", "import"}

-----------------------------------------------------------------------------
(* What a step changes.                                                    *)

Is(i, what, arg) == i[1] = what /\ i[2] = arg
Asks(i) == i[1] \in {"lock", "read"}

MayFail(i) ==
  i[1] \in Checks \cup
    {"fresh", "edit", "build", "connect", "valid", "stillAllowed", "stillAllowedForward", "use",
     "open", "forward", "stopForwards", "forwardStop", "start", "restart", "reply", "writeBackup",
     "normalized", "wantsStart"}

LocksAfter(i, ls) ==
  IF Asks(i) THEN ls \cup {i[2]} ELSE IF i[1] = "drop" THEN ls \ i[2] ELSE ls

Loses(i, f) ==
  \/ i[1] = "edit" /\ i[2] \in {"session", "delete", "proxy", "import"} /\ f = "built"
  \/ Is(i, "edit", "session") /\ f = "current"
  \/ Is(i, "edit", "delete") /\ f \in {"clean", "current"}
  \/ Is(i, "edit", "proxy") /\ f \in {"current", "currentAll"}
  \/ i[1] = "removeFiles" /\ f = "planned"
  \/ i[1] = "forward" /\ f = "noForwards"
  \/ i[1] = "connect" /\ f = "noConns"
  \/ Is(i, "connect", "automation") /\ f = "checked"
  \/ i[1] \in {"stopReturns", "shutdownDone"} /\ f = "unstopped"
  \/ i[1] = "take" /\ f = "settled"
  \/ i[1] = "restart" /\ f \in {"settled", "drained", "taken"}
  \/ i[1] = "start" /\ f \in {"drained", "taken"}

Gains(i, f) ==
  \/ i[1] = "cancelStartup" /\ f = "cancelled"
  \/ i[1] = "notCancelled" /\ f = "unstopped"
  \/ i[1] = "plan" /\ f = "planned"
  \/ i[1] = "edit" /\ f = "doomed"
  \/ Is(i, "stopForwards", "any") /\ f = "noForwards"
  \/ i[1] = "closeAll" /\ f \in {"noForwards", "noConns", "clean", "current", "currentAll"}
  \/ i[1] = "closeSession" /\ f \in {"clean", "current"}
  \/ Is(i, "lock", "gate") /\ f = "exclusive"
  \/ i[1] = "build" /\ f = "built"
  \/ Is(i, "valid", "automation") /\ f = "checked"
  \/ i[1] = "take" /\ f = "taken"
  \/ i[1] = "drain" /\ f \in {"settled", "drained"}
  \/ i[1] = "install" /\ f = "settled"

\* what a condition that does not hold tells
GainsSkipped(cond, f) ==
  \/ cond = "changed" /\ f \in {"current", "currentAll"}
  \/ cond = "hadHandle" /\ f = "settled"

\* a fact is kept only under its lock
Kept(k) ==
  [k EXCEPT !.facts = {f \in @ : /\ f \in DOMAIN Guard => Guard[f] \in k.has
                                 /\ f = "noConns" => {"drained", "exclusive"} \subseteq k.facts}]

After(i, k) ==
  Kept([has |-> LocksAfter(i, k.has), may |-> LocksAfter(i, k.may),
        facts |-> {f \in Facts : Gains(i, f) \/ (f \in k.facts /\ ~Loses(i, f))}])
AfterSkip(i, k) ==
  [k EXCEPT !.facts = {f \in Facts : f \in @ \/ GainsSkipped(i[2][1], f)}]
AfterFailure(keep, k) == [has |-> k.has \cap keep, may |-> k.may \cap keep, facts |-> Debts]

-----------------------------------------------------------------------------
(* What is known before each step: the tables are filled in the order of   *)
(* the steps, since programs only jump forward, or back to their start.    *)

Beginning == [has |-> {}, may |-> {}, facts |-> Debts]
Unreached == [has |-> Locks, may |-> {}, facts |-> Facts]
Meet(k, m) == [has |-> k.has \cap m.has, may |-> k.may \cup m.may, facts |-> k.facts \cap m.facts]

\* where the step at pc may lead, with what is known there
Ways(prog, pc, k) ==
  LET i == prog[pc] c == CatcherOf(prog, pc) IN
  (CASE i[1] = "unless" -> {<<pc + 1, After(i, k)>>, <<pc + 1 + i[2][2], AfterSkip(i, k)>>}
     [] i[1] = "catch" -> {<<pc + 1 + i[2][3], k>>}
     [] i[1] = "again" -> {<<pc + 1, k>>, <<1, k>>}
     [] OTHER -> {<<pc + 1, After(i, k)>>})
  \cup (IF MayFail(i) /\ c <= Len(prog) THEN {<<c + 1, AfterFailure(prog[c][2][1], k)>>} ELSE {})

Push(prog, table, pc) ==
  LET ways == Ways(prog, pc, table[pc]) IN
  [n \in DOMAIN table |->
     FoldLeft(Meet, table[n], SetToSeq({w[2] : w \in {x \in ways : x[1] = n}}))]

Outline(prog) ==
  FoldLeft(LAMBDA table, pc : Push(prog, table, pc),
           [n \in 1..(Len(prog) + 1) |-> IF n = 1 THEN Beginning ELSE Unreached],
           [n \in 1..Len(prog) |-> n])

Outlines == [op \in DOMAIN Programs |-> Outline(Program(op))]
KnownAt(op, pc) == Outlines[op][pc]

-----------------------------------------------------------------------------
(* The rules.                                                              *)

\* the locks that are certainly granted, whether or not the process waits
Held(op, pc) ==
  IF pc > 1 /\ Asks(Program(op)[pc - 1]) THEN KnownAt(op, pc).has \ {Program(op)[pc - 1][2]}
  ELSE KnownAt(op, pc).has

\* what is known before a step is not more than what is known after the one before
Follows(k, op, n) ==
  /\ n \in 1..(Len(Program(op)) + 1)
  /\ KnownAt(op, n).has \subseteq k.has
  /\ k.may \subseteq KnownAt(op, n).may
  /\ KnownAt(op, n).facts \subseteq k.facts

FlowKept(op, pc) ==
  LET i == Program(op)[pc] k == KnownAt(op, pc) c == CatcherOf(Program(op), pc) IN
  /\ i[1] # "catch" => Follows(After(i, k), op, pc + 1)
  /\ i[1] = "catch" => i[2][3] \in Nat /\ Follows(k, op, pc + 1 + i[2][3])
  /\ i[1] = "unless" => i[2][2] \in Nat /\ Follows(AfterSkip(i, k), op, pc + 1 + i[2][2])
  /\ i[1] = "again" => k.may = {} /\ Debts \subseteq k.facts
  /\ MayFail(i) => /\ c \in (pc + 1)..(Len(Program(op)) + 1)
                   /\ c <= Len(Program(op)) =>
                        /\ Program(op)[c][1] = "catch"
                        /\ Follows(AfterFailure(Program(op)[c][2][1], k), op, c + 1)

\* the locks that may be asked for while one is held
Below ==
  [apiOp |-> {"server", "backup", "tunnel", "gate", "mutation"}, server |-> {"mutation"},
   backup |-> {"tunnel", "gate", "mutation"}, tunnel |-> {"gate", "mutation", "server"},
   gate |-> {"mutation", "server"}, mutation |-> {"server"}]

\* no lock is asked for twice; the order of the locks is kept, and where it is not, the
\* server under the mutation lock and the other way round, apiOp is held as well
LocksOrdered(op, pc) ==
  LET i == Program(op)[pc] k == KnownAt(op, pc) IN
  /\ Asks(i) => /\ i[2] \in Locks \ k.may /\ (i[1] = "read" => i[2] = "gate")
                /\ \A l \in k.may : /\ i[2] \in Below[l]
                                    /\ l \in {"server", "mutation"} => "apiOp" \in k.has
                /\ IsRest(op) => i[2] \in {"backup", "tunnel", "gate", "mutation"}
  /\ i[1] = "drain" => k.may \subseteq {"apiOp"}

\* whoever owes something neither fails, is dropped, ends nor releases its lock
DebtsPaid(op, pc) ==
  LET i == Program(op)[pc] k == KnownAt(op, pc) IN
  /\ ~({"clean", "current", "currentAll", "settled"} \subseteq k.facts) => ~MayFail(i) /\ ~IsRest(op)
  /\ "checked" \notin k.facts => /\ i[1] = "stillAllowed" \/ Is(i, "valid", "automation")
                                /\ pc > 1 /\ ~Asks(Program(op)[pc - 1])
  /\ "clean" \notin k.facts => "tunnel" \in Held(op, pc)
  /\ "settled" \notin k.facts => "apiOp" \in Held(op, pc)

\* what a step relies on; what is left of a dropped handler (LateOps) relies on nothing
StepsFounded(op, pc) ==
  LET i == Program(op)[pc] k == KnownAt(op, pc) IN
  /\ i[1] \in {"start", "restart"} /\ op = "spawn_api_server_autostart" => "unstopped" \in k.facts
  /\ i[1] \in {"stopReturns", "shutdownDone"} => "cancelled" \in k.facts /\ "apiOp" \in k.has
  /\ i[1] = "edit" => i[2] \in Edits
  /\ Is(i, "edit", "records") => "planned" \in k.facts \/ op = "records"
  /\ i[1] = "writeBackup" => "planned" \in k.facts \/ op = "writeBackup"
  /\ i[1] = "removeFiles" => "doomed" \in k.facts \/ op = "removeFiles"
  /\ i[1] = "forward" => "tunnel" \in k.has
  /\ i[1] = "edit" /\ i[2] \in {"tunnelUpdate", "tunnelDelete", "import"} =>
       "noForwards" \in k.facts \/ op \in {"tunnelUpdate", "tunnelDelete"}
  /\ i[1] = "edit" /\ i[2] \in {"tunnelCreate", "delete"} => "tunnel" \in k.has \/ op = "tunnelCreate"
  /\ i[1] = "edit" /\ i[2] \in {"session", "delete", "proxy", "import"} =>
       "exclusive" \in k.facts /\ "gate" \in k.has
  /\ Is(i, "edit", "import") => "noConns" \in k.facts
  /\ i[1] = "connect" => "built" \in k.facts \/ (i[2] = "automation" /\ IsRest(op))
  /\ i[1] \in {"take", "start", "restart"} => "apiOp" \in k.has /\ "settled" \in k.facts
  /\ i[1] = "drain" \/ (i[1] = "unless" /\ i[2][1] = "hadHandle") => "taken" \in k.facts

FactsGuarded(op, pc) ==
  LET k == KnownAt(op, pc) IN
  /\ \A f \in k.facts : f \in DOMAIN Guard /\ f # "exclusive" => Guard[f] \in Held(op, pc)
  /\ "exclusive" \in k.facts => "gate" \in k.has
  /\ "noConns" \in k.facts => {"drained", "exclusive"} \subseteq k.facts

Disciplined(op) ==
  LET n == Len(Program(op)) IN
  /\ n \in Nat
  /\ KnownAt(op, 1) = Beginning
  /\ Debts \subseteq KnownAt(op, n + 1).facts
  /\ \A pc \in 1..n : /\ FlowKept(op, pc) /\ LocksOrdered(op, pc) /\ DebtsPaid(op, pc)
                       /\ StepsFounded(op, pc)
  /\ \A pc \in 1..(n + 1) : KnownAt(op, pc).may \subseteq Locks /\ FactsGuarded(op, pc)

ASSUME DisciplineAssumption == \A op \in DOMAIN Programs : Disciplined(op)
=============================================================================
