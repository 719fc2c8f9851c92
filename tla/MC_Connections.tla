--------------------------- MODULE MC_Connections ---------------------------
(* Two connects of one session and two children of any kind.               *)
EXTENDS Connections, Discipline, TLC

CONSTANTS c1, c2, k1, k2

Alike == Permutations({c1, c2}) \cup Permutations({k1, k2})

(* What no action and no property reads any more is not told apart.        *)
Ended(k) == kid[k] \in {"idle", "over"} /\ reader[k] \in {"none", "gone"}
LiveView ==
  << cpc, fresh = {}, fresh \cap {c \in Conns : cpc[c] = "session"},
     [c \in Conns |-> IF cpc[c] \in {"stale", "evict"} THEN stale[c] ELSE None],
     reg, {c \in dead : stage[c] # "over"}, stage, told, [c \in Conns |-> IF stage[c] = "over" THEN None ELSE owner[c]],
     kid, [k \in Kids |-> IF Ended(k) THEN <<>> ELSE <<kind[k], parent[k], reader[k]>>],
     victims, shut, list >>
=============================================================================
