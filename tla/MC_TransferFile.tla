--------------------------- MODULE MC_TransferFile ---------------------------
(* Two attempts at one transfer of a file of three blocks, by two parts of  *)
(* different length or by one.                                              *)
EXTENDS TransferFile, TLC

CONSTANTS first, second

Symmetry == Permutations({first, second})

\* forgets what no action and no property reads any more: the locals of a task that is
\* past them, blocks on their way to a file that was removed, files of an older source
\* that nobody copies, and of the target all but whether it is intact
View ==
  LET Running(a) == pc[a] \in Live
      Writing(a) == pc[a] = "copy" \/ (Attached(a) /\ \E i \in AllParts : flight[a][i] # <<>>)
      Read(v) == v = ver \/ \E a \in Attempts : want[a] = v /\ Running(a)
      Until(a, steps, value) == IF pc[a] \in steps THEN value ELSE 0
      early == {"prepare", "open", "copy"}
  IN <<upload, large /\ \E a \in Attempts : status[a] = "none", ver,
       [v \in Versions |-> IF Read(v) THEN <<staging[v], v \in there, torn[v]>> ELSE <<>>],
       Intact, IF Intact THEN {} ELSE spoiled,
       [a \in Attempts |->
          <<status[a], pc[a], want[a],
            Until(a, {"prepare"}, resume[a]), Until(a, Live, parts[a]),
            Until(a, {"open", "copy"}, base[a]), Until(a, early, cancel[a]),
            Until(a, {"copy"}, <<done[a], lost[a], broken[a]>>),
            IF Writing(a) THEN <<Attached(a), flight[a]>> ELSE <<>> >>],
       joining, faults>>
=============================================================================
