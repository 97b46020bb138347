------------------------------ MODULE MCGoLive ------------------------------
(* Model checking instances of GoLive.                                     *)
EXTENDS GoLive, TLC

(* Run ids, datasets and the rules other than ReconRule are interchangeable. *)
Symmetry ==
  Permutations(Runs) \union Permutations(Datasets)
    \union Permutations(Rules \ {ReconRule})

(* Clean data: nothing but the pointer is at stake.                        *)
CleanInit == Init /\ \A d \in Datasets, v \in Rules : verdicts[d][v] = "pass"

CleanFairSpec == CleanInit /\ [][Next]_vars /\ Fairness
=============================================================================
