------------------------------ MODULE MCRelay ------------------------------
(* Instances of Relay for TLC. *)
EXTENDS Relay, TLC

Symmetry == Permutations(Agents) \union Permutations(Tasks)
              \union Permutations(Inputs) \union Permutations(Results)
=============================================================================
