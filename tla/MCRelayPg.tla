----------------------------- MODULE MCRelayPg -----------------------------
(* Instances of RelayPg for TLC. *)
EXTENDS RelayPg, TLC

Symmetry == Permutations(Conns)
=============================================================================
