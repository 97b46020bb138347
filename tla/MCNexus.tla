------------------------------ MODULE MCNexus -------------------------------
EXTENDS Nexus

(* Two frames of a recorded game, the second without teams.                *)
Replay ==
  <<[ts |-> 0, kills |-> 0, start |-> 0, spawn |-> 1, lacks |-> "nothing"],
    [ts |-> 0, kills |-> 0, start |-> 0, spawn |-> 1, lacks |-> "teams"]>>
=============================================================================
