------------------------------ MODULE MCPoller ------------------------------
EXTENDS Poller, TLC

(* A recorded game: its first frames, one without teams, a kill, its end.  *)
Frame(ts, kills, spawn, lacks) ==
  [ts |-> ts, kills |-> kills, start |-> 0, spawn |-> spawn, lacks |-> lacks]

Replay == <<Frame(0, 0, 2, "nothing"), Frame(1, 0, 2, "teams"),
            Frame(2, 0, 2, "side"), Frame(3, 1, 4, "nothing"),
            Frame(3, 1, 4, "timestamp"), Frame(4, 2, 6, "nothing"),
            Frame(5, 2, 6, "nothing")>>
Symmetry == Permutations(Matches)
=============================================================================
