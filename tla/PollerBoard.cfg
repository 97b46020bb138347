SPECIFICATION PollSpec
CONSTANTS
  Null = Null
  Matches = {m1, m2}
  Numbers = {1}
  FirstSpawn = 2
  Respawn = 2
  Replayed = replayed
  Recording <- Replay
  MaxTime = 3
  MaxKills = 1
  MaxFaults = 2
SYMMETRY Symmetry
INVARIANTS
  StaleIffFailing
  TimerNeverEarly
