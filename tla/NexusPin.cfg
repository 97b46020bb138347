SPECIFICATION Spec
CONSTANTS
  Null = Null
  Matches = {m1, m2}
  Views = {"standard"}
  Requests = {h1}
  Numbers = {1}
  FirstSpawn = 1
  Respawn = 1
  Replayed = replayed
  Recording <- Replay
  MaxTime = 0
  MaxKills = 0
  MaxFaults = 1
  MaxRequests = 2
  MaxRestarts = 1
INVARIANTS
  OneLateTick
PROPERTY PinTakesEffect
