SPECIFICATION Spec
CONSTANTS
  Null = Null
  Rules = {r1}
  Handlers = {h1, h2}
  Webhooks <- Bodies
  LastSecond = 1
  MaxPosts = 2
  MaxFaults = 2
INVARIANTS
  SingleFlight
  EvidenceBeforeAgent
PROPERTIES
  StrandedByFault
  LockComesFree
CHECK_DEADLOCK FALSE
