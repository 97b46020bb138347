SPECIFICATION Spec
CONSTANTS
  Runs = {r1}
  Null = Null
  Dataset = d1
  MaxThreads = 8
  MaxFaults = 1
  MaxRequests = 1
  Window = 2
  OrphanLimit = 2
  Flaws = {}
INVARIANTS
  AlertOncePerWindow
  FinishedIsExplained
  ToldOnce
PROPERTIES
  
  AuditHeals
