CONSTANTS
  Datasets = {d1}
  Threads = {j1, j2}
  None = None
  MaxPublications = 2
  Slow = FALSE
  MaxFaults = 0
SPECIFICATION Spec
INVARIANT CacheIsFresh
