CONSTANTS
  Datasets = {d1}
  Threads = {j1, j2}
  None = None
  MaxPublications = 2
  Slow = TRUE
  MaxFaults = 1
SPECIFICATION FairSpec
INVARIANT MarksAreOwned
PROPERTIES RowNeverGoesBack BuildingEnds
