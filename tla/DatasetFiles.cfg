SPECIFICATION Spec
CONSTANTS
  d1 = d1
  d2 = d2
  Null = Null
  None = None
  Datasets = {d1, d2}
  Contents <- Bundles
  Source <- Clone
  MaxBytes = 3
  MaxUploads = 2
  MaxFaults = 1
  Names = {n1, n2}
  Keys = {k1, k2}
  MaxChanges = 3
  MaxScaleFaults = 2
INVARIANTS DiskBounded MeasuredByOne
PROPERTIES ReadersKeepFiles EventuallyServed EventuallyMeasured
