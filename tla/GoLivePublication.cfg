SPECIFICATION CleanFairSpec
CONSTANTS
  None = None
  ReconRule = recon
  Runs = {r1, r2}
  Datasets = {d1}
  Rules = {recon}
  MaxFaults = 1
  Overrun = TRUE
INVARIANTS OnePublished PublishedIsApproved
PROPERTY RunSettles
