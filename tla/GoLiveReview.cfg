SPECIFICATION Spec
CONSTANTS
  None = None
  ReconRule = recon
  Runs = {r1, r2}
  Datasets = {d1}
  Rules = {v1, recon}
  MaxFaults = 0
  Overrun = FALSE
SYMMETRY Symmetry
INVARIANT PublishedIsSettled
INVARIANT RecordsMatchDecisions
PROPERTY DecisionStands
