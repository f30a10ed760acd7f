CONSTANTS
  None = None
  Torn = Torn
  Devices = {1, 2}
  Links = {l1}
  Files = {f1}
  Modes <- Both
  MaxChanges = 2
  MaxFaults = 1
SPECIFICATION Spec
INVARIANTS LinksSurvive BlobsAreWhole Converged
CHECK_DEADLOCK FALSE
