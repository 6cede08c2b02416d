SPECIFICATION Spec
CONSTANTS
  None = None
  Vendors = {"securosys", "dev", "other"}
  Keys = {k1, k2, k3}
  MaxSize = 3
  MaxRuns = 2
CHECK_DEADLOCK FALSE
INVARIANT PassedIsThresholdSpend
