SPECIFICATION Spec
CONSTANTS
  MaxBlock = 3
  Chains <- MixedChains
  BufferLimit = 2
  Rescans <- TwoRescans
  RescanMode = TRUE
  From = 0
  To = 3
  MaxRescans = 2
  MaxRestarts = 0
  MayFail = FALSE
  Scan = Scan
  r1 = r1
  r2 = r2
SYMMETRY Symmetry
CHECK_DEADLOCK FALSE
INVARIANTS HeightCovered RescanAccounted
PROPERTIES HeightNeverBack
