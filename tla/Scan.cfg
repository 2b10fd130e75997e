SPECIFICATION Spec
CONSTANTS
  MaxBlock = 4
  Chains <- LongChains
  BufferLimit = 2
  Rescans <- NoRescans
  RescanMode = FALSE
  From = 0
  To = 0
  MaxRescans = 0
  MaxRestarts = 1
  MayFail = TRUE
  Scan = Scan
  r1 = r1
  r2 = r2
CHECK_DEADLOCK FALSE
INVARIANTS TypeOK HeightSound BufferBound SpecAccurate
PROPERTIES WatermarkSpec
