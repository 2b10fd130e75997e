SPECIFICATION FairSpec
CONSTANTS
  Tokens = {t1}
  Owners = {o1, o2}
  Collections = {c1}
  Of <- OneCollection
  NoAddress = NoAddress
  Workers = {w1, w2, w3}
  MaxBlocks = 2
  MaxEvents <- TwoTwo
  Rescanners = {w3}
  Foreign = {o2}
  MayFail = {}
  ReadsHead = {t1}
CHECK_DEADLOCK FALSE
INVARIANTS RowsComeFromChain CountsNeverHigh
PROPERTIES BlockEnds
