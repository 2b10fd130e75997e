SPECIFICATION Spec
CONSTANTS
  Tokens = {t1, t2}
  Owners = {o1, o2}
  Collections = {c1}
  Of <- OneCollection
  NoAddress = NoAddress
  Workers = {w1, w2}
  MaxBlocks = 1
  MaxEvents <- Three
  Rescanners = {}
  Foreign = {o2}
  MayFail = {}
  ReadsHead = {}
CHECK_DEADLOCK FALSE
SYMMETRY Symmetry
INVARIANTS HoldersExact
