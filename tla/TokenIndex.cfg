SPECIFICATION Spec
CONSTANTS
  Tokens = {t1, t2}
  Owners = {o1, o2, o3}
  Collections = {c1}
  Of <- OneCollection
  NoAddress = NoAddress
  Workers = {w1, w2}
  MaxBlocks = 2
  MaxEvents <- TwoThree
  Rescanners = {}
  Foreign = {o2}
  MayFail = {t1}
  ReadsHead = {t2}
CHECK_DEADLOCK FALSE
SYMMETRY Symmetry
INVARIANTS TokensFollowChain OwnersFollowChain CountersExact
