SPECIFICATION FairSpec

CONSTANTS
  t1 = t1
  t2 = t2
  t3 = t3
  t4 = t4
  t5 = t5
  Tokens = {t1, t2, t3, t4, t5}
  NoToken = NoToken
  Starts <- Forests
  MaxFaults = 1

INVARIANTS
  ChildrenWereNested
  ParentsFollowChain
  StatsCountChildren
  BurnedLeavesParents

PROPERTIES
  BatchEnds

CHECK_DEADLOCK FALSE
