SPECIFICATION FairSpec
CONSTANTS
  Handlers <- TwoHandlers
  MaxBlock = 2
  Payloads <- Both
  PageSizes = {1, 2}
  BlockLists <- SomeLists
  Collections <- TwoCollections
  MaxBatches = 1
  PoolSize = 5
  MayFail = TRUE
  h1 = h1
  h2 = h2
CHECK_DEADLOCK FALSE
INVARIANTS TypeOK FastRescanComplete PoolAlive ActiveIsRunning StopHeeded
PROPERTIES CollectionsEnd
