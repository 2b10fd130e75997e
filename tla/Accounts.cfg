SPECIFICATION FairSpec
CONSTANTS
  Holders = {a, b}
  Names <- AnyThenTransfer
  Balances <- SomeBalances
  Modes = {TRUE, FALSE}
  MaxBlocks = 2
  MaxFaults = 1
CHECK_DEADLOCK FALSE
INVARIANTS HoldersNeverLow SupplyDrift FreshUnlessExcused
PROPERTIES RowsSettle
